----------------------------- MODULE SpikeProofs -----------------------------
(***************************************************************************)
(* Safety of the one-shot ingestion for every chain, height, number of     *)
(* reorgs, set of queries, timestamps, limits and options: the snapshot it *)
(* accepts is one history, it refuses only histories that changed, and the *)
(* boundary it searches is tight.                                          *)
(***************************************************************************)
EXTENDS SpikeIngestion, BlockProofs, TLAPS

LocalTypeOK ==
  /\ pc \in Places
  /\ option \in SourceOptions
  /\ number \in 0..MaxHeight
  /\ source \in Blocks \cup {None} /\ parent \in Blocks \cup {None}
  /\ low \in Nat /\ high \in Nat
  /\ from \in Blocks \cup {None}
  /\ query \in 1..(Len(Queries) + 1)
  /\ scanFrom \in Nat
  /\ found \subseteq Blocks
  /\ cache \subseteq Blocks
  /\ \A a, b \in cache : Height(a) = Height(b) => a = b
  /\ head \in Blocks \cup {None}
  /\ outcome \in Refusals \cup {"running", "accepted"}

(* The chain never outgrows its bound. *)
ChainOK == ChainTypeOK /\ HeadNumber <= MaxHeight

(* What is known at each place, and how the numbers relate. *)
Paging    == {"events", "headers", "headAgain", "rpcHead", "rpcParent", "revalidate", "evaluate"}
Searching == {"first", "search", "from"}

Shape ==
  /\ pc \in {"head", "source"} => source = None
  /\ source = None => parent = None /\ from = None /\ head = None /\ cache = {}
  /\ from = None => query = 1 /\ found = {}
  /\ pc \in {"head", "source", "parent"} \cup Searching => from = None
  /\ pc \in {"parent"} \cup Searching \cup Paging => source # None
  /\ pc \in Searching \cup Paging => parent # None
  /\ pc \in Paging => from # None
  /\ pc \in {"rpcParent", "revalidate", "evaluate"} => head # None /\ Height(head) = number
  /\ pc = "done" <=> outcome # "running"
  /\ outcome = "accepted" => source # None /\ head # None /\ from # None

Numbers ==
  /\ pc \in {"parent", "events", "headers", "headAgain"} \cup Searching => number = Height(source)
  /\ pc \in {"rpcHead", "rpcParent", "revalidate", "evaluate"} => Height(source) <= number
  /\ parent # None => Height(source) >= 1 /\ parent = Parent(source)
  /\ from # None => Height(from) \in DeploymentBlock..Height(source)
  /\ head # None => Height(source) <= Height(head)
  /\ pc = "events" => query <= Len(Queries) /\ Height(from) <= scanFrom
  /\ pc \in Paging \ {"events"} => query = Len(Queries) + 1
  /\ outcome = "accepted" => query = Len(Queries) + 1
  /\ \A e \in found : from # None /\ Height(e) \in Height(from)..Height(source)

SpikeInv == ChainOK /\ LocalTypeOK /\ Shape /\ Numbers

(* A block that a reorg removed is not canonical, unless it came back; the   *)
(* source head is canonical or removed.                                      *)
OrphanOK ==
  /\ orphaned \subseteq Blocks
  /\ returned \in BOOLEAN
  /\ returned \/ \A b \in orphaned : ~Live(b)
  /\ source # None => Live(source) \/ source \in orphaned

(* Everything read belongs to the history of the source head, and the pages  *)
(* read so far left nothing out.                                             *)
ReadExact ==
  /\ \A b \in cache : Height(b) <= Height(source) => IsAncestor(b, source)
  /\ from # None => IsAncestor(from, source)
  /\ head # None => IsAncestor(source, head)
  /\ \A e \in found : /\ IsAncestor(e, source)
                       /\ \E q \in 1..Len(Queries) : Content(e) = Queries[q]
  /\ from # None =>
       \A q \in 1..Len(Queries), n \in Height(from)..Height(source) :
         /\ Content(Ancestor(source, n)) = Queries[q]
         /\ q < query \/ (q = query /\ n < scanFrom)
         => Ancestor(source, n) \in found

(* It does as long as the source head was never removed.  The second reading *)
(* of the source head turns that into a fact about the evidence alone, which *)
(* later reorgs cannot touch.                                                *)
HistoryInv ==
  /\ ~returned /\ source # None /\ source \notin orphaned => ReadExact
  /\ pc = "evaluate" \/ outcome = "accepted" => returned \/ ReadExact

(* Without a reorg everything read is canonical, so no header of the cache   *)
(* is ever replaced by another one.                                          *)
NoReorgInv ==
  reverts = 0 =>
    /\ source # None => Live(source)
    /\ head # None => Live(head)
    /\ \A b \in cache \cup found : Live(b)
    /\ pc \in Searching \cup Paging => source \in cache /\ parent \in cache
    /\ pc \in Paging => from \in cache
    /\ pc \in {"rpcParent", "revalidate", "evaluate"} => head \in cache
    /\ pc \in Paging \ {"events", "headers"} => found \subseteq cache
    /\ outcome \notin Contradictions

(* The bisection: what is at low is not too late, what is above high is.     *)
Bracket ==
  /\ low \in 0..MaxHeight /\ high <= number
  /\ low <= high \/ number < low
  /\ Timestamp[low] <= Required
  /\ \A n \in (high + 1)..number : Timestamp[n] > Required

BoundaryInv ==
  /\ option = None =>
       /\ pc = "first" => low = DeploymentBlock /\ high = number
       /\ pc = "search" => Bracket
       /\ pc = "from" /\ Timestamp[DeploymentBlock] < Required => Bracket /\ low >= high
       /\ from # None /\ Timestamp[DeploymentBlock] < Required =>
            \A n \in (Height(from) + 1)..Height(source) : Timestamp[n] > Required
  /\ outcome = "accepted" => SourceComplete

---------------------------------------------------------------------------
(* What an answer gives *)

LEMMA Answers ==
  ASSUME ChainOK
  PROVE  /\ HeadNumber \in 0..MaxHeight
         /\ \A n : Exists(n) => /\ BlockAt(n) \in Blocks /\ Height(BlockAt(n)) = n
                                /\ n \in 0..MaxHeight /\ Live(BlockAt(n))
<1>1. chain \in Blocks /\ HeadNumber \in Nat /\ HeadNumber <= MaxHeight
  BY DEF ChainOK, ChainTypeOK, HeadNumber, Height, Blocks
<1>2. ASSUME NEW n, Exists(n)
      PROVE  /\ BlockAt(n) \in Blocks /\ Height(BlockAt(n)) = n
             /\ n \in 0..MaxHeight /\ Live(BlockAt(n))
  <2>1. n \in 0..Height(chain) /\ n \in 0..MaxHeight
    BY <1>1, <1>2, ChainAssumption DEF Exists, HeadNumber
  <2>2. BlockAt(n) \in Blocks /\ Height(BlockAt(n)) = n
    BY <1>1, <2>1, AncestorType DEF BlockAt
  <2>3. Live(BlockAt(n))
    BY <1>1, <2>1, <2>2 DEF Live, IsAncestor, BlockAt
  <2>. QED  BY <2>1, <2>2, <2>3
<1>. QED
  BY <1>1, <1>2, ChainAssumption

LEMMA HeightType ==
  ASSUME NEW b \in Blocks
  PROVE  Height(b) \in Nat
BY DEF Blocks, Height

(* get() gives blocks of the number asked for, and headerCache.set one       *)
(* header per number.                                                        *)
LEMMA GetType ==
  ASSUME ChainOK, LocalTypeOK, NEW n, Has(n)
  PROVE  /\ Get(n) \subseteq Blocks /\ Get(n) # {}
         /\ \A b \in Get(n) : Height(b) = n /\ (b \in cache \/ (b = BlockAt(n) /\ Exists(n)))
BY Answers DEF Has, Get, CachedAt, LocalTypeOK

LEMMA CachedType ==
  ASSUME LocalTypeOK, NEW bs \in SUBSET Blocks,
         \A a, b \in bs : Height(a) = Height(b) => a = b
  PROVE  /\ Cached(bs) \subseteq Blocks
         /\ \A a, b \in Cached(bs) : Height(a) = Height(b) => a = b
BY DEF Cached, LocalTypeOK

---------------------------------------------------------------------------
(* Types and shape, action by action *)

LEMMA EndKeeps ==
  ASSUME LocalTypeOK, Shape, Numbers, NEW code \in Refusals \cup {"accepted"}, End(code),
         code = "accepted" => pc = "evaluate"
  PROVE  LocalTypeOK' /\ Shape' /\ Numbers'
<1>1. LocalTypeOK'
  BY DEF End, LocalTypeOK, Places
<1>2. code # "running"
  BY DEF Refusals, Contradictions
<1>3. Shape'
  BY <1>2 DEF End, Shape, Searching, Paging
<1>4. Numbers'
  BY DEF End, Numbers, Searching, Paging
<1>. QED
  BY <1>1, <1>3, <1>4

LEMMA EarlyReads ==
  ASSUME SpikeInv, ReadHead \/ ReadSource \/ ReadSourceParent
  PROVE  LocalTypeOK' /\ Shape' /\ Numbers'
<1> USE DEF SpikeInv
<1>1. CASE ReadHead
  BY <1>1, Answers DEF ReadHead, LocalTypeOK, Shape, Numbers, Places, Searching, Paging
<1>2. CASE ReadSource
  <2>1. CASE ~Exists(number)
    BY <1>2, <2>1, EndKeeps DEF ReadSource, Refusals
  <2>2. CASE Exists(number)
    <3>1. source' = BlockAt(number) /\ source' \in Blocks /\ Height(source') = number
      BY <1>2, <2>2, Answers DEF ReadSource
    <3>. QED
      BY <1>2, <2>2, <3>1, SpikeAssumption
        DEF ReadSource, LocalTypeOK, Shape, Numbers, Places, Searching, Paging
  <2>. QED  BY <2>1, <2>2
<1>3. CASE ReadSourceParent
  <2>1. CASE ~Exists(number - 1)
    BY <1>3, <2>1, EndKeeps DEF ReadSourceParent, Refusals
  <2>2. CASE Exists(number - 1) /\ Parent(source) # BlockAt(number - 1)
    BY <1>3, <2>2, EndKeeps DEF ReadSourceParent, Refusals, Contradictions
  <2>3. CASE Exists(number - 1) /\ Parent(source) = BlockAt(number - 1)
    <3> DEFINE above == BlockAt(number - 1)
    <3>1. /\ source \in Blocks /\ number = Height(source) /\ number \in 0..MaxHeight
          /\ pc = "parent"
      BY <1>3 DEF ReadSourceParent, LocalTypeOK, Shape, Numbers
    <3>2. above \in Blocks /\ Height(above) = number - 1 /\ number >= 1
      BY <2>3, <3>1, Answers
    <3>3. /\ parent' = above /\ cache' = {source, above} /\ high' = number
          /\ low' = IF option = None THEN DeploymentBlock ELSE option
          /\ pc' = IF option = None THEN "first" ELSE "from"
          /\ UNCHANGED <<option, number, source, from, query, scanFrom, found, head, outcome>>
      BY <1>3, <2>3 DEF ReadSourceParent
    <3>4. low' \in Nat /\ high' \in Nat
      BY <3>1, <3>3, SpikeAssumption DEF LocalTypeOK
    <3>5. cache' \subseteq Blocks /\ \A a, b \in cache' : Height(a) = Height(b) => a = b
      BY <3>1, <3>2, <3>3
    <3>6. above # None /\ source # None
      BY <3>1, <3>2, SpikeAssumption
    <3> HIDE DEF above
    <3>7. LocalTypeOK'
      BY <3>2, <3>3, <3>4, <3>5 DEF LocalTypeOK, Places
    <3>8. Shape'
      BY <3>1, <3>3, <3>6 DEF Shape, Searching, Paging
    <3>9. Numbers'
      <4>1. above = Parent(source)
        BY <2>3 DEF above
      <4>. QED  BY <3>1, <3>2, <3>3, <4>1 DEF Numbers, Searching, Paging
    <3>. QED  BY <3>7, <3>8, <3>9
  <2>. QED  BY <2>1, <2>2, <2>3
<1>. QED
  BY <1>1, <1>2, <1>3

LEMMA MiddleBounds ==
  ASSUME low \in Nat, high \in Nat, low < high
  PROVE  Middle \in (low + 1)..high
BY DEF Middle

(* A step that reads one header into the cache. *)
LEMMA GetKeepsCache ==
  ASSUME ChainOK, LocalTypeOK, NEW n, Has(n), cache' = Cached(Get(n))
  PROVE  /\ cache' \subseteq Blocks
         /\ \A a, b \in cache' : Height(a) = Height(b) => a = b
<1>1. Get(n) \in SUBSET Blocks /\ \A a, b \in Get(n) : Height(a) = Height(b) => a = b
  BY GetType, Answers DEF Get, CachedAt, LocalTypeOK
<1>. QED
  BY <1>1, CachedType

LEMMA SearchReads ==
  ASSUME SpikeInv, SearchFirst \/ SearchStep \/ ReadFrom
  PROVE  LocalTypeOK' /\ Shape' /\ Numbers'
<1> USE DEF SpikeInv
<1>1. CASE SearchFirst
  <2>1. CASE ~Has(low)
    BY <1>1, <2>1, EndKeeps DEF SearchFirst, Refusals
  <2>2. CASE Has(low)
    <3>1. /\ cache' \subseteq Blocks
          /\ \A a, b \in cache' : Height(a) = Height(b) => a = b
      BY <1>1, <2>2, GetKeepsCache DEF SearchFirst
    <3>. QED
      BY <1>1, <2>2, <3>1
        DEF SearchFirst, LocalTypeOK, Shape, Numbers, Places, Searching, Paging
  <2>. QED  BY <2>1, <2>2
<1>2. CASE SearchStep
  <2>1. CASE low >= high
    BY <1>2, <2>1 DEF SearchStep, LocalTypeOK, Shape, Numbers, Places, Searching, Paging
  <2>2. CASE low < high /\ ~Has(Middle)
    <3>1. End("RPC_ERROR")
      BY <1>2, <2>2 DEF SearchStep, End, LocalTypeOK
    <3>. QED
      BY <3>1, EndKeeps DEF Refusals
  <2>3. CASE low < high /\ Has(Middle)
    <3>1. cache' = Cached(Get(Middle))
      BY <1>2, <2>3 DEF SearchStep, LocalTypeOK
    <3>2. /\ cache' \subseteq Blocks
          /\ \A a, b \in cache' : Height(a) = Height(b) => a = b
      BY <2>3, <3>1, GetKeepsCache
    <3>3. Middle \in (low + 1)..high
      BY <2>3, MiddleBounds DEF LocalTypeOK
    <3>4. low' \in Nat /\ high' \in Nat
      BY <1>2, <2>3, <3>3 DEF SearchStep, LocalTypeOK
    <3>5. UNCHANGED <<pc, outcome, option, number, source, parent, from, query, scanFrom, found, head>>
      BY <1>2, <2>3 DEF SearchStep, LocalTypeOK
    <3>6. source # None
      BY <1>2 DEF SearchStep, Shape, Searching
    <3>. QED
      BY <3>2, <3>4, <3>5, <3>6 DEF LocalTypeOK, Shape, Numbers
  <2>. QED  BY <2>1, <2>2, <2>3 DEF LocalTypeOK
<1>3. CASE ReadFrom
  <2>1. CASE low \notin DeploymentBlock..number \/ ~Has(low)
    BY <1>3, <2>1, EndKeeps DEF ReadFrom, Refusals
  <2>2. CASE low \in DeploymentBlock..number /\ Has(low)
    <3>1. /\ from' \in Get(low) /\ cache' = Cached(Get(low)) /\ scanFrom' = low /\ pc' = "events"
          /\ UNCHANGED <<option, number, source, parent, low, high, query, found, head, outcome>>
      BY <1>3, <2>2 DEF ReadFrom
    <3>2. /\ cache' \subseteq Blocks
          /\ \A a, b \in cache' : Height(a) = Height(b) => a = b
      BY <2>2, <3>1, GetKeepsCache
    <3>3. from' \in Blocks /\ Height(from') = low /\ from' # None
      BY <2>2, <3>1, GetType, SpikeAssumption
    <3>4. pc = "from" /\ from = None /\ number = Height(source) /\ source # None /\ parent # None
      BY <1>3 DEF ReadFrom, Shape, Numbers, Searching, Paging
    <3>5. LocalTypeOK'
      BY <3>1, <3>2, <3>3 DEF LocalTypeOK, Places
    <3>6. Shape'
      BY <3>1, <3>3, <3>4 DEF Shape, Searching, Paging
    <3>7. Numbers'
      <4>1. Len(Queries) \in Nat /\ Len(Queries) > 0 /\ query = 1 /\ found = {}
        BY <3>4, SpikeAssumption DEF Shape
      <4>. QED
        BY <2>2, <3>1, <3>3, <3>4, <4>1 DEF Numbers, Searching, Paging, LocalTypeOK
    <3>. QED  BY <3>5, <3>6, <3>7
  <2>. QED  BY <2>1, <2>2
<1>. QED
  BY <1>1, <1>2, <1>3

LEMMA EventReads ==
  ASSUME SpikeInv, CollectPage \/ ReadEventHeaders
  PROVE  LocalTypeOK' /\ Shape' /\ Numbers'
<1> USE DEF SpikeInv
<1>0. Len(Queries) \in Nat
  BY SpikeAssumption
<1>1. CASE CollectPage
  <2>1. PICK last \in scanFrom..number :
          /\ found' = found \cup
               {BlockAt(n) : n \in {m \in scanFrom..last :
                                Exists(m) /\ Content(BlockAt(m)) = Queries[query]}}
          /\ \/ last < number /\ scanFrom' = last + 1 /\ UNCHANGED <<query, pc>>
             \/ last = number /\ NextQuery
    BY <1>1 DEF CollectPage
  <2>2. /\ pc = "events"
        /\ UNCHANGED <<option, number, source, parent, low, high, from, cache, head, outcome>>
    BY <1>1 DEF CollectPage
  <2>3. /\ number = Height(source) /\ number \in Nat /\ from \in Blocks /\ Height(from) \in Nat
        /\ from # None /\ source # None /\ parent # None
        /\ Height(from) <= scanFrom /\ Height(from) \in DeploymentBlock..number
        /\ query \in 1..Len(Queries) /\ scanFrom \in Nat
    BY <1>0, <2>2, HeightType, ChainAssumption DEF LocalTypeOK, Shape, Numbers, Searching, Paging
  <2>4. \A e \in found' : e \in found \/ (e \in Blocks /\ Height(e) \in scanFrom..number)
    BY <2>1, <2>3, Answers
  <2>5. \A e \in found' : e \in Blocks /\ Height(e) \in Height(from)..number
    BY <2>3, <2>4 DEF LocalTypeOK, Numbers
  <2>6. \/ scanFrom' = last + 1 /\ query' = query /\ pc' = "events"
        \/ scanFrom' = Height(from) /\ query' = query + 1 /\ query < Len(Queries) /\ pc' = "events"
        \/ scanFrom' = Height(from) /\ query' = Len(Queries) + 1 /\ pc' = "headers"
    BY <1>0, <2>1, <2>2, <2>3 DEF NextQuery
  <2>7. /\ scanFrom' \in Nat /\ Height(from) <= scanFrom'
        /\ query' \in 1..(Len(Queries) + 1)
        /\ (pc' = "events" /\ query' <= Len(Queries)) \/ (pc' = "headers" /\ query' = Len(Queries) + 1)
    BY <1>0, <2>3, <2>6
  <2>8. LocalTypeOK'
    BY <2>2, <2>5, <2>7 DEF LocalTypeOK, Places
  <2>9. Shape'
    BY <2>2, <2>3, <2>7 DEF Shape, Searching, Paging
  <2>10. Numbers'
    BY <2>2, <2>3, <2>5, <2>7 DEF Numbers, Searching, Paging
  <2>. QED  BY <2>8, <2>9, <2>10
<1>2. CASE ReadEventHeaders
  <2> DEFINE missing == {n \in {Height(e) : e \in found} : CachedAt(n) = {}}
             headers == {BlockAt(n) : n \in missing}
  <2>1. CASE (\E n \in missing : ~Exists(n)) \/ ~Decodable(Cached(headers))
    BY <1>2, <2>1, EndKeeps DEF ReadEventHeaders, Refusals, Contradictions
  <2>2. CASE (\A n \in missing : Exists(n)) /\ Decodable(Cached(headers))
    <3>1. /\ cache' = Cached(headers) /\ pc = "headers" /\ pc' = "headAgain"
          /\ UNCHANGED <<option, number, source, parent, low, high, from, query, scanFrom,
                         found, head, outcome>>
      BY <1>2, <2>2 DEF ReadEventHeaders
    <3>2. headers \in SUBSET Blocks /\ \A a, b \in headers : Height(a) = Height(b) => a = b
      BY <2>2, Answers
    <3>3. /\ cache' \subseteq Blocks
          /\ \A a, b \in cache' : Height(a) = Height(b) => a = b
      <4> HIDE DEF headers
      <4>. QED  BY <3>1, <3>2, CachedType
    <3>4. source # None
      BY <3>1 DEF Shape, Paging
    <3>. QED
      BY <3>1, <3>3, <3>4 DEF LocalTypeOK, Shape, Numbers, Places, Searching, Paging
  <2>. QED  BY <2>1, <2>2
<1>. QED
  BY <1>1, <1>2

LEMMA LateReads ==
  ASSUME SpikeInv, ReadHeadAgain \/ ReadRpcHead \/ ReadRpcHeadParent \/ RevalidateSource
  PROVE  LocalTypeOK' /\ Shape' /\ Numbers'
<1> USE DEF SpikeInv
<1>1. CASE ReadHeadAgain
  <2>1. CASE HeadNumber < Height(source)
    BY <1>1, <2>1, EndKeeps DEF ReadHeadAgain, Refusals, Contradictions
  <2>2. CASE ~(HeadNumber < Height(source))
    <3>1. /\ pc = "headAgain" /\ pc' = "rpcHead" /\ number' = HeadNumber
          /\ UNCHANGED <<option, source, parent, low, high, from, query, scanFrom,
                         found, cache, head, outcome>>
      BY <1>1, <2>2 DEF ReadHeadAgain
    <3>2. source \in Blocks /\ Height(source) \in Nat /\ Height(source) <= number'
      BY <2>2, <3>1, Answers, HeightType, ChainAssumption DEF LocalTypeOK, Shape, Paging
    <3>. QED
      BY <3>1, <3>2, Answers DEF LocalTypeOK, Shape, Numbers, Places, Searching, Paging
  <2>. QED  BY <2>1, <2>2
<1>2. CASE ReadRpcHead
  <2>1. CASE ~Exists(number)
    BY <1>2, <2>1, EndKeeps DEF ReadRpcHead, Refusals
  <2>2. CASE Exists(number)
    <3>1. BlockAt(number) \in Blocks /\ Height(BlockAt(number)) = number /\ BlockAt(number) # None
      BY <2>2, Answers, SpikeAssumption
    <3>2. /\ cache' = Cached({BlockAt(number)}) /\ pc = "rpcHead" /\ pc' = "rpcParent"
          /\ head' = BlockAt(number)
          /\ UNCHANGED <<option, number, source, parent, low, high, from, query, scanFrom,
                         found, outcome>>
      BY <1>2, <2>2 DEF ReadRpcHead
    <3>3. /\ cache' \subseteq Blocks
          /\ \A a, b \in cache' : Height(a) = Height(b) => a = b
      BY <3>1, <3>2, CachedType
    <3>4. source # None
      BY <3>2 DEF Shape, Paging
    <3>. QED
      BY <3>1, <3>2, <3>3, <3>4 DEF LocalTypeOK, Shape, Numbers, Places, Searching, Paging
  <2>. QED  BY <2>1, <2>2
<1>3. CASE ReadRpcHeadParent
  <2> DEFINE same  == number = Height(source)
             above == IF same THEN parent ELSE BlockAt(number - 1)
  <2>1. CASE (~same /\ ~Exists(number - 1)) \/ Parent(head) # above
    BY <1>3, <2>1, EndKeeps DEF ReadRpcHeadParent, Refusals, Contradictions
  <2>2. CASE ~(~same /\ ~Exists(number - 1)) /\ Parent(head) = above
    <3>1. /\ cache' = Cached({above}) /\ pc = "rpcParent" /\ pc' = "revalidate"
          /\ UNCHANGED <<option, number, source, parent, low, high, from,
                         query, scanFrom, found, head, outcome>>
      BY <1>3, <2>2 DEF ReadRpcHeadParent
    <3>2. above \in Blocks /\ source # None
      BY <2>2, <3>1, Answers DEF LocalTypeOK, Shape, Searching, Paging
    <3>3. /\ cache' \subseteq Blocks
          /\ \A a, b \in cache' : Height(a) = Height(b) => a = b
      <4> HIDE DEF above
      <4>. QED  BY <3>1, <3>2, CachedType
    <3>. QED
      BY <3>1, <3>2, <3>3 DEF LocalTypeOK, Shape, Numbers, Places, Searching, Paging
  <2>. QED  BY <2>1, <2>2
<1>4. CASE RevalidateSource
  <2>1. CASE ~Exists(Height(source)) \/ ~Live(source)
    BY <1>4, <2>1, EndKeeps DEF RevalidateSource, Refusals, Contradictions
  <2>2. CASE Exists(Height(source)) /\ Live(source)
    <3>1. /\ cache' = Cached({source}) /\ pc = "revalidate" /\ pc' = "evaluate"
          /\ UNCHANGED <<option, number, source, parent, low, high, from, query, scanFrom,
                         found, head, outcome>>
      BY <1>4, <2>2 DEF RevalidateSource
    <3>2. source \in Blocks /\ source # None
      BY <3>1 DEF LocalTypeOK, Shape, Paging
    <3>3. /\ cache' \subseteq Blocks
          /\ \A a, b \in cache' : Height(a) = Height(b) => a = b
      BY <3>1, <3>2, CachedType
    <3>. QED
      BY <3>1, <3>2, <3>3 DEF LocalTypeOK, Shape, Numbers, Places, Searching, Paging
  <2>. QED  BY <2>1, <2>2
<1>. QED
  BY <1>1, <1>2, <1>3, <1>4

LEMMA VerdictType ==
  ASSUME NEW at
  PROVE  Verdict(at) \in Refusals \cup {"accepted"}
BY DEF Verdict, Refusals, Contradictions

LEMMA Endings ==
  ASSUME SpikeInv, Evaluate \/ RpcFails
  PROVE  LocalTypeOK' /\ Shape' /\ Numbers'
<1>1. CASE Evaluate
  <2>1. PICK at \in Evaluations : End(Verdict(at))
    BY <1>1 DEF Evaluate
  <2>2. pc = "evaluate"
    BY <1>1 DEF Evaluate
  <2> DEFINE code == Verdict(at)
  <2>3. code \in Refusals \cup {"accepted"} /\ End(code)
    BY <2>1, VerdictType
  <2> HIDE DEF code
  <2>. QED
    BY <2>2, <2>3, EndKeeps DEF SpikeInv
<1>2. CASE RpcFails
  BY <1>2, EndKeeps DEF RpcFails, Refusals, SpikeInv
<1>. QED
  BY <1>1, <1>2

---------------------------------------------------------------------------
(* The chain *)

LEMMA Growth ==
  ASSUME ChainOK, Extend
  PROVE  /\ ChainOK'
         /\ \A b \in Blocks : Live(b) => Live(b)'
         /\ \A b \in Blocks : Live(b)' => Live(b) \/ b = chain'
<1>1. PICK c \in Contents : chain' = Append(chain, c)
  BY DEF Extend
<1>2. chain \in Blocks /\ HeadNumber \in Nat /\ HeadNumber < MaxHeight
  BY DEF ChainOK, ChainTypeOK, HeadNumber, Height, Blocks, Extend
<1>3. /\ chain' \in Blocks /\ Height(chain') = Height(chain) + 1 /\ IsAncestor(chain, chain')
      /\ \A b \in Blocks : IsAncestor(b, chain') => IsAncestor(b, chain) \/ b = chain'
  BY <1>1, <1>2, AppendedAncestry
<1>4. \A b \in Blocks : IsAncestor(b, chain) => IsAncestor(b, chain')
  BY <1>2, <1>3, AncestryIsTransitive
<1>5. ChainOK'
  BY <1>2, <1>3, ChainAssumption DEF ChainOK, ChainTypeOK, HeadNumber, Extend
<1>. QED
  BY <1>3, <1>4, <1>5 DEF Live

LEMMA Shrinking ==
  ASSUME ChainOK, Revert
  PROVE  /\ ChainOK' /\ reverts' # 0
         /\ \A b \in Blocks : Live(b)' => Live(b)
         /\ \A b \in Blocks : Live(b) =>
              Live(b)' \/ b \in {Ancestor(chain, n) : n \in (Height(chain') + 1)..HeadNumber}
         /\ {Ancestor(chain, n) : n \in (Height(chain') + 1)..HeadNumber} \subseteq Blocks
         /\ \A b \in {Ancestor(chain, n) : n \in (Height(chain') + 1)..HeadNumber} : ~Live(b)'
<1>1. PICK n \in Finalized..(HeadNumber - 1) : chain' = BlockAt(n)
  BY DEF Revert
<1>2. /\ chain \in Blocks /\ HeadNumber \in Nat /\ HeadNumber <= MaxHeight
      /\ reverts \in Nat /\ HeadNumber = Height(chain)
  BY DEF ChainOK, ChainTypeOK, HeadNumber, Height, Blocks
<1>3. n \in 0..HeadNumber /\ n < HeadNumber
  BY <1>1, <1>2, ChainAssumption
<1>4. chain' \in Blocks /\ Height(chain') = n /\ IsAncestor(chain', chain)
  BY <1>1, <1>2, <1>3, Answers DEF Exists, Live
<1>5. \A b \in Blocks : IsAncestor(b, chain') => IsAncestor(b, chain)
  BY <1>2, <1>4, AncestryIsTransitive
<1>6. ChainOK' /\ reverts' # 0
  BY <1>2, <1>3, <1>4, ChainAssumption DEF ChainOK, ChainTypeOK, HeadNumber, Revert
<1>7. ASSUME NEW b \in Blocks, IsAncestor(b, chain)
      PROVE  \/ IsAncestor(b, chain')
             \/ b \in {Ancestor(chain, m) : m \in (n + 1)..HeadNumber}
  <2>1. Height(b) \in 0..HeadNumber /\ Ancestor(chain, Height(b)) = b
    BY <1>2, <1>7, HeightType DEF IsAncestor
  <2>2. CASE Height(b) <= n
    <3>1. Height(b) \in 0..Height(chain')
      BY <1>3, <1>4, <2>1, <2>2
    <3>2. Ancestor(chain, Height(b)) = Ancestor(chain', Height(b))
      BY <1>2, <1>4, <3>1, AncestorsOf
    <3>. QED  BY <1>4, <2>1, <2>2, <3>2 DEF IsAncestor
  <2>3. CASE ~(Height(b) <= n)
    BY <1>2, <1>3, <2>1, <2>3
  <2>. QED  BY <2>2, <2>3
<1>8. ASSUME NEW m \in (n + 1)..HeadNumber
      PROVE  Ancestor(chain, m) \in Blocks /\ ~IsAncestor(Ancestor(chain, m), chain')
  <2>1. m \in 0..Height(chain) /\ m > n
    BY <1>2, <1>3
  <2>2. Ancestor(chain, m) \in Blocks /\ Height(Ancestor(chain, m)) = m
    BY <1>2, <2>1, AncestorType
  <2>. QED  BY <1>3, <1>4, <2>1, <2>2 DEF IsAncestor
<1>. QED
  BY <1>4, <1>5, <1>6, <1>7, <1>8 DEF Live

LEMMA NextSpike ==
  ASSUME SpikeInv, Next
  PROVE  SpikeInv'
<1>1. CASE Ingest \/ Failure
  <2>1. ChainOK'
    BY <1>1 DEF SpikeInv, ChainOK, ChainTypeOK, HeadNumber, Ingest, Failure, chainVars
  <2>2. LocalTypeOK' /\ Shape' /\ Numbers'
    BY <1>1, EarlyReads, SearchReads, EventReads, LateReads, Endings DEF Ingest, Answered, Failure
  <2>. QED  BY <2>1, <2>2 DEF SpikeInv
<1>2. CASE ChainGrows \/ ChainReorgs
  <2>1. ChainOK'
    BY <1>2, Growth, Shrinking DEF SpikeInv, ChainGrows, ChainReorgs
  <2>2. LocalTypeOK' /\ Shape' /\ Numbers'
    BY <1>2 DEF SpikeInv, ChainGrows, ChainReorgs, localVars, LocalTypeOK, Shape, Numbers
  <2>. QED  BY <2>1, <2>2 DEF SpikeInv
<1>. QED
  BY <1>1, <1>2 DEF Next

---------------------------------------------------------------------------
(* One history *)

LEMMA LiveNeighbours ==
  ASSUME ChainOK, NEW b \in Blocks, Live(b), NEW n, Exists(n)
  PROVE  /\ n <= Height(b) => IsAncestor(BlockAt(n), b) /\ BlockAt(n) = Ancestor(b, n)
         /\ Height(b) <= n => IsAncestor(b, BlockAt(n))
<1>1. /\ chain \in Blocks /\ n \in 0..Height(chain) /\ Height(chain) \in Nat /\ Height(b) \in Nat
      /\ BlockAt(n) \in Blocks /\ Height(BlockAt(n)) = n /\ Live(BlockAt(n))
  BY Answers, HeightType DEF ChainOK, ChainTypeOK, Exists, HeadNumber
<1>2. CASE n <= Height(b)
  <2>1. n \in 0..Height(b)
    BY <1>1, <1>2
  <2>2. Ancestor(chain, n) = Ancestor(b, n) /\ IsAncestor(Ancestor(b, n), b)
    BY <1>1, <2>1, AncestorsOf DEF Live
  <2>3. IsAncestor(BlockAt(n), b) /\ BlockAt(n) = Ancestor(b, n)
    BY <2>2 DEF BlockAt
  <2>4. Height(b) <= n => IsAncestor(b, BlockAt(n))
    <3>1. ASSUME Height(b) = n  PROVE BlockAt(n) = b
      BY <1>1, <3>1, AncestorsAgree DEF Live
    <3>. QED  BY <1>1, <1>2, <2>3, <3>1
  <2>. QED  BY <2>3, <2>4
<1>3. CASE ~(n <= Height(b))
  <2>1. Height(b) \in 0..Height(BlockAt(n)) /\ Height(b) \in 0..Height(chain)
    BY <1>1, <1>3
  <2>2. Ancestor(chain, Height(b)) = Ancestor(BlockAt(n), Height(b))
    BY <1>1, <2>1, AncestorsOf DEF Live
  <2>. QED
    BY <1>1, <1>3, <2>1, <2>2 DEF Live, IsAncestor
<1>. QED
  BY <1>2, <1>3

LEMMA CachedFrom ==
  ASSUME NEW bs
  PROVE  /\ Cached(bs) \subseteq cache \cup bs
         /\ bs \subseteq Cached(bs)
BY DEF Cached

(* A step that only fills the cache, with canonical blocks. *)
LEMMA ExactCache ==
  ASSUME SpikeInv, source # None, Live(source), ReadExact,
         NEW bs, \A b \in bs : b \in cache \/ \E n : Exists(n) /\ b = BlockAt(n),
         cache' = Cached(bs),
         UNCHANGED <<source, from, head, found, query, scanFrom>>
  PROVE  ReadExact'
<1>1. source \in Blocks /\ ChainOK
  BY DEF SpikeInv, LocalTypeOK
<1>2. ASSUME NEW b \in cache', Height(b) <= Height(source)
      PROVE  IsAncestor(b, source)
  <2>1. CASE b \in cache
    BY <1>2, <2>1 DEF ReadExact
  <2>2. CASE \E n : Exists(n) /\ b = BlockAt(n)
    BY <1>1, <1>2, <2>2, Answers, LiveNeighbours
  <2>. QED  BY <2>1, <2>2, CachedFrom
<1>. QED
  BY <1>2 DEF ReadExact

LEMMA ExactEnd ==
  ASSUME ReadExact, NEW code, End(code)
  PROVE  ReadExact' /\ source' = source
BY DEF ReadExact, End

LEMMA ExactPage ==
  ASSUME SpikeInv, source # None, Live(source), ReadExact, CollectPage
  PROVE  ReadExact'
<1>0. /\ source \in Blocks /\ ChainOK /\ from # None /\ from \in Blocks /\ number = Height(source)
      /\ query \in 1..Len(Queries) /\ Len(Queries) \in Nat /\ scanFrom \in Nat
      /\ number \in Nat /\ Height(from) \in Nat /\ Height(from) <= scanFrom
  BY SpikeAssumption, HeightType, ChainAssumption
    DEF SpikeInv, LocalTypeOK, CollectPage, Shape, Numbers, Paging
<1>1. PICK last \in scanFrom..number :
        /\ found' = found \cup
             {BlockAt(n) : n \in {m \in scanFrom..last :
                              Exists(m) /\ Content(BlockAt(m)) = Queries[query]}}
        /\ \/ last < number /\ scanFrom' = last + 1 /\ UNCHANGED <<query, pc>>
           \/ last = number /\ NextQuery
  BY DEF CollectPage
<1>2. UNCHANGED <<source, from, head, cache>>
  BY DEF CollectPage
<1>3. ASSUME NEW m \in scanFrom..last
      PROVE  Exists(m) /\ BlockAt(m) = Ancestor(source, m) /\ IsAncestor(BlockAt(m), source)
  <2>1. Exists(m) /\ m <= Height(source)
    BY <1>0, <1>3, HeightType DEF Exists, Live, IsAncestor, HeadNumber, SpikeInv, ChainOK, ChainTypeOK
  <2>. QED  BY <1>0, <2>1, LiveNeighbours
<1>4. ASSUME NEW e \in found'
      PROVE  IsAncestor(e, source) /\ \E q \in 1..Len(Queries) : Content(e) = Queries[q]
  <2>1. CASE e \in found
    BY <2>1 DEF ReadExact
  <2>2. CASE e \notin found
    BY <1>0, <1>1, <1>3, <2>2
  <2>. QED  BY <2>1, <2>2
<1>5. ASSUME NEW q \in 1..Len(Queries), NEW n \in Height(from)..Height(source),
             Content(Ancestor(source, n)) = Queries[q],
             q < query' \/ (q = query' /\ n < scanFrom')
      PROVE  Ancestor(source, n) \in found'
  <2>1. q < query \/ (q = query /\ n < scanFrom) \/ (q = query /\ n \in scanFrom..last)
    <3>1. CASE last < number /\ scanFrom' = last + 1 /\ query' = query
      BY <1>0, <1>5, <3>1
    <3>2. CASE last = number /\ NextQuery
      BY <1>0, <1>5, <3>2 DEF NextQuery
    <3>. QED  BY <1>1, <3>1, <3>2
  <2>2. CASE q < query \/ (q = query /\ n < scanFrom)
    BY <1>0, <1>1, <1>5, <2>2 DEF ReadExact
  <2>3. CASE q = query /\ n \in scanFrom..last
    BY <1>1, <1>3, <1>5, <2>3
  <2>. QED  BY <2>1, <2>2, <2>3
<1>. QED
  BY <1>2, <1>4, <1>5 DEF ReadExact

(* While the source head is canonical, every answer is about its history. *)
LEMMA ExactReads ==
  ASSUME SpikeInv, source # None, Live(source), ReadExact, Answered
  PROVE  ReadExact'
<1>0. source \in Blocks /\ ChainOK /\ LocalTypeOK
  BY DEF SpikeInv, LocalTypeOK
<1>1. ASSUME NEW code, End(code)  PROVE ReadExact'
  BY <1>1, ExactEnd
<1>2. CASE ReadHead \/ ReadSource
  BY <1>2 DEF SpikeInv, Shape, ReadHead, ReadSource
<1>3. CASE ReadSourceParent
  <2>1. CASE \E code : End(code)
    BY <1>1, <2>1
  <2>2. CASE ~ \E code : End(code)
    <3>1. /\ Exists(number - 1) /\ cache' = {source, BlockAt(number - 1)} /\ number = Height(source)
          /\ UNCHANGED <<source, from, head, found, query, scanFrom>>
      BY <1>3, <2>2 DEF ReadSourceParent, SpikeInv, Numbers
    <3>2. IsAncestor(BlockAt(number - 1), source) /\ IsAncestor(source, source)
      BY <1>0, <3>1, LiveNeighbours, HeightType, AncestorSelf DEF IsAncestor
    <3>. QED  BY <3>1, <3>2 DEF ReadExact
  <2>. QED  BY <2>1, <2>2
<1>4. ASSUME NEW n, Has(n), cache' = Cached(Get(n)),
             UNCHANGED <<source, from, head, found, query, scanFrom>>
      PROVE  ReadExact'
  <2>1. \A b \in Get(n) : b \in cache \/ \E m : Exists(m) /\ b = BlockAt(m)
    BY <1>0, <1>4, GetType
  <2>. QED  BY <1>4, <2>1, ExactCache
<1>5. CASE SearchFirst
  <2>1. CASE ~Has(low)
    BY <1>1, <1>5, <2>1 DEF SearchFirst
  <2>2. CASE Has(low)
    BY <1>4, <1>5, <2>2 DEF SearchFirst
  <2>. QED  BY <2>1, <2>2
<1>6. CASE SearchStep
  <2>1. CASE cache' = cache
    BY <1>6, <2>1 DEF SearchStep, ReadExact
  <2>2. CASE cache' # cache
    <3>1. Has(Middle) /\ cache' = Cached(Get(Middle))
      BY <1>6, <2>2 DEF SearchStep
    <3>. QED  BY <1>4, <1>6, <3>1 DEF SearchStep
  <2>. QED  BY <2>1, <2>2
<1>7. CASE ReadFrom
  <2>1. CASE low \notin DeploymentBlock..number \/ ~Has(low)
    BY <1>1, <1>7, <2>1 DEF ReadFrom
  <2>2. CASE low \in DeploymentBlock..number /\ Has(low)
    <3>1. /\ from' \in Get(low) /\ cache' = Cached(Get(low)) /\ scanFrom' = low
          /\ UNCHANGED <<source, query, found, head>> /\ from = None
      BY <1>7, <2>2 DEF ReadFrom, SpikeInv, Shape, Searching
    <3>2. number = Height(source) /\ query = 1 /\ found = {} /\ Height(source) \in Nat
      BY <1>0, <1>7, <3>1, HeightType DEF ReadFrom, SpikeInv, Shape, Numbers, Searching
    <3>3. /\ Height(from') = low
          /\ from' \in cache \/ (from' = BlockAt(low) /\ Exists(low))
      BY <1>0, <2>2, <3>1, GetType
    <3>4. low <= Height(source)
      BY <2>2, <3>2, SpikeAssumption, ChainAssumption
    <3>5. IsAncestor(from', source)
      <4>1. CASE from' \in cache
        BY <3>3, <3>4, <4>1 DEF ReadExact
      <4>2. CASE from' = BlockAt(low) /\ Exists(low)
        BY <1>0, <3>4, <4>2, LiveNeighbours
      <4>. QED  BY <3>3, <4>1, <4>2
    <3>6. ASSUME NEW b \in cache', Height(b) <= Height(source)
          PROVE  IsAncestor(b, source)
      <4>1. b \in cache \/ b \in Get(low)
        BY <3>1, CachedFrom
      <4>2. CASE b \in cache
        BY <3>6, <4>2 DEF ReadExact
      <4>3. CASE b \in Get(low) /\ b \notin cache
        BY <1>0, <2>2, <3>4, <4>3, GetType, LiveNeighbours
      <4>. QED  BY <4>1, <4>2, <4>3
    <3>7. \A q \in 1..Len(Queries), n \in Height(from')..Height(source) :
            ~(q < query' \/ (q = query' /\ n < scanFrom'))
      BY <2>2, <3>1, <3>2, <3>3, SpikeAssumption, ChainAssumption
    <3>. QED
      BY <3>1, <3>2, <3>5, <3>6, <3>7 DEF ReadExact
  <2>. QED  BY <2>1, <2>2
<1>8. CASE CollectPage
  BY <1>8, ExactPage
<1>9. CASE ReadEventHeaders
  <2> DEFINE missing == {n \in {Height(e) : e \in found} : CachedAt(n) = {}}
             headers == {BlockAt(n) : n \in missing}
  <2>1. CASE (\E n \in missing : ~Exists(n)) \/ ~Decodable(Cached(headers))
    BY <1>1, <1>9, <2>1 DEF ReadEventHeaders
  <2>2. CASE (\A n \in missing : Exists(n)) /\ Decodable(Cached(headers))
    <3>1. /\ cache' = Cached(headers)
          /\ UNCHANGED <<source, from, head, found, query, scanFrom>>
      BY <1>9, <2>2 DEF ReadEventHeaders
    <3>2. \A b \in headers : \E n : Exists(n) /\ b = BlockAt(n)
      BY <2>2
    <3> HIDE DEF headers
    <3>. QED  BY <3>1, <3>2, ExactCache
  <2>. QED  BY <2>1, <2>2
<1>10. CASE ReadHeadAgain
  <2>1. CASE HeadNumber < Height(source)
    BY <1>1, <1>10, <2>1 DEF ReadHeadAgain
  <2>2. CASE ~(HeadNumber < Height(source))
    BY <1>10, <2>2 DEF ReadHeadAgain, ReadExact
  <2>. QED  BY <2>1, <2>2
<1>11. CASE ReadRpcHead
  <2>1. CASE ~Exists(number)
    BY <1>1, <1>11, <2>1 DEF ReadRpcHead
  <2>2. CASE Exists(number)
    <3>1. /\ cache' = Cached({BlockAt(number)}) /\ head' = BlockAt(number)
          /\ UNCHANGED <<source, from, found, query, scanFrom>>
      BY <1>11, <2>2 DEF ReadRpcHead
    <3>2. IsAncestor(source, head')
      BY <1>0, <1>11, <2>2, <3>1, LiveNeighbours DEF ReadRpcHead, SpikeInv, Numbers
    <3>3. ASSUME NEW b \in cache', Height(b) <= Height(source)
          PROVE  IsAncestor(b, source)
      <4>1. b \in cache \/ b = BlockAt(number)
        BY <3>1, CachedFrom
      <4>2. CASE b \in cache
        BY <3>3, <4>2 DEF ReadExact
      <4>3. CASE b = BlockAt(number)
        BY <1>0, <2>2, <3>3, <4>3, Answers, LiveNeighbours
      <4>. QED  BY <4>1, <4>2, <4>3
    <3>. QED  BY <3>1, <3>2, <3>3 DEF ReadExact
  <2>. QED  BY <2>1, <2>2
<1>12. CASE ReadRpcHeadParent
  <2> DEFINE same  == number = Height(source)
             above == IF same THEN parent ELSE BlockAt(number - 1)
  <2>1. CASE (~same /\ ~Exists(number - 1)) \/ Parent(head) # above
    BY <1>1, <1>12, <2>1 DEF ReadRpcHeadParent
  <2>2. CASE ~(~same /\ ~Exists(number - 1)) /\ Parent(head) = above
    <3>1. /\ cache' = Cached({above}) /\ parent # None /\ parent = Parent(source)
          /\ Height(source) >= 1
          /\ UNCHANGED <<source, from, head, found, query, scanFrom>>
      BY <1>12, <2>2 DEF ReadRpcHeadParent, SpikeInv, Shape, Numbers, Paging
    <3>2. \E n : Exists(n) /\ above = BlockAt(n)
      <4>1. CASE same
        <5>1. Exists(Height(source) - 1) /\ Height(source) \in Nat
          BY <1>0, <3>1, HeightType DEF Exists, HeadNumber, Live, IsAncestor, ChainOK, ChainTypeOK
        <5>2. BlockAt(Height(source) - 1) = Parent(source)
          BY <1>0, <5>1, LiveNeighbours DEF Parent
        <5>. QED  BY <3>1, <4>1, <5>1, <5>2
      <4>2. CASE ~same
        BY <2>2, <4>2
      <4>. QED  BY <4>1, <4>2
    <3> HIDE DEF above
    <3>. QED  BY <3>1, <3>2, ExactCache
  <2>. QED  BY <2>1, <2>2
<1>13. CASE RevalidateSource
  <2>1. CASE ~Exists(Height(source)) \/ ~Live(source)
    BY <1>1, <1>13, <2>1 DEF RevalidateSource
  <2>2. CASE Exists(Height(source)) /\ Live(source)
    <3>1. /\ cache' = Cached({source})
          /\ UNCHANGED <<source, from, head, found, query, scanFrom>>
      BY <1>13, <2>2 DEF RevalidateSource
    <3>2. source = BlockAt(Height(source))
      BY <1>0 DEF Live, IsAncestor, BlockAt
    <3>. QED  BY <2>2, <3>1, <3>2, ExactCache
  <2>. QED  BY <2>1, <2>2
<1>14. CASE Evaluate
  BY <1>1, <1>14 DEF Evaluate
<1>. QED
  BY <1>2, <1>3, <1>5, <1>6, <1>7, <1>8, <1>9, <1>10, <1>11, <1>12, <1>13, <1>14 DEF Answered

LEMMA SourceKept ==
  ASSUME SpikeInv, Ingest \/ Failure
  PROVE  \/ source' = source
         \/ /\ source = None /\ Exists(number) /\ source' = BlockAt(number)
            /\ cache' = {} /\ from' = None /\ head' = None /\ found' = {}
            /\ pc' = "parent" /\ outcome' = "running"
BY DEF SpikeInv, Shape, Ingest, Failure, RpcFails, Answered, End, ReadHead, ReadSource,
     ReadSourceParent, SearchFirst, SearchStep, ReadFrom, CollectPage, ReadEventHeaders,
     ReadHeadAgain, ReadRpcHead, ReadRpcHeadParent, RevalidateSource, Evaluate

LEMMA NextOrphan ==
  ASSUME SpikeInv, OrphanOK, Next
  PROVE  OrphanOK'
<1>0. ChainOK /\ source \in Blocks \cup {None} /\ orphaned \subseteq Blocks
  BY DEF SpikeInv, LocalTypeOK, OrphanOK
<1>1. CASE Ingest \/ Failure
  <2>1. UNCHANGED <<chain, orphaned, returned>>
    BY <1>1 DEF Ingest, Failure, chainVars
  <2>2. source' # None => Live(source') \/ source' \in orphaned
    BY <1>0, <1>1, SourceKept, Answers DEF OrphanOK
  <2>. QED  BY <2>1, <2>2 DEF OrphanOK, Live
<1>2. CASE ChainGrows
  <2>1. /\ Extend /\ UNCHANGED <<source, orphaned>>
        /\ returned' = (returned \/ chain' \in orphaned)
    BY <1>2 DEF ChainGrows, localVars
  <2>2. /\ \A b \in Blocks : IsAncestor(b, chain) => IsAncestor(b, chain')
        /\ \A b \in Blocks : IsAncestor(b, chain') => IsAncestor(b, chain) \/ b = chain'
    BY <1>0, <2>1, Growth DEF Live
  <2>3. returned' \/ \A b \in orphaned : ~IsAncestor(b, chain')
    BY <1>0, <2>1, <2>2 DEF OrphanOK, Live
  <2>. QED
    BY <1>0, <2>1, <2>2, <2>3 DEF OrphanOK, Live
<1>3. CASE ChainReorgs
  <2> DEFINE removed == {Ancestor(chain, n) : n \in (Height(chain') + 1)..HeadNumber}
  <2>1. /\ Revert /\ UNCHANGED <<source, returned>> /\ orphaned' = orphaned \cup removed
    BY <1>3 DEF ChainReorgs, localVars
  <2>2. /\ \A b \in Blocks : IsAncestor(b, chain') => IsAncestor(b, chain)
        /\ \A b \in Blocks : IsAncestor(b, chain) => IsAncestor(b, chain') \/ b \in removed
        /\ removed \subseteq Blocks
        /\ \A b \in removed : ~IsAncestor(b, chain')
    BY <1>0, <2>1, Shrinking DEF Live
  <2> HIDE DEF removed
  <2>. QED
    BY <1>0, <2>1, <2>2 DEF OrphanOK, Live
<1>. QED
  BY <1>1, <1>2, <1>3 DEF Next

LEMMA NextHistory ==
  ASSUME SpikeInv, OrphanOK, HistoryInv, Next
  PROVE  HistoryInv'
<1>1. CASE ChainGrows \/ ChainReorgs
  <2>1. UNCHANGED localVars /\ orphaned \subseteq orphaned' /\ (returned => returned')
    BY <1>1 DEF ChainGrows, ChainReorgs, OrphanOK
  <2>2. ReadExact => ReadExact'
    BY <2>1 DEF ReadExact, localVars
  <2>. QED
    BY <2>1, <2>2 DEF HistoryInv, localVars
<1>2. CASE Ingest \/ Failure
  <2>0. UNCHANGED <<orphaned, returned>>
    BY <1>2 DEF Ingest, Failure
  <2>1. ASSUME ~returned, source # None, source \notin orphaned  PROVE ReadExact'
    <3>1. Live(source) /\ ReadExact
      BY <2>1 DEF OrphanOK, HistoryInv
    <3>2. CASE Ingest
      BY <2>1, <3>1, <3>2, ExactReads DEF Ingest
    <3>3. CASE Failure
      BY <3>1, <3>3, ExactEnd DEF Failure, RpcFails
    <3>. QED  BY <1>2, <3>2, <3>3
  <2>2. ASSUME ~returned', source' # None, source' \notin orphaned'  PROVE ReadExact'
    <3>1. CASE source' = source
      BY <2>0, <2>1, <2>2, <3>1
    <3>2. CASE source' # source
      BY <1>2, <3>2, SourceKept DEF ReadExact
    <3>. QED  BY <3>1, <3>2
  <2>3. ASSUME pc' = "evaluate" \/ outcome' = "accepted"  PROVE returned' \/ ReadExact'
    <3>1. CASE pc = "evaluate" \/ outcome = "accepted"
      <4>1. returned \/ ReadExact
        BY <3>1 DEF HistoryInv
      <4>2. \E code : End(code)
        BY <1>2, <2>3, <3>1 DEF Ingest, Failure, RpcFails, Answered, Evaluate, SpikeInv, Shape,
             ReadHead, ReadSource, ReadSourceParent, SearchFirst, SearchStep, ReadFrom, CollectPage,
             ReadEventHeaders, ReadHeadAgain, ReadRpcHead, ReadRpcHeadParent, RevalidateSource
      <4>. QED  BY <2>0, <4>1, <4>2, ExactEnd
    <3>2. CASE pc # "evaluate" /\ outcome # "accepted"
      <4>1. RevalidateSource /\ Live(source)
        BY <1>2, <2>3, <3>2 DEF Ingest, Failure, RpcFails, Answered, End,
             ReadHead, ReadSource, ReadSourceParent, SearchFirst, SearchStep, ReadFrom, CollectPage,
             NextQuery, ReadEventHeaders, ReadHeadAgain, ReadRpcHead, ReadRpcHeadParent,
             RevalidateSource, Evaluate
      <4>2. source # None
        BY <4>1 DEF SpikeInv, Shape, RevalidateSource, Paging
      <4>. QED  BY <2>0, <2>1, <4>1, <4>2 DEF OrphanOK
    <3>. QED  BY <3>1, <3>2
  <2>. QED
    BY <2>2, <2>3 DEF HistoryInv
<1>. QED
  BY <1>1, <1>2 DEF Next

(* With every page read, what was found is what the history carries. *)
LEMMA AcceptedExact ==
  ASSUME SpikeInv, HistoryInv
  PROVE  AcceptedIsExact
<1> SUFFICES ASSUME outcome = "accepted", ~returned
             PROVE  /\ IsAncestor(source, head) /\ IsAncestor(from, source)
                    /\ found = Carriers
                    /\ \A b \in cache : Height(b) <= Height(source) => IsAncestor(b, source)
  BY DEF AcceptedIsExact
<1>1. /\ ReadExact /\ source # None /\ head # None /\ from # None /\ query = Len(Queries) + 1
      /\ source \in Blocks /\ Len(Queries) \in Nat
  BY SpikeAssumption DEF HistoryInv, SpikeInv, Shape, Numbers, LocalTypeOK
<1>2. ASSUME NEW e \in found  PROVE e \in Carriers
  <2>1. /\ IsAncestor(e, source) /\ Height(e) \in Height(from)..Height(source)
        /\ \E q \in 1..Len(Queries) : Content(e) = Queries[q]
    BY <1>1 DEF ReadExact, SpikeInv, Numbers
  <2>2. e = Ancestor(source, Height(e))
    BY <2>1 DEF IsAncestor
  <2>. QED  BY <2>1, <2>2 DEF Carriers
<1>3. ASSUME NEW e \in Carriers  PROVE e \in found
  <2>1. PICK n \in Height(from)..Height(source) :
          /\ e = Ancestor(source, n)
          /\ \E q \in 1..Len(Queries) : Content(Ancestor(source, n)) = Queries[q]
    BY DEF Carriers
  <2>. QED  BY <1>1, <2>1 DEF ReadExact
<1>. QED
  BY <1>1, <1>2, <1>3 DEF ReadExact

---------------------------------------------------------------------------
(* Without a reorg *)

(* All that is canonical at one height is one block: nothing is replaced. *)
LEMMA CacheGrows ==
  ASSUME ChainOK, LocalTypeOK, \A b \in cache : Live(b),
         NEW bs \in SUBSET Blocks, \A b \in bs : Live(b)
  PROVE  Cached(bs) = cache \cup bs
<1>1. \A a \in cache, b \in bs : Height(a) = Height(b) => a = b
  BY AncestorsAgree DEF ChainOK, ChainTypeOK, LocalTypeOK, Live
<1>. QED
  BY <1>1 DEF Cached

LEMMA AllLive ==
  ASSUME SpikeInv, NoReorgInv, reverts = 0, Ingest
  PROVE  /\ source' # None => Live(source')
         /\ head' # None => Live(head')
         /\ \A b \in cache' \cup found' : Live(b)
<1>0. /\ ChainOK /\ LocalTypeOK /\ source \in Blocks \cup {None}
      /\ (source # None => Live(source)) /\ (head # None => Live(head))
      /\ \A b \in cache \cup found : Live(b)
      /\ \A n : Exists(n) => Live(BlockAt(n))
  BY Answers DEF SpikeInv, LocalTypeOK, NoReorgInv
<1>1. ASSUME NEW bs, \A b \in bs : Live(b), cache' = Cached(bs)
      PROVE  \A b \in cache' : Live(b)
  BY <1>0, <1>1, CachedFrom
<1>2. ASSUME NEW n, Has(n)  PROVE \A b \in Get(n) : Live(b)
  BY <1>0, <1>2, GetType
<1>3. CASE \E code : End(code)
  BY <1>0, <1>3 DEF End
<1>4. CASE ReadHead \/ ReadHeadAgain \/ Evaluate
  BY <1>0, <1>3, <1>4 DEF ReadHead, ReadHeadAgain, Evaluate
<1>5. CASE ReadSource
  BY <1>0, <1>3, <1>5 DEF ReadSource
<1>6. CASE ReadSourceParent
  BY <1>0, <1>3, <1>6 DEF ReadSourceParent, SpikeInv, Shape
<1>7. CASE SearchFirst \/ ReadFrom
  <2>1. CASE \E code : End(code)
    BY <1>3, <2>1
  <2>2. CASE ~ \E code : End(code)
    <3>1. Has(low) /\ cache' = Cached(Get(low)) /\ UNCHANGED <<source, head, found>>
      BY <1>7, <2>2 DEF SearchFirst, ReadFrom
    <3>. QED  BY <1>0, <1>1, <1>2, <3>1
  <2>. QED  BY <2>1, <2>2
<1>8. CASE SearchStep
  <2>1. UNCHANGED <<source, head, found>>
    BY <1>8 DEF SearchStep
  <2>2. cache' = cache \/ (Has(Middle) /\ cache' = Cached(Get(Middle)))
    BY <1>8 DEF SearchStep
  <2>. QED  BY <1>0, <1>1, <1>2, <2>1, <2>2
<1>9. CASE CollectPage
  <2>1. UNCHANGED <<source, head, cache>>
    BY <1>9 DEF CollectPage
  <2>2. \A b \in found' : b \in found \/ \E n : Exists(n) /\ b = BlockAt(n)
    BY <1>9 DEF CollectPage
  <2>. QED  BY <1>0, <2>1, <2>2
<1>10. CASE ReadEventHeaders
  <2> DEFINE missing == {n \in {Height(e) : e \in found} : CachedAt(n) = {}}
             headers == {BlockAt(n) : n \in missing}
  <2>1. CASE (\E n \in missing : ~Exists(n)) \/ ~Decodable(Cached(headers))
    BY <1>3, <1>10, <2>1 DEF ReadEventHeaders
  <2>2. CASE (\A n \in missing : Exists(n)) /\ Decodable(Cached(headers))
    <3>1. cache' = Cached(headers) /\ UNCHANGED <<source, head, found>>
      BY <1>10, <2>2 DEF ReadEventHeaders
    <3>2. \A b \in headers : Live(b)
      BY <1>0, <2>2
    <3> HIDE DEF headers
    <3>. QED  BY <1>0, <1>1, <3>1, <3>2
  <2>. QED  BY <2>1, <2>2
<1>11. CASE ReadRpcHead
  <2>1. CASE ~Exists(number)
    BY <1>3, <1>11, <2>1 DEF ReadRpcHead
  <2>2. CASE Exists(number)
    <3>1. /\ cache' = Cached({BlockAt(number)}) /\ head' = BlockAt(number)
          /\ UNCHANGED <<source, found>>
      BY <1>11, <2>2 DEF ReadRpcHead
    <3>. QED  BY <1>0, <1>1, <2>2, <3>1
  <2>. QED  BY <2>1, <2>2
<1>12. CASE ReadRpcHeadParent
  <2> DEFINE same  == number = Height(source)
             above == IF same THEN parent ELSE BlockAt(number - 1)
  <2>1. CASE (~same /\ ~Exists(number - 1)) \/ Parent(head) # above
    BY <1>3, <1>12, <2>1 DEF ReadRpcHeadParent
  <2>2. CASE ~(~same /\ ~Exists(number - 1)) /\ Parent(head) = above
    <3>1. cache' = Cached({above}) /\ UNCHANGED <<source, head, found>> /\ pc = "rpcParent"
      BY <1>12, <2>2 DEF ReadRpcHeadParent
    <3>2. Live(above)
      BY <1>0, <2>2, <3>1 DEF NoReorgInv, Paging
    <3> HIDE DEF above
    <3>. QED  BY <1>0, <1>1, <3>1, <3>2
  <2>. QED  BY <2>1, <2>2
<1>13. CASE RevalidateSource
  <2>1. CASE ~Exists(Height(source)) \/ ~Live(source)
    BY <1>3, <1>13, <2>1 DEF RevalidateSource
  <2>2. CASE Exists(Height(source)) /\ Live(source)
    <3>1. cache' = Cached({source}) /\ UNCHANGED <<source, head, found>>
      BY <1>13, <2>2 DEF RevalidateSource
    <3>. QED  BY <1>0, <1>1, <2>2, <3>1
  <2>. QED  BY <2>1, <2>2
<1>. QED
  BY <1>4, <1>5, <1>6, <1>7, <1>8, <1>9, <1>10, <1>11, <1>12, <1>13 DEF Ingest, Answered

(* The verdict finds no contradiction in a snapshot that is one history. *)
LEMMA NoContradiction ==
  ASSUME SpikeInv, NoReorgInv, reverts = 0, pc = "evaluate", NEW at
  PROVE  Verdict(at) \notin Contradictions
<1>0. /\ ChainOK /\ LocalTypeOK /\ chain \in Blocks
      /\ source \in cache /\ parent \in cache /\ from \in cache /\ head \in cache
      /\ source # None /\ parent # None /\ from # None /\ head # None
      /\ found \subseteq cache /\ \A b \in cache : Live(b) /\ b \in Blocks
  BY DEF SpikeInv, ChainOK, ChainTypeOK, LocalTypeOK, Shape, NoReorgInv, Searching, Paging
<1>1. BlocksInOrder /\ ParentIsDeclared
  BY <1>0 DEF BlocksInOrder, ParentIsDeclared, SpikeInv, Numbers
<1>2. ReferencesAgree
  BY <1>0 DEF ReferencesAgree, LocalTypeOK
<1>3. AdjacentLink
  <2> SUFFICES ASSUME NEW a \in cache, NEW b \in cache, Height(b) = Height(a) + 1
               PROVE  Parent(b) = a
    BY DEF AdjacentLink
  <2>1. Height(a) \in Nat /\ Height(b) \in Nat
    BY <1>0, HeightType
  <2>2. Height(a) \in 0..Height(b)
    BY <2>1
  <2>3. Ancestor(chain, Height(a)) = Ancestor(b, Height(a))
    BY <1>0, <2>2, AncestorsOf DEF Live
  <2>4. Ancestor(chain, Height(a)) = a
    BY <1>0 DEF Live, IsAncestor
  <2>5. Height(b) - 1 = Height(a)
    BY <2>1
  <2>. QED  BY <2>3, <2>4, <2>5 DEF Parent
<1>4. NamedAreRetained /\ ObservationsCovered
  BY <1>0 DEF NamedAreRetained, ObservationsCovered, Retained, SpikeInv, Numbers
<1>. QED
  BY <1>1, <1>2, <1>3, <1>4 DEF Verdict, Contradictions

LEMMA ParentOfLive ==
  ASSUME ChainOK, NEW b \in Blocks, Live(b), Height(b) >= 1
  PROVE  Exists(Height(b) - 1) /\ BlockAt(Height(b) - 1) = Parent(b)
<1>1. Height(b) \in Nat /\ Height(b) - 1 \in 0..Height(b) /\ Height(b) <= HeadNumber
  BY HeightType DEF Live, IsAncestor, HeadNumber
<1>2. Exists(Height(b) - 1)
  BY <1>1, Answers DEF Exists
<1>3. BlockAt(Height(b) - 1) = Ancestor(b, Height(b) - 1)
  BY <1>1, <1>2, LiveNeighbours
<1>. QED
  BY <1>2, <1>3 DEF Parent

(* What NoReorgInv says beyond everything being canonical. *)
Retaining ==
  /\ pc \in Searching \cup Paging => source \in cache /\ parent \in cache
  /\ pc \in Paging => from \in cache
  /\ pc \in {"rpcParent", "revalidate", "evaluate"} => head \in cache
  /\ pc \in Paging \ {"events", "headers"} => found \subseteq cache
  /\ outcome \notin Contradictions

LEMMA NoReorgReads ==
  ASSUME SpikeInv, NoReorgInv, reverts = 0, Ingest
  PROVE  Retaining'
<1>0. /\ ChainOK /\ LocalTypeOK /\ source \in Blocks \cup {None} /\ Retaining
      /\ source # None => Live(source)
      /\ head # None => Live(head)
      /\ \A b \in cache : Live(b) /\ b \in Blocks
      /\ \A b \in found : Live(b) /\ b \in Blocks
  BY DEF SpikeInv, LocalTypeOK, NoReorgInv, Retaining
<1>1. ASSUME NEW code, code \notin Contradictions, End(code)  PROVE Retaining'
  BY <1>1 DEF End, Retaining, Searching, Paging
<1>a. {"RPC_ERROR", "SOURCE_INCOMPLETE"} \cap Contradictions = {}
  BY DEF Contradictions
<1>2. ASSUME NEW bs \in SUBSET Blocks, \A b \in bs : Live(b), cache' = Cached(bs)
      PROVE  cache' = cache \cup bs
  BY <1>0, <1>2, CacheGrows
<1>3. ASSUME NEW n, Has(n), cache' = Cached(Get(n))
      PROVE  cache' = cache \cup Get(n)
  <2>1. Get(n) \in SUBSET Blocks /\ \A b \in Get(n) : Live(b)
    BY <1>0, <1>3, GetType, Answers
  <2>. QED  BY <1>2, <1>3, <2>1
<1>4. CASE ReadHead \/ ReadSource
  BY <1>0, <1>1, <1>a, <1>4 DEF ReadHead, ReadSource, Retaining, Searching, Paging
<1>5. CASE ReadSourceParent
  <2>1. /\ source # None /\ source \in Blocks /\ number = Height(source) /\ pc = "parent"
        /\ Height(source) \in Nat
    BY <1>5, HeightType DEF SpikeInv, LocalTypeOK, Shape, Numbers, ReadSourceParent
  <2>2. CASE ~Exists(number - 1)
    BY <1>1, <1>a, <1>5, <2>2 DEF ReadSourceParent
  <2>3. CASE Exists(number - 1)
    <3>1. number >= 1
      BY <2>1, <2>3 DEF Exists
    <3>2. Parent(source) = BlockAt(number - 1)
      BY <1>0, <2>1, <3>1, ParentOfLive
    <3>. QED
      BY <1>0, <1>5, <2>1, <2>3, <3>2 DEF ReadSourceParent, Retaining, Searching, Paging
  <2>. QED  BY <2>2, <2>3
<1>6. CASE SearchFirst
  <2>1. CASE ~Has(low)
    BY <1>1, <1>a, <1>6, <2>1 DEF SearchFirst
  <2>2. CASE Has(low)
    <3>1. cache' = cache \cup Get(low)
      BY <1>3, <1>6, <2>2 DEF SearchFirst
    <3>. QED  BY <1>0, <1>6, <2>2, <3>1 DEF SearchFirst, Retaining, Searching, Paging
  <2>. QED  BY <2>1, <2>2
<1>7. CASE SearchStep
  <2>1. cache \subseteq cache'
    BY <1>3, <1>7 DEF SearchStep
  <2>. QED
    BY <1>0, <1>a, <1>7, <2>1 DEF SearchStep, Retaining, Searching, Paging
<1>8. CASE ReadFrom
  <2>1. CASE low \notin DeploymentBlock..number \/ ~Has(low)
    BY <1>1, <1>a, <1>8, <2>1 DEF ReadFrom
  <2>2. CASE low \in DeploymentBlock..number /\ Has(low)
    <3>1. cache' = cache \cup Get(low) /\ from' \in Get(low)
      BY <1>3, <1>8, <2>2 DEF ReadFrom
    <3>. QED  BY <1>0, <1>8, <2>2, <3>1 DEF ReadFrom, Retaining, Searching, Paging
  <2>. QED  BY <2>1, <2>2
<1>9. CASE CollectPage
  BY <1>0, <1>9 DEF CollectPage, NextQuery, Retaining, Searching, Paging
<1>10. CASE ReadEventHeaders
  <2> DEFINE missing == {n \in {Height(e) : e \in found} : CachedAt(n) = {}}
             headers == {BlockAt(n) : n \in missing}
  <2>1. \A e \in found : Exists(Height(e)) /\ BlockAt(Height(e)) = e
    BY <1>0, Answers, HeightType DEF Live, IsAncestor, Exists, BlockAt, HeadNumber
  <2>2. headers \in SUBSET Blocks /\ \A b \in headers : Live(b)
    BY <1>0, <2>1
  <2>3. Cached(headers) = cache \cup headers
    <3> HIDE DEF headers
    <3>. QED  BY <1>0, <2>2, CacheGrows
  <2>4. ASSUME NEW e \in found  PROVE e \in Cached(headers)
    <3>1. CASE CachedAt(Height(e)) = {}
      BY <2>1, <2>3, <3>1
    <3>2. CASE CachedAt(Height(e)) # {}
      <4>1. PICK b \in cache : Height(b) = Height(e)
        BY <3>2 DEF CachedAt
      <4>2. b = e
        BY <1>0, <4>1, AncestorsAgree DEF Live, ChainOK, ChainTypeOK
      <4>. QED  BY <2>3, <4>2
    <3>. QED  BY <3>1, <3>2
  <2>5. (\A n \in missing : Exists(n)) /\ Decodable(Cached(headers))
    BY <2>1, <2>4 DEF Decodable
  <2>6. /\ cache' = Cached(headers) /\ pc = "headers" /\ pc' = "headAgain"
        /\ UNCHANGED <<source, parent, from, found, head, outcome>>
    BY <1>10, <2>5 DEF ReadEventHeaders
  <2>7. cache \subseteq cache' /\ found' \subseteq cache'
    BY <2>3, <2>4, <2>6
  <2>. QED
    BY <1>0, <2>6, <2>7 DEF Retaining, Searching, Paging
<1>11. CASE ReadHeadAgain
  <2>1. source # None /\ Live(source)
    BY <1>0, <1>11 DEF ReadHeadAgain, SpikeInv, Shape, Paging
  <2>2. ~(HeadNumber < Height(source))
    BY <1>0, <2>1, Answers, HeightType, ChainAssumption DEF Live, IsAncestor, HeadNumber
  <2>. QED
    BY <1>0, <1>11, <2>2 DEF ReadHeadAgain, Retaining, Searching, Paging
<1>12. CASE ReadRpcHead
  <2>1. CASE ~Exists(number)
    BY <1>1, <1>a, <1>12, <2>1 DEF ReadRpcHead
  <2>2. CASE Exists(number)
    <3>1. cache' = cache \cup {BlockAt(number)} /\ head' = BlockAt(number)
      BY <1>0, <1>2, <1>12, <2>2, Answers DEF ReadRpcHead
    <3>. QED  BY <1>0, <1>12, <2>2, <3>1 DEF ReadRpcHead, Retaining, Searching, Paging
  <2>. QED  BY <2>1, <2>2
<1>13. CASE ReadRpcHeadParent
  <2> DEFINE same  == number = Height(source)
             above == IF same THEN parent ELSE BlockAt(number - 1)
  <2>1. /\ source # None /\ head # None /\ Height(head) = number /\ Height(source) <= number
        /\ parent = Parent(source) /\ Height(source) >= 1 /\ parent \in cache
        /\ source \in Blocks /\ head \in Blocks /\ Live(source) /\ Live(head)
        /\ Height(source) \in Nat /\ number \in Nat
    BY <1>0, <1>13, HeightType, ChainAssumption
      DEF ReadRpcHeadParent, SpikeInv, LocalTypeOK, Shape, Numbers, Retaining, Searching, Paging
  <2>2. Exists(number - 1) /\ BlockAt(number - 1) = Parent(head)
    BY <1>0, <2>1, ParentOfLive
  <2>3. Parent(head) = above
    <3>1. CASE same
      BY <1>0, <2>1, <3>1, AncestorsAgree DEF Live, ChainOK, ChainTypeOK
    <3>2. CASE ~same
      BY <2>2, <3>2
    <3>. QED  BY <3>1, <3>2
  <2>4. above \in Blocks /\ Live(above)
    BY <1>0, <2>1, <2>2, Answers
  <2>5. /\ cache' = Cached({above}) /\ pc' = "revalidate" /\ pc = "rpcParent"
        /\ UNCHANGED <<source, parent, from, found, head, outcome>>
    BY <1>13, <2>2, <2>3 DEF ReadRpcHeadParent
  <2>6. cache' = cache \cup {above}
    <3> HIDE DEF above
    <3>. QED  BY <1>2, <2>4, <2>5
  <2>. QED
    BY <1>0, <2>5, <2>6 DEF Retaining, Searching, Paging
<1>14. CASE RevalidateSource
  <2>1. source # None /\ Live(source) /\ source \in Blocks
    BY <1>0, <1>14 DEF RevalidateSource, SpikeInv, Shape, Paging
  <2>2. CASE ~Exists(Height(source))
    BY <1>1, <1>a, <1>14, <2>2 DEF RevalidateSource
  <2>3. CASE Exists(Height(source))
    <3>1. cache' = cache \cup {source}
      BY <1>2, <1>14, <2>1, <2>3 DEF RevalidateSource
    <3>. QED  BY <1>0, <1>14, <2>1, <2>3, <3>1 DEF RevalidateSource, Retaining, Searching, Paging
  <2>. QED  BY <2>2, <2>3
<1>15. CASE Evaluate
  <2>1. PICK at \in Evaluations : End(Verdict(at))
    BY <1>15 DEF Evaluate
  <2>2. Verdict(at) \notin Contradictions
    BY <1>15, NoContradiction DEF Evaluate
  <2>. QED  BY <1>1, <2>1, <2>2
<1>. QED
  BY <1>4, <1>5, <1>6, <1>7, <1>8, <1>9, <1>10, <1>11, <1>12, <1>13, <1>14, <1>15
    DEF Ingest, Answered

LEMMA NextNoReorg ==
  ASSUME SpikeInv, NoReorgInv, Next
  PROVE  NoReorgInv'
<1> SUFFICES ASSUME reverts' = 0  PROVE NoReorgInv'
  BY DEF NoReorgInv
<1>0. /\ ChainOK /\ source \in Blocks \cup {None} /\ head \in Blocks \cup {None}
      /\ cache \subseteq Blocks /\ found \subseteq Blocks
  BY DEF SpikeInv, LocalTypeOK
<1>1. CASE Ingest
  <2>1. UNCHANGED <<chain, reverts>>
    BY <1>1 DEF Ingest, chainVars
  <2>2. Retaining'
    BY <1>1, <2>1, NoReorgReads
  <2>3. /\ source' # None => Live(source')
        /\ head' # None => Live(head')
        /\ \A b \in cache' \cup found' : Live(b)
    BY <1>1, <2>1, AllLive
  <2>. QED  BY <2>1, <2>2, <2>3 DEF NoReorgInv, Retaining, Live
<1>2. CASE Failure
  BY <1>2 DEF Failure, RpcFails, End, chainVars, NoReorgInv, Searching, Paging, Contradictions, Live
<1>3. CASE ChainGrows
  <2>1. Extend /\ UNCHANGED localVars /\ UNCHANGED reverts
    BY <1>3 DEF ChainGrows, Extend
  <2>2. \A b \in Blocks : IsAncestor(b, chain) => IsAncestor(b, chain')
    BY <1>0, <2>1, Growth DEF Live
  <2>. QED
    BY <1>0, <2>1, <2>2 DEF NoReorgInv, Live, localVars
<1>4. CASE ChainReorgs
  BY <1>0, <1>4, Shrinking DEF ChainReorgs
<1>. QED
  BY <1>1, <1>2, <1>3, <1>4 DEF Next

---------------------------------------------------------------------------
(* The search for the boundary *)

LEMMA BracketStep ==
  ASSUME SpikeInv, Bracket, SearchStep, low < high, pc' = "search"
  PROVE  Bracket'
<1>1. /\ low \in Nat /\ high \in Nat /\ number \in 0..MaxHeight /\ MaxHeight \in Nat
      /\ number' = number
      /\ Timestamp \in [0..MaxHeight -> Nat] /\ Required \in Nat
      /\ \A m, n \in 0..MaxHeight : m <= n => Timestamp[m] <= Timestamp[n]
  BY SpikeAssumption, ChainAssumption DEF SpikeInv, LocalTypeOK, SearchStep
<1>2. Middle \in (low + 1)..high /\ Middle \in 0..MaxHeight
  BY <1>1, MiddleBounds DEF Bracket
<1>3. IF NotAfter(Middle) THEN low' = Middle /\ high' = high ELSE high' = Middle - 1 /\ low' = low
  BY <1>1 DEF SearchStep
<1>4. CASE NotAfter(Middle)
  BY <1>1, <1>2, <1>3, <1>4 DEF Bracket, NotAfter
<1>5. CASE ~NotAfter(Middle)
  <2>1. Timestamp[Middle] > Required /\ Timestamp[Middle] \in Nat
    BY <1>1, <1>2, <1>5 DEF NotAfter
  <2>2. ASSUME NEW n \in Middle..number  PROVE Timestamp[n] > Required
    <3>1. n \in 0..MaxHeight /\ Middle <= n
      BY <1>1, <1>2
    <3>2. Timestamp[Middle] <= Timestamp[n] /\ Timestamp[n] \in Nat
      BY <1>1, <1>2, <3>1
    <3>. QED  BY <1>1, <2>1, <3>2
  <2>3. \A n \in (high' + 1)..number' : Timestamp[n] > Required
    BY <1>1, <1>2, <1>3, <1>5, <2>2
  <2>4. high' <= number' /\ low' <= high' /\ low' = low
    BY <1>1, <1>2, <1>3, <1>5 DEF Bracket
  <2>. QED  BY <2>3, <2>4 DEF Bracket
<1>. QED
  BY <1>4, <1>5

LEMMA NextBoundary ==
  ASSUME SpikeInv, BoundaryInv, Next
  PROVE  BoundaryInv'
<1>0. /\ number \in 0..MaxHeight /\ MaxHeight \in Nat /\ DeploymentBlock \in 1..MaxHeight
      /\ low \in Nat /\ high \in Nat /\ ChainOK /\ LocalTypeOK
      /\ Timestamp \in [0..MaxHeight -> Nat] /\ Required \in Nat
  BY SpikeAssumption, ChainAssumption DEF SpikeInv, LocalTypeOK
<1>1. CASE UNCHANGED localVars
  BY <1>1 DEF BoundaryInv, Bracket, SourceComplete, localVars
<1>2. ASSUME NEW code, End(code), code = "accepted" => SourceComplete
      PROVE  BoundaryInv'
  BY <1>2 DEF End, BoundaryInv, SourceComplete
<1>3. CASE Failure
  BY <1>2, <1>3 DEF Failure, RpcFails
<1>4. CASE ReadHead \/ ReadSource
  BY <1>2, <1>4 DEF ReadHead, ReadSource, BoundaryInv, SpikeInv, Shape
<1>5. CASE ReadSourceParent
  <2>1. CASE \E code \in Contradictions \cup {"RPC_ERROR"} : End(code)
    BY <1>2, <2>1 DEF Contradictions
  <2>2. CASE ~ \E code \in Contradictions \cup {"RPC_ERROR"} : End(code)
    BY <1>5, <2>2 DEF ReadSourceParent, BoundaryInv, SpikeInv, Shape, Contradictions
  <2>. QED  BY <2>1, <2>2
<1>6. CASE SearchFirst
  <2>1. CASE ~Has(low)
    BY <1>2, <1>6, <2>1 DEF SearchFirst
  <2>2. CASE Has(low)
    <3>1. /\ pc = "first" /\ from = None /\ outcome = "running" /\ number = Height(source)
      BY <1>6 DEF SearchFirst, SpikeInv, Shape, Numbers, Searching
    <3>2. /\ pc' = IF Required <= Timestamp[low] THEN "from" ELSE "search"
          /\ UNCHANGED <<option, number, source, low, high, from, outcome>>
      BY <1>6, <2>2 DEF SearchFirst
    <3>3. option = None => low = DeploymentBlock /\ high = number
      BY <3>1 DEF BoundaryInv
    <3>4. option = None /\ pc' = "search" => Bracket'
      BY <1>0, <3>2, <3>3 DEF Bracket
    <3>5. option = None /\ pc' = "from" => ~(Timestamp[DeploymentBlock] < Required)
      BY <1>0, <3>2, <3>3
    <3>. QED
      BY <3>1, <3>2, <3>4, <3>5 DEF BoundaryInv
  <2>. QED  BY <2>1, <2>2
<1>7. CASE SearchStep
  <2>1. /\ pc = "search" /\ outcome = "running" /\ from = None
        /\ UNCHANGED <<option, number, source, from>>
    BY <1>7 DEF SearchStep, SpikeInv, Shape, Searching
  <2>2. CASE low >= high
    BY <1>7, <2>1, <2>2 DEF SearchStep, BoundaryInv, Bracket
  <2>3. CASE ~(low >= high) /\ ~Has(Middle)
    BY <1>7, <2>1, <2>3 DEF SearchStep, BoundaryInv
  <2>4. CASE ~(low >= high) /\ Has(Middle)
    <3>1. pc' = "search" /\ outcome' = outcome /\ low < high
      BY <1>0, <1>7, <2>1, <2>4 DEF SearchStep
    <3>2. option = None => Bracket'
      BY <1>7, <2>1, <3>1, BracketStep DEF BoundaryInv
    <3>. QED
      BY <2>1, <3>1, <3>2 DEF BoundaryInv
  <2>. QED  BY <2>2, <2>3, <2>4
<1>8. CASE ReadFrom
  <2>1. CASE low \notin DeploymentBlock..number \/ ~Has(low)
    BY <1>2, <1>8, <2>1 DEF ReadFrom
  <2>2. CASE low \in DeploymentBlock..number /\ Has(low)
    <3>1. /\ from' \in Get(low) /\ pc = "from" /\ pc' = "events"
          /\ UNCHANGED <<option, number, source, outcome>>
          /\ outcome = "running" /\ number = Height(source)
      BY <1>8, <2>2 DEF ReadFrom, SpikeInv, Shape, Numbers, Searching
    <3>2. Height(from') = low
      BY <1>0, <2>2, <3>1, GetType
    <3>3. ASSUME option = None, Timestamp[DeploymentBlock] < Required
          PROVE  \A n \in (low + 1)..number : Timestamp[n] > Required
      <4>1. Bracket /\ low >= high
        BY <3>1, <3>3 DEF BoundaryInv
      <4>2. low = high
        BY <1>0, <2>2, <4>1 DEF Bracket
      <4>. QED  BY <4>1, <4>2 DEF Bracket
    <3>. QED
      BY <3>1, <3>2, <3>3 DEF BoundaryInv
  <2>. QED  BY <2>1, <2>2
<1>9. CASE CollectPage
  BY <1>9 DEF CollectPage, NextQuery, BoundaryInv, SourceComplete, SpikeInv, Shape
<1>10. CASE ReadEventHeaders \/ ReadHeadAgain \/ ReadRpcHead \/ ReadRpcHeadParent \/ RevalidateSource
  <2>1. CASE \E code \in Contradictions \cup {"RPC_ERROR"} : End(code)
    BY <1>2, <2>1 DEF Contradictions
  <2>2. CASE ~ \E code \in Contradictions \cup {"RPC_ERROR"} : End(code)
    <3>1. /\ UNCHANGED <<option, source, from, outcome>> /\ outcome = "running"
          /\ pc' \in {"headAgain", "rpcHead", "rpcParent", "revalidate", "evaluate"}
      BY <1>10, <2>2 DEF ReadEventHeaders, ReadHeadAgain, ReadRpcHead, ReadRpcHeadParent,
           RevalidateSource, Contradictions, SpikeInv, Shape
    <3>. QED
      BY <3>1 DEF BoundaryInv
  <2>. QED  BY <2>1, <2>2
<1>11. CASE Evaluate
  <2>1. PICK at \in Evaluations : End(Verdict(at))
    BY <1>11 DEF Evaluate
  <2>2. Verdict(at) = "accepted" => SourceComplete
    BY DEF Verdict
  <2>. QED  BY <1>2, <2>1, <2>2
<1>. QED
  BY <1>1, <1>3, <1>4, <1>5, <1>6, <1>7, <1>8, <1>9, <1>10, <1>11
    DEF Next, Ingest, Answered, ChainGrows, ChainReorgs

---------------------------------------------------------------------------
FullInv == SpikeInv /\ OrphanOK /\ HistoryInv /\ NoReorgInv /\ BoundaryInv

LEMMA Initially == Init => FullInv
<1> SUFFICES ASSUME Init  PROVE FullInv
  OBVIOUS
<1>1. PICK n \in DeploymentBlock..MaxHeight : chain \in [1..n -> Contents]
  BY DEF Init
<1>2. n \in Nat /\ n <= MaxHeight
  BY SpikeAssumption, ChainAssumption
<1>3. chain \in Blocks /\ Height(chain) = n
  BY <1>1, <1>2 DEF Blocks, Height
<1>4. ChainOK
  BY <1>2, <1>3, ChainAssumption DEF ChainOK, ChainTypeOK, HeadNumber, Init
<1>5. LocalTypeOK /\ Shape /\ Numbers
  BY SpikeAssumption, ChainAssumption
    DEF Init, LocalTypeOK, Shape, Numbers, Places, Searching, Paging
<1>6. OrphanOK /\ HistoryInv /\ NoReorgInv /\ BoundaryInv
  BY DEF Init, OrphanOK, HistoryInv, NoReorgInv, BoundaryInv, Searching, Paging, Contradictions
<1>. QED
  BY <1>4, <1>5, <1>6 DEF FullInv, SpikeInv

LEMMA Stutters ==
  ASSUME FullInv, UNCHANGED vars
  PROVE  FullInv'
<1> USE DEF vars, chainVars, localVars
<1>1. SpikeInv'
  BY DEF FullInv, SpikeInv, ChainOK, ChainTypeOK, HeadNumber, LocalTypeOK, Shape, Numbers
<1>2. OrphanOK' /\ NoReorgInv'
  BY DEF FullInv, OrphanOK, NoReorgInv, Live
<1>3. HistoryInv'
  BY DEF FullInv, HistoryInv, ReadExact
<1>4. BoundaryInv'
  BY DEF FullInv, BoundaryInv, Bracket, SourceComplete
<1>. QED
  BY <1>1, <1>2, <1>3, <1>4 DEF FullInv

LEMMA Inductive == Spec => []FullInv
<1>1. ASSUME FullInv, [Next]_vars  PROVE FullInv'
  <2>1. CASE Next
    BY <1>1, <2>1, NextSpike, NextOrphan, NextHistory, NextNoReorg, NextBoundary DEF FullInv
  <2>2. CASE UNCHANGED vars
    BY <1>1, <2>2, Stutters
  <2>. QED  BY <1>1, <2>1, <2>2
<1>. QED
  BY <1>1, Initially, PTL DEF Spec

(* Every variable of the ingestion and of the chain keeps its type. *)
THEOREM SpikeTypes == Spec => []TypeOK
<1>1. FullInv => TypeOK
  BY DEF FullInv, SpikeInv, ChainOK, LocalTypeOK, OrphanOK, TypeOK
<1>. QED
  BY <1>1, Inductive, PTL

(* For any chain, any number of reorgs at any moment and any way the pages   *)
(* are cut: an accepted snapshot holds the events of exactly one history.    *)
THEOREM AcceptedSnapshotsAreExact == Spec => []AcceptedIsExact
<1>1. FullInv => AcceptedIsExact
  BY AcceptedExact DEF FullInv
<1>. QED
  BY <1>1, Inductive, PTL

(* A chain that only grows is never taken for one that contradicts itself.   *)
THEOREM GrowthIsNotRefused == Spec => []RefusesOnlyAfterReorg
<1>1. FullInv => RefusesOnlyAfterReorg
  BY DEF FullInv, SpikeInv, ChainOK, ChainTypeOK, NoReorgInv, RefusesOnlyAfterReorg
<1>. QED
  BY <1>1, Inductive, PTL

(* For any block times that do not decrease, the bisection finds the last    *)
(* block that is not later than the required time.                           *)
THEOREM SearchIsTight == Spec => []BoundaryIsTight
<1>1. FullInv => BoundaryIsTight
  BY DEF FullInv, SpikeInv, Shape, BoundaryInv, BoundaryIsTight, SourceComplete
<1>. QED
  BY <1>1, Inductive, PTL
=============================================================================
