---------------------------- MODULE PublicChain ----------------------------
(***************************************************************************)
(* The public Starknet chain as one RPC endpoint shows it: an environment  *)
(* of the indexer, modelled from how src/starknet/rpc.ts and the indexer   *)
(* read it (starknet_blockNumber, starknet_getBlockWithTxHashes,           *)
(* starknet_getEvents).                                                    *)
(*                                                                         *)
(* One endpoint is one canonical chain that grows and reorganises.         *)
(***************************************************************************)
EXTENDS BlockHistory

CONSTANTS
  MaxHeight,   \* bound: the chain is never longer than this
  MaxReverts,  \* bound: how many reorgs happen in one behaviour
  Finalized    \* no reorg removes a block at or below this height

ASSUME ChainAssumption ==
  /\ MaxHeight \in Nat
  /\ MaxReverts \in Nat
  /\ Finalized \in Nat

VARIABLES
  chain,       \* the canonical chain, as the history of its head
  reverts      \* reorgs so far

chainVars == <<chain, reverts>>

(* What the endpoint answers now: the head number, whether a number exists, *)
(* the header of a number, and whether a known block is canonical.          *)
HeadNumber == Height(chain)
Exists(n)  == n \in 0..HeadNumber
BlockAt(n) == Ancestor(chain, n)
Live(b)    == IsAncestor(b, chain)

ChainTypeOK ==
  /\ chain \in Blocks
  /\ reverts \in 0..MaxReverts

(* A block is appended. *)
Extend ==
  /\ HeadNumber < MaxHeight
  /\ \E c \in Contents : chain' = Append(chain, c)
  /\ UNCHANGED reverts

(* A reorg drops the blocks above height n; Extend then grows the other     *)
(* branch.  An endpoint that switches branches at once is the case in which *)
(* nothing reads the chain in between.                                      *)
Revert ==
  /\ reverts < MaxReverts
  /\ \E n \in Finalized..(HeadNumber - 1) : chain' = BlockAt(n)
  /\ reverts' = reverts + 1
=============================================================================
