---------------------------- MODULE BlockHistory ----------------------------
(***************************************************************************)
(* A block hash commits to the whole ancestry of its block, so a block is  *)
(* modelled by its history: the sequence of the contents of the blocks     *)
(* from height 1 up to and including it.  Number, parent hash and events   *)
(* of a header (RpcBlockHeader of src/starknet/rpc.ts) are functions of    *)
(* that sequence, and two blocks of the same height are equal exactly when *)
(* their hashes are.  Height 0 is <<>>.  Timestamps grow with the block    *)
(* number, so a time boundary is a height.                                 *)
(***************************************************************************)
EXTENDS Integers, Sequences

CONSTANT Contents    \* what a block can carry for the pool, e.g. a deposit

Blocks == Seq(Contents)

Height(b)      == Len(b)
Ancestor(b, n) == SubSeq(b, 1, n)
Parent(b)      == Ancestor(b, Height(b) - 1)
Content(b)     == b[Height(b)]

(* a is b or an ancestor of b *)
IsAncestor(a, b) == Height(a) <= Height(b) /\ Ancestor(b, Height(a)) = a
=============================================================================
