----------------------------- MODULE BlockProofs -----------------------------
(***************************************************************************)
(* Facts about blocks as histories: ancestors, parents and the ancestry    *)
(* relation.                                                               *)
(***************************************************************************)
EXTENDS BlockHistory, TLAPS

(* A prefix of a block's history is a block of the prefix's height. *)
LEMMA AncestorType ==
  ASSUME NEW b \in Blocks, NEW n \in 0..Height(b)
  PROVE  /\ Ancestor(b, n) \in Blocks
         /\ Height(Ancestor(b, n)) = n
         /\ \A i \in 1..n : Ancestor(b, n)[i] = b[i]
BY DEF Blocks, Height, Ancestor

LEMMA AncestorSelf ==
  ASSUME NEW b \in Blocks
  PROVE  Ancestor(b, Height(b)) = b
BY DEF Blocks, Height, Ancestor

LEMMA AncestorOfAncestor ==
  ASSUME NEW b \in Blocks, NEW n \in 0..Height(b), NEW m \in 0..n
  PROVE  Ancestor(Ancestor(b, n), m) = Ancestor(b, m)
BY DEF Blocks, Height, Ancestor

(* Genesis has no parent; Parent gives genesis itself. *)
LEMMA ParentType ==
  ASSUME NEW b \in Blocks
  PROVE  /\ Parent(b) \in Blocks
         /\ Height(Parent(b)) <= Height(b)
         /\ Height(Parent(b)) = Height(b) => Parent(b) = b
<1>1. CASE Height(b) = 0
  <2>1. b = << >> /\ Parent(b) = << >>
    BY <1>1 DEF Blocks, Height, Ancestor, Parent
  <2>2. Parent(b) = b
    BY <2>1
  <2>. QED
    BY <1>1, <2>2
<1>2. CASE Height(b) > 0
  <2>1. Height(b) - 1 \in 0..Height(b) /\ Height(b) \in Nat
    BY <1>2 DEF Blocks, Height
  <2>2. Ancestor(b, Height(b) - 1) \in Blocks
        /\ Height(Ancestor(b, Height(b) - 1)) = Height(b) - 1
    BY <2>1, AncestorType
  <2>. QED
    BY <2>1, <2>2 DEF Parent
<1>. QED
  BY <1>1, <1>2 DEF Blocks, Height

LEMMA ParentIsAncestor ==
  ASSUME NEW b \in Blocks
  PROVE  IsAncestor(Parent(b), b)
<1>1. CASE Height(b) = 0
  <2>1. Parent(b) \in Blocks /\ Height(Parent(b)) <= Height(b)
    BY ParentType
  <2>2. Height(Parent(b)) \in Nat
    BY <2>1 DEF Blocks, Height
  <2>3. Parent(b) = b
    BY <1>1, <2>1, <2>2, ParentType
  <2>. QED
    BY <1>1, <2>3, AncestorSelf DEF IsAncestor
<1>2. CASE Height(b) > 0
  <2>1. Height(b) - 1 \in 0..Height(b)
    BY <1>2 DEF Blocks, Height
  <2>2. Height(Parent(b)) = Height(b) - 1
    BY <2>1, AncestorType DEF Parent
  <2>. QED
    BY <2>1, <2>2 DEF IsAncestor, Parent
<1>. QED
  BY <1>1, <1>2 DEF Blocks, Height

(* The ancestors of an ancestor are ancestors, with the same contents. *)
LEMMA AncestorsOf ==
  ASSUME NEW a \in Blocks, NEW b \in Blocks, IsAncestor(a, b), NEW n \in 0..Height(a)
  PROVE  /\ Ancestor(b, n) = Ancestor(a, n)
         /\ Ancestor(a, n) \in Blocks /\ Height(Ancestor(a, n)) = n
         /\ IsAncestor(Ancestor(a, n), a)
<1>1. Height(a) \in 0..Height(b) /\ Ancestor(b, Height(a)) = a
  BY DEF IsAncestor, Blocks, Height
<1>2. Ancestor(Ancestor(b, Height(a)), n) = Ancestor(b, n)
  BY <1>1, AncestorOfAncestor
<1>3. Ancestor(a, n) \in Blocks /\ Height(Ancestor(a, n)) = n
  BY AncestorType
<1>4. IsAncestor(Ancestor(a, n), a)
  BY <1>3 DEF IsAncestor
<1>. QED
  BY <1>1, <1>2, <1>3, <1>4

(* Two ancestors of one block that have the same height are equal. *)
LEMMA AncestorsAgree ==
  ASSUME NEW a \in Blocks, NEW b \in Blocks, NEW c \in Blocks,
         IsAncestor(a, c), IsAncestor(b, c), Height(a) = Height(b)
  PROVE  a = b
BY DEF IsAncestor

(* Of two ancestors of one block, the lower is an ancestor of the higher. *)
LEMMA AncestorsNest ==
  ASSUME NEW a \in Blocks, NEW b \in Blocks, NEW c \in Blocks,
         IsAncestor(a, c), IsAncestor(b, c), Height(a) <= Height(b)
  PROVE  IsAncestor(a, b)
<1>1. /\ Height(a) \in 0..Height(b) /\ Height(b) \in 0..Height(c)
      /\ Ancestor(c, Height(b)) = b /\ Ancestor(c, Height(a)) = a
  BY DEF IsAncestor, Blocks, Height
<1>2. Ancestor(Ancestor(c, Height(b)), Height(a)) = Ancestor(c, Height(a))
  BY <1>1, AncestorOfAncestor
<1>. QED
  BY <1>1, <1>2 DEF IsAncestor

LEMMA AncestryIsTransitive ==
  ASSUME NEW a \in Blocks, NEW b \in Blocks, NEW c \in Blocks,
         IsAncestor(a, b), IsAncestor(b, c)
  PROVE  IsAncestor(a, c)
<1>1. /\ Height(a) \in 0..Height(b) /\ Height(b) <= Height(c)
      /\ Height(b) \in Nat /\ Height(c) \in Nat
  BY DEF IsAncestor, Blocks, Height
<1>2. Ancestor(c, Height(a)) = Ancestor(b, Height(a))
  BY <1>1, AncestorsOf
<1>. QED
  BY <1>1, <1>2 DEF IsAncestor

(* Appending a block keeps the ancestors and adds one. *)
LEMMA AppendedAncestry ==
  ASSUME NEW a \in Blocks, NEW b \in Blocks, NEW c \in Contents
  PROVE  /\ Append(b, c) \in Blocks /\ Height(Append(b, c)) = Height(b) + 1
         /\ IsAncestor(b, Append(b, c))
         /\ IsAncestor(a, Append(b, c)) => IsAncestor(a, b) \/ a = Append(b, c)
<1>1. /\ Append(b, c) \in Blocks /\ Height(Append(b, c)) = Height(b) + 1
      /\ Height(b) \in Nat /\ Height(a) \in Nat
  BY DEF Blocks, Height
<1>2. ASSUME NEW n \in 0..Height(b)  PROVE Ancestor(Append(b, c), n) = Ancestor(b, n)
  BY DEF Blocks, Height, Ancestor
<1>3. Ancestor(b, Height(b)) = b
  BY AncestorSelf
<1>4. Ancestor(Append(b, c), Height(b) + 1) = Append(b, c)
  BY <1>1, AncestorSelf
<1>. QED
  BY <1>1, <1>2, <1>3, <1>4 DEF IsAncestor
=============================================================================
