------------------------------ MODULE TctNodes ------------------------------
(***************************************************************************)
(* The tiered commitment tree (tct/src): a quad-tree of three tiers, a     *)
(* tree of epochs of blocks of commitments, in which only the leaves that  *)
(* were inserted to be kept, and the hashes beside their paths, are        *)
(* stored.  Nodes to the right, on the path to the latest leaf, are        *)
(* frontier nodes and can grow; all others are complete.  Hashes are       *)
(* computed when they are asked for and cached in the nodes.               *)
(*                                                                         *)
(* Every node is modelled at its height: leaves at 0, the top of a block   *)
(* at Depth, of an epoch at 2 * Depth, of the tree at 3 * Depth.  The      *)
(* wrappers of the code that add nothing (Leaf, Tier, Top, Insert) are     *)
(* left out.  The hash function is ideal: a hash is the term it was        *)
(* computed from.  Builds without debug assertions are modelled.           *)
(***************************************************************************)
EXTENDS Integers, Sequences, SequencesExt, FiniteSetsExt

CONSTANTS
  Arity,        \* children of a node: 4 in the code
  Depth         \* nodes on a path through a tier: 8 in the code

ASSUME TctNodesAssumption == Arity \in Nat \ {0, 1} /\ Depth \in Nat \ {0}

\* Hashes.
Zero == <<"zero">>
One == <<"one">>
Of(c) == <<"item", c>>
NodeHash(h, hashes) == <<"node", h, hashes>>

\* Nodes.
NoHash == << >>
HashOnly(hash) == [kind |-> "hash", hash |-> hash]
Item(hash) == [kind |-> "item", hash |-> hash]
Complete(children) == [kind |-> "complete", children |-> children, cache |-> NoHash]
Frontier(siblings, focus) == [kind |-> "frontier", siblings |-> siblings, focus |-> focus, cache |-> NoHash]
Empty == [kind |-> "empty"]  \* a top tier without leaves

NoPosition == -1

IsLeafHeight(h) == h % Depth = 0

\* The sequence s filled up to Arity elements.
Pad(s, e) == [i \in 1..Arity |-> IF i <= Len(s) THEN s[i] ELSE e]

-----------------------------------------------------------------------------
(* Hashing                                                                 *)

cached_hash(n) == IF n.kind \in {"hash", "item"} THEN n.hash ELSE n.cache

RECURSIVE HashOf(_, _)
HashOf(h, n) ==
  CASE n.kind = "empty" -> Zero
    [] n.kind # "empty" /\ cached_hash(n) # NoHash -> cached_hash(n)
    [] n.kind = "complete" /\ n.cache = NoHash ->
         NodeHash(h, [i \in 1..Arity |-> HashOf(h - 1, n.children[i])])
    [] n.kind = "frontier" /\ n.cache = NoHash ->
         NodeHash(h, Pad([i \in 1..Len(n.siblings) |-> HashOf(h - 1, n.siblings[i])]
                           \o <<HashOf(h - 1, n.focus)>>, Zero))

\* The node n after it was asked for its hash: set_if_empty has filled the
\* caches of everything below it that had none.
RECURSIVE Hashed(_, _)
Hashed(h, n) ==
  CASE n.kind = "empty" -> n
    [] n.kind # "empty" /\ cached_hash(n) # NoHash -> n
    [] n.kind = "complete" /\ n.cache = NoHash ->
         [n EXCEPT !.children = [i \in 1..Arity |-> Hashed(h - 1, @[i])], !.cache = HashOf(h, n)]
    [] n.kind = "frontier" /\ n.cache = NoHash ->
         [n EXCEPT !.siblings = [i \in DOMAIN @ |-> Hashed(h - 1, @[i])],
                   !.focus = Hashed(h - 1, @), !.cache = HashOf(h, n)]

-----------------------------------------------------------------------------
(* Nodes                                                                   *)

\* Mutant: a node is pruned when its first child is only a hash.
from_first_child_or_else_hash(h, children) ==
  IF children[1].kind = "hash"
  THEN HashOnly(NodeHash(h, [i \in 1..Arity |-> HashOf(h - 1, children[i])]))
  ELSE Complete(children)

\* A complete node without a witnessed child is pruned to its hash.
from_children_or_else_hash(h, children) ==
  IF \A i \in 1..Arity : children[i].kind = "hash"
  THEN HashOnly(NodeHash(h, [i \in 1..Arity |-> children[i].hash]))
  ELSE Complete(children)

RECURSIVE finalize(_, _)
finalize(h, n) ==
  CASE n.kind = "empty" -> HashOnly(One)
    [] n.kind = "frontier" ->
         from_children_or_else_hash(h, Pad(Append(n.siblings, finalize(h - 1, n.focus)), HashOnly(One)))
    [] OTHER -> n

\* The frontier from height h down to the item at the bottom of the tier.
RECURSIVE new(_, _)
new(h, item) == Frontier(<< >>, IF IsLeafHeight(h - 1) THEN item ELSE new(h - 1, item))

\* Mutant: off by one.
RECURSIVE is_overfull(_, _)
is_overfull(h, n) ==
  CASE n.kind = "empty" -> FALSE
    [] n.kind = "frontier" ->
         Len(n.siblings) = Arity /\ (IsLeafHeight(h - 1) \/ is_overfull(h - 1, n.focus))
    [] OTHER -> TRUE

\* A leaf is always full, and so is a tier that is finalized.
RECURSIVE is_full(_, _)
is_full(h, n) ==
  CASE n.kind = "empty" -> FALSE
    [] n.kind = "frontier" ->
         Len(n.siblings) = Arity - 1 /\ (IsLeafHeight(h - 1) \/ is_full(h - 1, n.focus))
    [] OTHER -> TRUE

\* insert_owned into a node that is not full.  A focus that is full becomes
\* a sibling of a new focus.
RECURSIVE insert(_, _, _)
insert(h, n, item) ==
  IF n.kind = "empty" THEN new(h, item)
  ELSE IF IsLeafHeight(h - 1)
       THEN Frontier(Append(n.siblings, finalize(h - 1, n.focus)), item)
       ELSE IF is_full(h - 1, n.focus)
            THEN Frontier(Append(n.siblings, finalize(h - 1, n.focus)), new(h - 1, item))
            ELSE Frontier(n.siblings, insert(h - 1, n.focus, item))

\* The latest item of the tier whose top is the frontier n.
RECURSIVE focus(_, _)
focus(h, n) == IF IsLeafHeight(h - 1) THEN n.focus ELSE focus(h - 1, n.focus)

\* Mutant: the hash of a node outlives the change of its focus.
RECURSIVE update_focus_only(_, _, _)
update_focus_only(h, n, item) ==
  [n EXCEPT !.focus = IF IsLeafHeight(h - 1) THEN item ELSE update_focus_only(h - 1, @, item)]

\* That item replaced.  A node drops its hash when the cached hash of its
\* focus has changed.
RECURSIVE update(_, _, _)
update(h, n, item) ==
  LET after == IF IsLeafHeight(h - 1) THEN item ELSE update(h - 1, n.focus, item)
  IN  [n EXCEPT !.focus = after,
                !.cache = IF cached_hash(n.focus) # cached_hash(after) THEN NoHash ELSE @]

\* The position of the next insertion.  The shift by 2 * height makes it
\* Arity times the index of the leaf that witness and forget understand.
RECURSIVE position(_, _)
position(h, n) ==
  CASE n.kind = "empty" -> 0
    [] n.kind = "frontier" ->
         LET siblings == Len(n.siblings)
             below == position(h - 1, n.focus)
         IN  (CASE below # NoPosition -> siblings * Arity^h + below
                [] below = NoPosition /\ siblings + 1 < Arity -> (siblings + 1) * Arity^h
                [] OTHER -> NoPosition)
    [] OTHER -> NoPosition

-----------------------------------------------------------------------------
(* Witnessing and forgetting                                               *)

\* Which child leads to the leaf of this index, counted from 1.
WhichWay(h, index) == 1 + ((index \div Arity^(h - 1)) % Arity)

\* The children of a node, in order.
ChildrenOf(n) == IF n.kind = "complete" THEN n.children ELSE Append(n.siblings, n.focus)

NotWitnessed == [auth_path |-> << >>, leaf |-> NoHash]

\* The hashes beside the way down from n, with zeros where nothing is yet.
SiblingHashes(h, n, way) ==
  LET hashes == Pad([i \in DOMAIN ChildrenOf(n) |-> HashOf(h - 1, ChildrenOf(n)[i])], Zero)
  IN  RemoveAt(hashes, way)

\* What was found below, with the hashes beside it.
Beside(h, n, way, found) ==
  IF found = NotWitnessed THEN NotWitnessed
  ELSE [found EXCEPT !.auth_path = <<SiblingHashes(h, n, way)>> \o @]

\* The path, from the top down, and the hash of the leaf, in a complete node ...
RECURSIVE WitnessComplete(_, _, _)
WitnessComplete(h, n, index) ==
  LET way == WhichWay(h, index)
  IN  CASE n.kind = "hash" -> NotWitnessed
        [] n.kind = "item" -> [auth_path |-> << >>, leaf |-> n.hash]
        [] n.kind = "complete" -> Beside(h, n, way, WitnessComplete(h - 1, n.children[way], index))

\* ... and in a frontier, whose last leaf is witnessed though it is not kept.
RECURSIVE witness(_, _, _)
witness(h, n, index) ==
  LET way == WhichWay(h, index)
      last == Len(n.siblings) + 1
  IN  CASE h = 0 -> [auth_path |-> << >>, leaf |-> n.hash]
        [] h > 0 /\ n.kind = "frontier" ->
             (CASE way < last -> Beside(h, n, way, WitnessComplete(h - 1, n.siblings[way], index))
                [] way = last -> Beside(h, n, way, witness(h - 1, n.focus, index))
                [] way > last -> NotWitnessed)
        [] h > 0 /\ n.kind = "empty" -> NotWitnessed
        [] OTHER -> WitnessComplete(h, n, index)

\* The node n after a witness was asked for: the siblings on the way down
\* have computed their hashes, also when there is no leaf at its end.
RECURSIVE Witnessed(_, _, _)
Witnessed(h, n, index) ==
  LET way == WhichWay(h, index)
      After(i, child) == IF i = way THEN Witnessed(h - 1, child, index) ELSE Hashed(h - 1, child)
  IN  CASE n.kind = "complete" -> [n EXCEPT !.children = [i \in DOMAIN @ |-> After(i, @[i])]]
        [] n.kind = "frontier" /\ way <= Len(ChildrenOf(n)) ->
             [n EXCEPT !.siblings = [i \in DOMAIN @ |-> After(i, @[i])],
                       !.focus = After(Len(ChildrenOf(n)), @)]
        [] OTHER -> n

\* Mutant: a node is pruned with the first of its children that is.
RECURSIVE forget_with_siblings(_, _, _)
forget_with_siblings(h, n, index) ==
  LET way == WhichWay(h, index)
  IN  CASE n.kind \in {"hash", "item"} -> HashOnly(n.hash)
        [] n.kind = "complete" ->
             LET child == forget_with_siblings(h - 1, n.children[way], index)
             IN  IF child.kind = "hash" THEN HashOnly(HashOf(h, n))
                 ELSE [n EXCEPT !.children[way] = child]

\* Forgetting a leaf of a complete node: its hash stays what it was, and so
\* does its cache.
RECURSIVE forget_owned(_, _, _)
forget_owned(h, n, index) ==
  LET way == WhichWay(h, index)
  IN  CASE n.kind = "hash" -> n
        [] n.kind = "item" -> HashOnly(n.hash)
        [] n.kind = "complete" ->
             LET rebuilt == from_children_or_else_hash(h,
                              [n.children EXCEPT ![way] = forget_owned(h - 1, @, index)])
             IN  IF rebuilt.kind = "complete" THEN [rebuilt EXCEPT !.cache = n.cache] ELSE rebuilt

RECURSIVE forget(_, _, _)
forget(h, n, index) ==
  LET way == WhichWay(h, index)
      last == Len(n.siblings) + 1
  IN  CASE n.kind = "empty" -> n
        [] n.kind = "frontier" ->
             (CASE way < last -> [n EXCEPT !.siblings[way] = forget_owned(h - 1, @, index)]
                [] way = last -> [n EXCEPT !.focus = forget(h - 1, @, index)]
                [] way > last -> n)
        [] OTHER -> forget_owned(h, n, index)

\* The root that a path with this index and leaf authenticates.
RECURSIVE PathRoot(_, _, _, _)
PathRoot(h, auth_path, index, leaf) ==
  IF h = 0 THEN leaf
  ELSE NodeHash(h, InsertAt(Head(auth_path), WhichWay(h, index),
                            PathRoot(h - 1, Tail(auth_path), index, leaf)))

\* Proof::verify.
verify(h, proof, index, root) == root = PathRoot(h, proof.auth_path, index, proof.leaf)
=============================================================================
