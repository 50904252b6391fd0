--------------------------------- MODULE Tct ---------------------------------
(***************************************************************************)
(* The interface of the tiered commitment tree (tct/src/tree.rs, epoch.rs, *)
(* block.rs): a Tree, and the builders of one epoch and of one block whose *)
(* finished work is inserted into the tree as a whole or as its root only. *)
(* Each keeps an index from its kept commitments to their positions.       *)
(*                                                                         *)
(* The variable content is what was inserted, as a plain list of lists:    *)
(* the model's memory, from which the properties say what the sparse,      *)
(* lazily hashed trees should answer.  It follows what was asked for: a    *)
(* commitment that is forgotten is forgotten at its own leaf, wherever the *)
(* code looks for it.  An operation that returns an error changes nothing  *)
(* and is no step.                                                         *)
(***************************************************************************)
EXTENDS TctNodes

CONSTANTS
  Commitments,  \* that are inserted to be kept
  Forgotten,    \* that are inserted for the root only
  MaxSize,      \* bound on the leaves, ended blocks and ended epochs
  MaxBuilt      \* bound on those of them that are still in the builders

ASSUME TctAssumption == MaxSize \in Nat /\ MaxBuilt \in Nat

Levels == {"block", "epoch", "tree"}

\* The number of tiers, and with it the height, of each.
Tier == [block |-> 1, epoch |-> 2, tree |-> 3]
Height(level) == Tier[level] * Depth
Inside(level) == IF level = "tree" THEN "epoch" ELSE "block"

\* The leaves below a tier's top: 2^16, 2^32 and 2^48 in the code, where
\* positions are u16, u32 and three u16 of a u64.
Capacity(level) == Arity^Height(level)

VARIABLES
  trees,     \* level -> [inner, index]: the builders' and the tree's state
  content,   \* level -> what was inserted
  astray,    \* history: something was forgotten at another index than its leaf's
  panicked   \* "no", or what an expect or a panic! complained of

vars == <<trees, content, astray, panicked>>

Default == [inner |-> Empty, index |-> << >>]
Finalized(inner, index) == [inner |-> inner, index |-> index]

-----------------------------------------------------------------------------
(* What was inserted                                                       *)

\* A leaf remembers whether it was inserted to be kept and whether it still
\* is; a list (block, epoch or tree) whether it has ended.
Leaf(c, keep) == [c |-> c, keep |-> keep, kept |-> keep]
List(items) == [ended |-> FALSE, items |-> items]
NoLeaf == [c |-> "none"]

\* A list that ends ends its last item.
RECURSIVE Ended(_, _)
Ended(level, list) ==
  [ended |-> TRUE,
   items |-> IF level = "block" \/ list.items = << >> THEN list.items
             ELSE [list.items EXCEPT ![Len(list.items)] = Ended(Inside(level), @)]]

\* Only the root of what was listed is inserted.
RECURSIVE Unkept(_, _)
Unkept(level, list) ==
  [list EXCEPT !.items = [i \in DOMAIN @ |->
     IF level = "block" THEN Leaf(@[i].c, FALSE) ELSE Unkept(Inside(level), @[i])]]

RECURSIVE ListLeaf(_, _, _)
ListLeaf(level, list, leaf) ==
  IF level = "block" THEN [list EXCEPT !.items = Append(@, leaf)]
  ELSE IF list.items = << >> THEN List(<<ListLeaf(Inside(level), List(<< >>), leaf)>>)
       ELSE [list EXCEPT !.items[Len(list.items)] = ListLeaf(Inside(level), @, leaf)]

\* A block or an epoch follows the last one, which ends.
ListItem(level, list, item) == [list EXCEPT !.items = Append(Ended(level, list).items, item)]

ListBlock(level, list, block) ==
  IF level = "epoch" THEN ListItem("epoch", list, block)
  ELSE IF list.items = << >> THEN List(<<List(<<block>>)>>)
       ELSE [list EXCEPT !.items[Len(list.items)] = ListItem("epoch", @, block)]

\* Which item of a list the leaf with an index belongs to, from 1.
Part(level, index) ==
  1 + ((index \div (IF level = "block" THEN 1 ELSE Capacity(Inside(level)))) % Arity^Depth)

RECURSIVE LeafAt(_, _, _)
LeafAt(level, list, index) ==
  LET i == Part(level, index)
  IN  IF i > Len(list.items) THEN NoLeaf
      ELSE IF level = "block" THEN list.items[i]
      ELSE LeafAt(Inside(level), list.items[i], index)

RECURSIVE ListForget(_, _, _)
ListForget(level, list, index) ==
  LET i == Part(level, index)
  IN  IF i > Len(list.items) THEN list
      ELSE IF level = "block" THEN [list EXCEPT !.items[i].kept = FALSE]
      ELSE [list EXCEPT !.items[i] = ListForget(Inside(level), @, index)]

Indices(level) == 0..(Capacity(level) - 1)
Leaves(level, list) == {i \in Indices(level) : LeafAt(level, list, i) # NoLeaf}

\* The leaf of an indexed commitment: the last that was inserted to be kept.
LeafOf(level, list, c) == Max({i \in Leaves(level, list) : LeafAt(level, list, i) = Leaf(c, TRUE)})

\* The leaves of a list and the lists that have ended in it.
RECURSIVE Size(_, _)
Size(level, list) ==
  (IF list.ended THEN 1 ELSE 0)
  + (IF level = "block" THEN Len(list.items)
     ELSE FoldLeft(+, 0, [i \in DOMAIN list.items |-> Size(Inside(level), list.items[i])]))

HasRoom(level) ==
  LET built == Size("block", content.block) + Size("epoch", content.epoch)
  IN  /\ built + Size("tree", content.tree) < MaxSize
      /\ level # "tree" => built < MaxBuilt

-----------------------------------------------------------------------------
(* Insertion                                                               *)

Failed == [kind |-> "failed"]

RECURSIVE NewPath(_, _)
NewPath(level, item) ==
  new(Height(level), IF level = "block" THEN item ELSE NewPath(Inside(level), item))

\* A leaf goes into the latest block of the latest epoch.  A new one is made
\* only in an empty builder or tree: the closure of update runs on a
\* finalized block too, and a finalized epoch is full.
RECURSIVE InsertLeaf(_, _, _)
InsertLeaf(level, n, item) ==
  LET h == Height(level)
      below == InsertLeaf(Inside(level), focus(h, n), item)
  IN  CASE n.kind = "empty" -> NewPath(level, item)
        [] n.kind \in {"complete", "hash"} -> Failed
        [] n.kind = "frontier" /\ level = "block" -> IF is_full(h, n) THEN Failed ELSE insert(h, n, item)
        [] OTHER -> IF below = Failed THEN Failed ELSE update(h, n, below)

\* u16::try_from and u32::try_from of a position; a tree's is truncated.
Representable(level, p) == level = "tree" \/ p < Capacity(level)

\* The index with the positions of `added', shifted by base, and the tree in
\* which the positions they replace are forgotten.
Indexed(level, inner, index, added, base) ==
  [inner |-> FoldSet(LAMBDA c, n : forget(Height(level), n, index[c]), inner, DOMAIN added \cap DOMAIN index),
   index |-> [c \in DOMAIN added |-> (base + added[c]) % Capacity(level)] @@ index]

\* The same in what was inserted: the leaf that a commitment had is forgotten.
ListIndexed(level, list, index, added) ==
  FoldSet(LAMBDA c, l : ListForget(level, l, LeafOf(level, content[level], c)), list,
          DOMAIN added \cap DOMAIN index)

\* Whether the index has another leaf than that of one of these commitments.
Misses(level, replaced) ==
  \E c \in replaced : trees[level].index[c] # LeafOf(level, content[level], c)

Panic(what) == panicked' = what /\ UNCHANGED <<trees, content, astray>>

\* insert of the block builder, the epoch builder and the tree.
Insert(level, keep, c) ==
  LET t == trees[level]
      p == position(Height(level), t.inner)
      inner == InsertLeaf(level, t.inner, IF keep THEN Item(Of(c)) ELSE HashOnly(Of(c)))
      added == IF keep THEN c :> p ELSE << >>
  IN  /\ panicked = "no"
      /\ p # NoPosition
      /\ CASE ~Representable(level, p) -> Panic("position")
           [] Representable(level, p) /\ inner = Failed -> level = "block" /\ Panic("full")
           [] OTHER ->
                /\ HasRoom(level)
                /\ trees' = [trees EXCEPT ![level] = Indexed(level, inner, t.index, added, 0)]
                /\ content' = [content EXCEPT ![level] =
                     ListIndexed(level, ListLeaf(level, @, Leaf(c, keep)), t.index, added)]
                /\ astray' = (astray \/ Misses(level, DOMAIN added \cap DOMAIN t.index))
                /\ UNCHANGED panicked

-----------------------------------------------------------------------------
(* Blocks                                                                  *)

\* The builder finalized, whole or as its root only.
FinalizedRoot(level, t) == Finalized(HashOnly(HashOf(Height(level), finalize(Height(level), t.inner))), << >>)
BuilderFinalize(level, whole) ==
  LET t == trees[level]
  IN  IF whole THEN Finalized(finalize(Height(level), t.inner), t.index) ELSE FinalizedRoot(level, t)
ListFinalize(level, whole) ==
  Ended(level, IF whole THEN content[level] ELSE Unkept(level, content[level]))

EmptyFinalized == Finalized(finalize(0, Empty), << >>)

\* Mutant: a finalized epoch is taken for one with room.
EpochFullNotFinalized(level, n) ==
  IF level = "epoch" THEN is_full(Height("epoch"), n)
  ELSE LET epoch == focus(Height("tree"), n)
       IN  n.kind # "empty" /\ epoch.kind = "frontier" /\ is_full(Height("epoch"), epoch)

\* The latest epoch has no room for a block: it is full or finalized.
EpochFull(level, n) ==
  IF level = "epoch" THEN is_full(Height("epoch"), n)
  ELSE n.kind # "empty" /\ is_full(Height("epoch"), focus(Height("tree"), n))

\* The latest block, or the latest epoch, of n finalized if there is one.
FinalizeInside(level, n) ==
  IF n.kind # "frontier" THEN n
  ELSE update(Height(level), n, finalize(Height(Inside(level)), focus(Height(level), n)))
FinalizeBlock(level, n) ==
  IF level = "epoch" \/ n.kind = "empty" THEN FinalizeInside("epoch", n)
  ELSE update(Height("tree"), n, FinalizeInside("epoch", focus(Height("tree"), n)))

\* Whether it was finalized before, as an empty one is considered to be.
InsideFinalized(level, n) ==
  n.kind # "frontier" \/ focus(Height(level), n).kind # "frontier"
BlockFinalized(level, n) ==
  IF level = "epoch" THEN InsideFinalized("epoch", n)
  ELSE n.kind = "empty" \/ InsideFinalized("epoch", focus(Height("tree"), n))

TierInsert(level, n, item) == IF is_full(Height(level), n) THEN Failed ELSE insert(Height(level), n, item)
InsertBlock(level, n, block) ==
  IF level = "epoch" THEN TierInsert("epoch", n, block)
  ELSE IF n.kind = "empty" THEN new(Height("tree"), new(Height("epoch"), block))
       ELSE LET epoch == TierInsert("epoch", focus(Height("tree"), n), block)
            IN  IF epoch = Failed THEN Failed ELSE update(Height("tree"), n, epoch)

\* The rest of insert_block and insert_epoch: the item has come into the
\* tree `inner' at position p, with what its builder had indexed.  A builder
\* whose work was taken starts anew.
Inserted(level, part, item, inner, p, list, taken) ==
  LET t == trees[level]
      base == p - (p % Capacity(part))
  IN  CASE p = NoPosition -> Panic("full")
        [] p # NoPosition /\ ~Representable(level, p) -> Panic("position")
        [] p # NoPosition /\ Representable(level, p) /\ inner = Failed -> Panic("full")
        [] OTHER ->
             /\ HasRoom(level)
             /\ trees' = [l \in Levels |->
                  CASE l = level -> Indexed(level, inner, t.index, item.index, base)
                    [] l \in taken -> Default
                    [] OTHER -> trees[l]]
             /\ content' = [l \in Levels |->
                  CASE l = level -> ListIndexed(level, list, t.index, item.index)
                    [] l \in taken -> List(<< >>)
                    [] OTHER -> content[l]]
             /\ astray' = (astray \/ Misses(level, DOMAIN item.index \cap DOMAIN t.index))
             /\ UNCHANGED panicked

\* insert_block of the epoch builder and of the tree.
insert_block(level, block, list, taken) ==
  LET n == FinalizeBlock(level, trees[level].inner)
  IN  /\ ~EpochFull(level, trees[level].inner)
      /\ Inserted(level, "block", block, InsertBlock(level, n, block.inner),
                  position(Height(level), n), ListBlock(level, content[level], list), taken)

InsertBuiltBlock(level, whole) ==
  /\ panicked = "no"
  /\ insert_block(level, BuilderFinalize("block", whole), ListFinalize("block", whole), {"block"})

\* The end of the tree's, or epoch builder's, block.
ListEndBlock(level, list) ==
  IF level = "epoch" THEN Ended("epoch", list).items
  ELSE [list.items EXCEPT ![Len(list.items)].items = Ended("epoch", list.items[Len(list.items)]).items]

EndBlock(level) ==
  /\ panicked = "no"
  /\ IF BlockFinalized(level, trees[level].inner)
     THEN insert_block(level, EmptyFinalized, Ended("block", List(<< >>)), {})
     ELSE /\ trees' = [trees EXCEPT ![level].inner = FinalizeBlock(level, @)]
          /\ content' = [content EXCEPT ![level].items = ListEndBlock(level, content[level])]
          /\ UNCHANGED <<astray, panicked>>

-----------------------------------------------------------------------------
(* Epochs                                                                  *)

insert_epoch(epoch, list, taken) ==
  LET n == FinalizeInside("tree", trees.tree.inner)
  IN  /\ ~is_full(Height("tree"), trees.tree.inner)
      /\ Inserted("tree", "epoch", epoch, TierInsert("tree", n, epoch.inner),
                  position(Height("tree"), n), ListItem("tree", content.tree, list), taken)

InsertBuiltEpoch(whole) ==
  /\ panicked = "no"
  /\ insert_epoch(BuilderFinalize("epoch", whole), ListFinalize("epoch", whole), {"epoch"})

EndEpoch ==
  /\ panicked = "no"
  /\ IF InsideFinalized("tree", trees.tree.inner)
     THEN insert_epoch(EmptyFinalized, Ended("epoch", List(<< >>)), {})
     ELSE /\ trees' = [trees EXCEPT !.tree.inner = FinalizeInside("tree", @)]
          /\ content' = [content EXCEPT !.tree.items = Ended("tree", content.tree).items]
          /\ UNCHANGED <<astray, panicked>>

-----------------------------------------------------------------------------
(* Reading and forgetting                                                  *)

\* root of the builders and of the tree.
Root(level) ==
  /\ panicked = "no"
  /\ trees' = [trees EXCEPT ![level].inner = Hashed(Height(level), @)]
  /\ UNCHANGED <<content, astray, panicked>>

\* The frontier node at height h on the path to the latest leaf.
RECURSIVE OnFrontier(_, _, _)
OnFrontier(h, n, at) ==
  IF n.kind # "frontier" THEN Empty ELSE IF h = at THEN n ELSE OnFrontier(h - 1, n.focus, at)

\* The same, hashed in its place.
RECURSIVE HashedOnFrontier(_, _, _)
HashedOnFrontier(h, n, at) ==
  IF n.kind # "frontier" THEN n
  ELSE IF h = at THEN Hashed(h, n) ELSE [n EXCEPT !.focus = HashedOnFrontier(h - 1, @, at)]

\* current_block_root and current_epoch_root: the root of an empty builder
\* when there is no such block or epoch, or it is finalized.
CurrentRootHash(part) == HashOf(Height(part), OnFrontier(Height("tree"), trees.tree.inner, Height(part)))
CurrentRoot(part) ==
  /\ panicked = "no"
  /\ trees' = [trees EXCEPT !.tree.inner = HashedOnFrontier(Height("tree"), @, Height(part))]
  /\ UNCHANGED <<content, astray, panicked>>

\* An indexed commitment that is not witnessed is a panic.
WitnessCommitment(c) ==
  LET t == trees.tree
  IN  /\ panicked = "no"
      /\ c \in DOMAIN t.index
      /\ trees' = [trees EXCEPT !.tree.inner = Witnessed(Height("tree"), @, t.index[c])]
      /\ panicked' = IF witness(Height("tree"), t.inner, t.index[c]) = NotWitnessed THEN "witness" ELSE "no"
      /\ UNCHANGED <<content, astray>>

ForgetCommitment(c) ==
  LET t == trees.tree
  IN  /\ panicked = "no"
      /\ c \in DOMAIN t.index
      /\ trees' = [trees EXCEPT !.tree = [inner |-> forget(Height("tree"), t.inner, t.index[c]),
                                          index |-> RestrictDomain(t.index, LAMBDA d : d # c)]]
      /\ content' = [content EXCEPT !.tree = ListForget("tree", @, LeafOf("tree", @, c))]
      /\ astray' = (astray \/ Misses("tree", {c}))
      /\ UNCHANGED panicked

\* A tree that was serialized and deserialized: the caches are skipped.
RECURSIVE Uncached(_)
Uncached(n) ==
  CASE n.kind = "complete" -> Complete([i \in DOMAIN n.children |-> Uncached(n.children[i])])
    [] n.kind = "frontier" ->
         Frontier([i \in DOMAIN n.siblings |-> Uncached(n.siblings[i])], Uncached(n.focus))
    [] OTHER -> n
Reload ==
  /\ panicked = "no"
  /\ trees' = [trees EXCEPT !.tree.inner = Uncached(@)]
  /\ UNCHANGED <<content, astray, panicked>>

-----------------------------------------------------------------------------

Init ==
  /\ trees = [level \in Levels |-> Default]
  /\ content = [level \in Levels |-> List(<< >>)]
  /\ astray = FALSE /\ panicked = "no"

Next ==
  \/ \E level \in Levels :
       \/ \E c \in Commitments : Insert(level, TRUE, c)
       \/ \E c \in Forgotten : Insert(level, FALSE, c)
  \/ \E level \in {"epoch", "tree"}, whole \in BOOLEAN : InsertBuiltBlock(level, whole)
  \/ \E level \in {"epoch", "tree"} : EndBlock(level)
  \/ \E whole \in BOOLEAN : InsertBuiltEpoch(whole)
  \/ EndEpoch
  \/ \E level \in Levels : Root(level)
  \/ \E part \in {"block", "epoch"} : CurrentRoot(part)
  \/ \E c \in Commitments : WitnessCommitment(c) \/ ForgetCommitment(c)
  \/ Reload

Spec == Init /\ [][Next]_vars

-----------------------------------------------------------------------------
(* What the trees should answer                                            *)

\* The hash of a list, computed at once: absent subtrees are zero while the
\* list can grow, and one when it has ended.
RECURSIVE ListHash(_, _), SubtreeHash(_, _, _, _)
ListHash(level, list) ==
  IF list.items = << >> THEN IF list.ended THEN One ELSE Zero
  ELSE SubtreeHash(level, list, Depth, 0)
\* Of the subtree d nodes deep that starts at item number `from', from 0.
SubtreeHash(level, list, d, from) ==
  IF from >= Len(list.items) THEN IF list.ended THEN One ELSE Zero
  ELSE IF d = 0
       THEN IF level = "block" THEN Of(list.items[from + 1].c)
            ELSE ListHash(Inside(level), list.items[from + 1])
       ELSE NodeHash(Height(level) - Depth + d,
                     [i \in 1..Arity |-> SubtreeHash(level, list, d - 1, from + (i - 1) * Arity^(d - 1))])

\* The index of the leaf that was inserted last, if its block and epoch, and
\* with them the frontier, have not ended since.
RECURSIVE Tip(_, _)
Tip(level, list) ==
  IF list.items = << >> \/ list.ended THEN {}
  ELSE IF level = "block" THEN {Len(list.items) - 1}
  ELSE {(Len(list.items) - 1) * Capacity(Inside(level)) + i : i \in Tip(Inside(level), Last(list.items))}

\* A tree has at most Arity children below a node; a complete node has a
\* child that is not only a hash; finalized nodes hold no frontier; positions
\* are those of the level (frontier/node.rs, complete/node.rs).
RECURSIVE NodeOK(_, _, _)
NodeOK(h, n, frontier) ==
  CASE n.kind = "hash" -> TRUE
    [] n.kind = "item" -> h = 0
    [] n.kind = "complete" ->
         /\ h > 0 /\ DOMAIN n.children = 1..Arity
         /\ \E i \in 1..Arity : n.children[i].kind # "hash"
         /\ \A i \in 1..Arity : NodeOK(h - 1, n.children[i], FALSE)
    [] n.kind = "frontier" ->
         /\ h > 0 /\ frontier /\ Len(n.siblings) < Arity
         /\ \A i \in DOMAIN n.siblings : NodeOK(h - 1, n.siblings[i], FALSE)
         /\ NodeOK(h - 1, n.focus, TRUE)
    [] OTHER -> FALSE
TypeOK ==
  /\ panicked \in {"no", "position", "full", "witness"} /\ astray \in BOOLEAN
  /\ \A level \in Levels :
       /\ trees[level].inner = Empty \/ NodeOK(Height(level), trees[level].inner, TRUE)
       /\ DOMAIN trees[level].index \subseteq Commitments
       /\ \A c \in DOMAIN trees[level].index : trees[level].index[c] \in Indices(level)

\* Whatever was inserted, ended, forgotten, cached or reloaded, and in
\* whatever order, a root is the hash of what was inserted: no stale cache is
\* ever used and pruning changes no hash (update, forget_owned).
RootIsOfContent ==
  /\ \A level \in Levels : HashOf(Height(level), trees[level].inner) = ListHash(level, content[level])
  /\ LET epochs == content.tree.items
         epoch == IF epochs = << >> THEN List(<< >>) ELSE Last(epochs)
         block == IF epoch.items = << >> THEN List(<< >>) ELSE Last(epoch.items)
         Growing(level, list) == IF list.ended THEN Zero ELSE ListHash(level, list)
     IN  /\ CurrentRootHash("epoch") = Growing("epoch", epoch)
         /\ CurrentRootHash("block") = Growing("block", block)

\* Pruning keeps exactly what was to be kept: there is a witness at an index
\* if and only if its leaf is kept, or is the tip of the frontier
\* (from_children_or_else_hash, finalize, frontier::Item), through insertion,
\* ends, finished blocks and epochs, and the forgetting of leaf 0.  A witness
\* is a proof of that leaf: its path leads to the root (Proof::verify).  Only
\* while nothing was forgotten at an index that is not its leaf's: the indexed
\* position is right for leaf 0 alone, see IndexedAreWitnessed.
KeptAreWitnessed ==
  ~astray =>
    \A level \in Levels :
      LET h == Height(level)
          root == HashOf(h, trees[level].inner)
          tip == Tip(level, content[level])
      IN  \A i \in Indices(level) :
            LET leaf == LeafAt(level, content[level], i)
                w == witness(h, trees[level].inner, i)
            IN  IF leaf # NoLeaf /\ (leaf.kept \/ i \in tip)
                THEN w # NotWitnessed /\ w.leaf = Of(leaf.c) /\ verify(h, w, i, root)
                ELSE w = NotWitnessed

\* Forgetting one leaf, given its index, prunes that leaf and nothing else, in
\* every tree the operations can build, pruned and cached in whatever way: the
\* root stays, every other leaf is witnessed as before, and the forgotten one
\* is not, unless it is the tip of the frontier (forget, forget_owned).
ForgetsOneLeaf ==
  \A level \in Levels :
    LET h == Height(level)
        n == trees[level].inner
        leaves == Leaves(level, content[level])
    IN  \A i \in leaves :
          LET after == forget(h, n, i)
          IN  /\ HashOf(h, after) = HashOf(h, n)
              /\ \A k \in leaves :
                   witness(h, after, k) = IF k = i /\ i \notin Tip(level, content[level])
                                          THEN NotWitnessed ELSE witness(h, n, k)

\* What insert_block and insert_epoch take for granted once is_full has said
\* no, and the block builder's insert once there is a position, is true: the
\* next position exists and the insertion succeeds (the expects of tree.rs,
\* epoch.rs:224 and :231, block.rs:141).  Nothing is said of the conversion of
\* a position to u16 or u32, which does fail (block.rs:135, epoch.rs:162), and
\* with it ends a builder before it is full, nor of insert of the epoch builder
\* and the tree, which answers BlockFull after end_block though there is a
\* position.
RoomIsThere == panicked # "full"

\* A commitment that is indexed is witnessed at its position, by its own leaf:
\* "must be witnessed because it is indexed", and debug_assert_eq!(leaf,
\* Hash::of(commitment)) (tree.rs:200-209).  The position is "the index of a
\* Commitment within a Tree" (tree.rs:68).
IndexedAreWitnessed ==
  \A level \in Levels : \A c \in DOMAIN trees[level].index :
    witness(Height(level), trees[level].inner, trees[level].index[c]).leaf = Of(c)
=============================================================================
