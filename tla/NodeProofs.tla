------------------------------ MODULE NodeProofs ------------------------------
(***************************************************************************)
(* Proofs about Node, for every genesis, set of transactions, block size   *)
(* and interleaving of workers, crashes and clients.                       *)
(***************************************************************************)
EXTENDS Node, Arithmetic, SequenceTheorems, TLAPS

\* A chain state is a record with the fields of EmptyState.
IsState(s) ==
  s \in [height : {s.height}, nct : {s.nct}, nct_anchor : {s.nct_anchor},
         valid_anchors : {s.valid_anchors}, spent : {s.spent}, source : {s.source},
         compact_block : {s.compact_block}, supply : {s.supply}]
IsBlock(b) == b \in [height : {b.height}, outputs : {b.outputs}, nullifiers : {b.nullifiers}]
IsApp(a) ==
  a \in [state : {a.state}, nct : {a.nct}, block : {a.block}] /\ IsState(a.state) /\ IsBlock(a.block)

\* What was spent is still spent, by the same transaction.
Extends(new, old) == \A nf \in DOMAIN old : nf \in DOMAIN new /\ new[nf] = old[nf]

\* The inductive invariant: the consensus worker's instance has every
\* committed spend, and before genesis there is none.
SpentInv ==
  /\ IsApp(app) /\ IsState(storage)
  /\ Extends(app.state.spent, storage.spent)
  /\ phase = "pre_genesis" => DOMAIN storage.spent = {}

\* App::new makes an instance of the state it is given.
LEMMA AppNewSpent ==
  ASSUME NEW s, IsState(s) PROVE IsApp(AppNew(s)) /\ AppNew(s).state = s
  BY DEF AppNew, IsApp, IsBlock, EmptyBlock

\* The handlers that write notes, anchors and blocks leave the spent set alone.
LEMMA AddNotesSpent ==
  ASSUME NEW a, IsApp(a), NEW new, NEW source
  PROVE  IsApp(AddNotes(a, new, source)) /\ AddNotes(a, new, source).state.spent = a.state.spent
  BY DEF AddNotes, IsApp, IsState, IsBlock

\* Minting does not spend.
LEMMA MintNotesSpent ==
  ASSUME NEW a, IsApp(a), NEW minted, NEW source
  PROVE  IsApp(MintNotes(a, minted, source)) /\ MintNotes(a, minted, source).state.spent = a.state.spent
  <1> DEFINE b == [a EXCEPT !.state.supply = @ + TotalAmount(minted)]
  <1>1. IsApp(b) /\ b.state.spent = a.state.spent BY DEF IsApp, IsState, IsBlock
  <1> HIDE DEF b
  <1> QED BY <1>1, AddNotesSpent, ZenonT(40) DEF MintNotes, b

\* Writing the block and the tree does not spend.
LEMMA WriteSpent ==
  ASSUME NEW a, IsApp(a)
  PROVE  /\ IsApp(WriteCompactBlockAndNct(a))
         /\ WriteCompactBlockAndNct(a).state.spent = a.state.spent
  BY DEF WriteCompactBlockAndNct, IsApp, IsState, IsBlock, EmptyBlock

\* Genesis does not spend.
LEMMA InitChainSpent ==
  ASSUME NEW a, IsApp(a) PROVE IsApp(InitChain(a)) /\ InitChain(a).state.spent = a.state.spent
  <1> DEFINE b == [a EXCEPT !.state.height = 0]
             c == MintNotes(b, GenesisAllocations, Genesis)
  <1>1. IsApp(b) /\ b.state.spent = a.state.spent BY DEF IsApp, IsState, IsBlock
  <1> HIDE DEF b
  <1>2. IsApp(c) /\ c.state.spent = b.state.spent BY <1>1, MintNotesSpent
  <1> HIDE DEF c
  <1> QED BY <1>1, <1>2, WriteSpent DEF InitChain, b, c

\* Beginning a block does not spend.
LEMMA BeginBlockSpent ==
  ASSUME NEW a, IsApp(a), NEW h PROVE IsApp(BeginBlock(a, h)) /\ BeginBlock(a, h).state.spent = a.state.spent
  BY DEF BeginBlock, IsApp, IsState, IsBlock

\* Ending a block does not spend.
LEMMA EndBlockSpent ==
  ASSUME NEW a, IsApp(a), NEW rewards
  PROVE  IsApp(EndBlock(a, rewards)) /\ EndBlock(a, rewards).state.spent = a.state.spent
  <1> DEFINE b == [a EXCEPT !.block.height = a.state.height]
             c == MintNotes(b, rewards, Reward)
  <1>1. IsApp(b) /\ b.state.spent = a.state.spent BY DEF IsApp, IsState, IsBlock
  <1> HIDE DEF b
  <1>2. IsApp(c) /\ c.state.spent = b.state.spent BY <1>1, MintNotesSpent
  <1> HIDE DEF c
  <1> QED BY <1>1, <1>2, WriteSpent DEF EndBlock, b, c

\* Only executing a transaction writes nullifiers, and its checks have made
\* sure that they are new.
LEMMA ExecuteTxSpent ==
  ASSUME NEW a, IsApp(a), NEW tx, NEW anchor, CheckTx(a, tx, anchor)
  PROVE  IsApp(ExecuteTx(a, tx, anchor)) /\ Extends(ExecuteTx(a, tx, anchor).state.spent, a.state.spent)
  <1> DEFINE nfs == Nullifiers(tx, anchor)
             new == {nfs[i] : i \in DOMAIN nfs}
             b == AddNotes(a, OutputNotes(tx), tx.id)
  <1>1. IsApp(b) /\ b.state.spent = a.state.spent BY AddNotesSpent
  <1>2. new \intersect DOMAIN a.state.spent = {}
    <2>1. DOMAIN nfs = DOMAIN tx.spends BY DEF Nullifiers
    <2> QED BY <2>1 DEF CheckTx, CheckTxStateful, CheckNullifierUnspent
  <1> HIDE DEF b, nfs
  <1>3. /\ IsApp(SpendNullifiers(b, nfs, tx.id))
        /\ SpendNullifiers(b, nfs, tx.id).state.spent = PutAll(b.state.spent, new, tx.id)
    BY <1>1 DEF SpendNullifiers, IsApp, IsState, IsBlock
  <1>4. Extends(PutAll(a.state.spent, new, tx.id), a.state.spent) BY <1>2 DEF Extends, PutAll
  <1> QED BY <1>1, <1>3, <1>4 DEF ExecuteTx, b, nfs

\* Extending twice is extending.
LEMMA ExtendsTransitive ==
  ASSUME NEW f, NEW g, NEW h, Extends(f, g), Extends(g, h) PROVE Extends(f, h)
  BY DEF Extends

\* One step of the node keeps the invariant and every committed spend.
LEMMA SpentStep ==
  ASSUME SpentInv, [Next]_vars
  PROVE  SpentInv' /\ Extends(storage'.spent, storage.spent)
  <1> DEFINE Goal == SpentInv' /\ Extends(storage'.spent, storage.spent)
  <1>1. IsApp(app) /\ IsState(app.state) /\ IsState(storage) /\ Extends(app.state.spent, storage.spent)
    BY DEF SpentInv, IsApp
  <1>2. \A f : Extends(f, f) BY DEF Extends
  <1>3. ASSUME UNCHANGED <<phase, app, storage>> PROVE Goal
    BY <1>2, <1>3 DEF SpentInv, IsApp, IsState, IsBlock, Extends
  <1>4. ASSUME storage' = storage, phase' # "pre_genesis", NEW b, app' = b, IsApp(b),
               Extends(b.state.spent, app.state.spent)
        PROVE  Goal
    <2>1. Extends(b.state.spent, storage.spent) BY <1>1, <1>4, ExtendsTransitive
    <2>2. IsApp(app)' BY <1>4 DEF IsApp, IsState, IsBlock
    <2>3. IsState(storage)' BY <1>1, <1>4 DEF IsState
    <2>4. Extends(app.state.spent, storage.spent)' BY <1>4, <2>1 DEF Extends
    <2>5. Extends(storage'.spent, storage.spent) BY <1>2, <1>4
    <2> QED BY <1>4, <2>2, <2>3, <2>4, <2>5 DEF SpentInv
  <1>5. ASSUME NEW s, IsState(s), Extends(s.spent, storage.spent), phase' # "pre_genesis",
               storage' = s, app' = AppNew(s)
        PROVE  Goal
    <2>1. IsApp(AppNew(s)) /\ AppNew(s).state = s BY <1>5, AppNewSpent
    <2>2. IsApp(app)' BY <1>5, <2>1 DEF IsApp, IsState, IsBlock
    <2>3. IsState(storage)' BY <1>5 DEF IsState
    <2>4. Extends(app.state.spent, storage.spent)' BY <1>2, <1>5, <2>1 DEF Extends
    <2> QED BY <1>5, <2>2, <2>3, <2>4 DEF SpentInv
  <1>6. CASE HandleInitChain
    <2>1. IsApp(InitChain(app)) BY <1>1, InitChainSpent
    <2>2. Extends(InitChain(app).state.spent, storage.spent)
      BY <1>6 DEF HandleInitChain, SpentInv, Extends
    <2>3. IsState(InitChain(app).state) BY <2>1 DEF IsApp
    <2> QED BY <1>5, <1>6, <2>2, <2>3 DEF HandleInitChain
  <1>7. CASE HandleBeginBlock
    <2> DEFINE b == BeginBlock(app, app.state.height + 1)
    <2>1. IsApp(b) /\ Extends(b.state.spent, app.state.spent) BY <1>1, <1>2, BeginBlockSpent
    <2> HIDE DEF b
    <2>2. app' = b /\ storage' = storage /\ phase' # "pre_genesis" BY <1>7 DEF HandleBeginBlock, b
    <2> QED BY <1>4, <2>1, <2>2
  <1>8. ASSUME NEW tx \in Txs, NEW anchor \in Roots, HandleDeliverTx(tx, anchor) PROVE Goal
    <2> DEFINE b == ExecuteTx(app, tx, anchor)
    <2>1. CheckTx(app, tx, anchor) BY <1>8 DEF HandleDeliverTx
    <2>2. IsApp(b) /\ Extends(b.state.spent, app.state.spent) BY <1>1, <2>1, ExecuteTxSpent
    <2> HIDE DEF b
    <2>3. app' = b /\ storage' = storage /\ phase' # "pre_genesis" BY <1>8 DEF HandleDeliverTx, b
    <2> QED BY <1>4, <2>2, <2>3
  <1>9. ASSUME NEW rewards \in RewardNotes, HandleEndBlock(rewards) PROVE Goal
    <2> DEFINE b == EndBlock(app, rewards)
    <2>1. IsApp(b) /\ Extends(b.state.spent, app.state.spent) BY <1>1, <1>2, EndBlockSpent
    <2> HIDE DEF b
    <2>2. app' = b /\ storage' = storage /\ phase' # "pre_genesis" BY <1>9 DEF HandleEndBlock, b
    <2> QED BY <1>4, <2>1, <2>2
  <1>10. CASE HandleCommit BY <1>1, <1>5, <1>10 DEF HandleCommit
  <1>11. ASSUME NEW tx \in Txs, NEW anchor \in Roots, SendCheckTx(tx, anchor) PROVE Goal
    BY <1>3, <1>11 DEF SendCheckTx, consensus
  <1>12. CASE MempoolReset BY <1>3, <1>12 DEF MempoolReset, consensus
  <1>13. CASE CheckAndExecuteTx BY <1>3, <1>13 DEF CheckAndExecuteTx, consensus
  <1>14. CASE Crash BY <1>1, <1>2, <1>5, <1>14 DEF Crash
  <1>15. CASE Sync BY <1>3, <1>15 DEF Sync, consensus
  <1>16. CASE UNCHANGED vars BY <1>3, <1>16 DEF vars, consensus
  <1>17. CASE AnnounceHeight
    <2>1. UNCHANGED <<app, storage>> /\ phase' # "pre_genesis" BY <1>17 DEF AnnounceHeight
    <2> QED BY <1>1, <1>2, <1>4, <2>1
  <1> QED
    BY <1>6, <1>7, <1>8, <1>9, <1>10, <1>11, <1>12, <1>13, <1>14, <1>15, <1>16, <1>17 DEF Next

\* A committed spend is never undone or reassigned: whatever blocks are
\* proposed, whatever the mempool does on its own copy of the state, and
\* wherever the node crashes.
THEOREM SpendsAreFinal == Spec => SpentIsFinal
  <1>1. Init => SpentInv
    <2>1. DOMAIN EmptyState.spent = {} BY DEF EmptyState, Nothing
    <2>2. IsState(EmptyState) BY DEF EmptyState, IsState
    <2>3. IsApp(AppNew(EmptyState)) /\ AppNew(EmptyState).state = EmptyState BY <2>2, AppNewSpent
    <2> QED BY <2>1, <2>2, <2>3 DEF Init, SpentInv, Extends
  <1>2. SpentInv /\ [Next]_vars => SpentInv' /\ Extends(storage'.spent, storage.spent) BY SpentStep
  <1>3. Extends(storage'.spent, storage.spent) <=>
          \A nf \in DOMAIN storage.spent :
            nf \in DOMAIN storage'.spent /\ storage'.spent[nf] = storage.spent[nf]
    BY DEF Extends
  <1> QED BY <1>1, <1>2, <1>3, PTL DEF Spec, SpentIsFinal

-----------------------------------------------------------------------------
(* What a client gets from a range of compact blocks                       *)

\* Concatenation, left unexpanded where the sequences have no type.
Joined(s, t) == s \o t

\* The recursion that Concatenated is defined by.
CatBody(blocks, field, from, to, f) ==
  [h \in from - 1 .. to |-> IF h = from - 1 THEN << >> ELSE Joined(f[h - 1], blocks[h][field])]

\* It has a solution, built up block by block.
LEMMA CatExists ==
  ASSUME NEW blocks, NEW field, NEW from \in Int, NEW to \in Int, from - 1 <= to
  PROVE  \E f : f = CatBody(blocks, field, from, to, f)
  <1> DEFINE N == {n \in Nat : \E f : f = CatBody(blocks, field, from, from - 1 + n, f)}
  <1>1. 0 \in N
    <2> DEFINE z == [h \in from - 1 .. from - 1 |-> << >>]
    <2>1. z = CatBody(blocks, field, from, from - 1 + 0, z) BY DEF CatBody
    <2> QED BY <2>1
  <1>2. ASSUME NEW n \in Nat, n \in N PROVE n + 1 \in N
    <2>1. PICK f : f = CatBody(blocks, field, from, from - 1 + n, f) BY <1>2
    <2> DEFINE g == [h \in from - 1 .. from + n |->
                       IF h = from - 1 THEN << >> ELSE Joined(f[h - 1], blocks[h][field])]
    <2>2. \A h \in from - 1 .. from - 1 + n : g[h] = f[h]
      BY <2>1 DEF CatBody
    <2>3. g = CatBody(blocks, field, from, from + n, g)
      <3>1. \A h \in from - 1 .. from + n : h # from - 1 => h - 1 \in from - 1 .. from - 1 + n OBVIOUS
      <3>2. \A h \in from - 1 .. from + n : h # from - 1 => g[h - 1] = f[h - 1] BY <2>2, <3>1
      <3> QED BY <3>2 DEF CatBody
    <2>4. from - 1 + (n + 1) = from + n OBVIOUS
    <2> HIDE DEF g
    <2> QED BY <2>3, <2>4
  <1> HIDE DEF N
  <1>3. to - (from - 1) \in N BY <1>1, <1>2, NatSetInduction
  <1>4. from - 1 + (to - (from - 1)) = to OBVIOUS
  <1> QED BY <1>3, <1>4 DEF N

\* Concatenated is a solution.
LEMMA ConcatenatedDef ==
  ASSUME NEW blocks, NEW field, NEW from \in Int, NEW to \in Int, from - 1 <= to
  PROVE  \E f : f = CatBody(blocks, field, from, to, f) /\ Concatenated(blocks, field, from, to) = f[to]
  <1> DEFINE Fix(f) == f = CatBody(blocks, field, from, to, f)
             F == CHOOSE f : Fix(f)
  <1>1. \E f : Fix(f) BY CatExists
  <1>2. Fix(F)
    <2> HIDE DEF Fix
    <2> QED BY <1>1
  <1>3. Concatenated(blocks, field, from, to) = F[to] BY DEF Concatenated, CatBody, Joined
  <1> QED BY <1>2, <1>3

\* Two such functions agree where both are defined and their blocks agree.
LEMMA CatUnique ==
  ASSUME NEW b, NEW c, NEW field, NEW from \in Int, NEW to \in Int, NEW end \in Int,
         from - 1 <= to, to <= end, \A h \in from .. to : b[h][field] = c[h][field],
         NEW f, f = CatBody(b, field, from, to, f), NEW g, g = CatBody(c, field, from, end, g)
  PROVE  \A h \in from - 1 .. to : f[h] = g[h]
  <1> DEFINE N == {n \in Nat : from - 1 + n <= to => f[from - 1 + n] = g[from - 1 + n]}
  <1>1. 0 \in N
    <2>1. f[from - 1] = << >> BY DEF CatBody
    <2>2. g[from - 1] = << >> BY DEF CatBody
    <2> QED BY <2>1, <2>2
  <1>2. ASSUME NEW n \in Nat, n \in N PROVE n + 1 \in N
    <2> SUFFICES ASSUME from + n <= to PROVE f[from + n] = g[from + n] BY SMT
    <2> DEFINE m == from + n
    <2>1. m \in from - 1 .. to /\ m \in from - 1 .. end /\ m # from - 1 /\ m - 1 = from - 1 + n /\ m \in from .. to
      OBVIOUS
    <2> HIDE DEF m
    <2>2. f[m] = Joined(f[m - 1], b[m][field]) BY <2>1 DEF CatBody
    <2>3. g[m] = Joined(g[m - 1], c[m][field]) BY <2>1 DEF CatBody
    <2>4. f[m - 1] = g[m - 1] BY <1>2, <2>1
    <2>5. f[m] = g[m] BY <2>1, <2>2, <2>3, <2>4
    <2> QED BY <2>5 DEF m
  <1> HIDE DEF N
  <1>3. \A n \in Nat : n \in N BY <1>1, <1>2, NatSetInduction
  <1>4. ASSUME NEW h \in from - 1 .. to PROVE f[h] = g[h]
    <2>1. h - (from - 1) \in N BY <1>3
    <2> QED BY <2>1 DEF N
  <1> QED BY <1>4

\* No blocks.
LEMMA CatEmpty ==
  ASSUME NEW b, NEW field, NEW from \in Int
  PROVE  Concatenated(b, field, from, from - 1) = << >>
  <1>1. PICK f : f = CatBody(b, field, from, from - 1, f) /\ Concatenated(b, field, from, from - 1) = f[from - 1]
    BY ConcatenatedDef
  <1> QED BY <1>1 DEF CatBody

\* The result depends on the blocks of the range only.
LEMMA CatSame ==
  ASSUME NEW b, NEW c, NEW field, NEW from \in Int, NEW to \in Int,
         from - 1 <= to, \A h \in from .. to : b[h][field] = c[h][field]
  PROVE  Concatenated(b, field, from, to) = Concatenated(c, field, from, to)
  <1>1. PICK f : f = CatBody(b, field, from, to, f) /\ Concatenated(b, field, from, to) = f[to]
    BY ConcatenatedDef
  <1>2. PICK g : g = CatBody(c, field, from, to, g) /\ Concatenated(c, field, from, to) = g[to]
    BY ConcatenatedDef
  <1>3. \A h \in from - 1 .. to : f[h] = g[h] BY <1>1, <1>2, CatUnique
  <1> QED BY <1>1, <1>2, <1>3

\* One more block.
LEMMA CatStep ==
  ASSUME NEW b, NEW field, NEW from \in Int, NEW to \in Int, from <= to
  PROVE  Concatenated(b, field, from, to) = Concatenated(b, field, from, to - 1) \o b[to][field]
  <1>1. PICK f : f = CatBody(b, field, from, to, f) /\ Concatenated(b, field, from, to) = f[to]
    BY ConcatenatedDef
  <1>2. PICK g : g = CatBody(b, field, from, to - 1, g) /\ Concatenated(b, field, from, to - 1) = g[to - 1]
    BY ConcatenatedDef
  <1> DEFINE last == to - 1
  <1>6. last \in Int /\ from - 1 <= last /\ last <= to OBVIOUS
  <1> HIDE DEF last
  <1>7. \A h \in from - 1 .. last : g[h] = f[h]
    <2>1. g = CatBody(b, field, from, last, g) BY <1>2 DEF last
    <2> DEFINE c == b
    <2>2. f = CatBody(c, field, from, to, f) BY <1>1
    <2>3. \A h \in from .. last : b[h][field] = c[h][field] OBVIOUS
    <2> HIDE DEF c
    <2> QED BY <1>6, <2>1, <2>2, <2>3, CatUnique
  <1>3. g[to - 1] = f[to - 1] BY <1>6, <1>7 DEF last
  <1>4. f[to] = Joined(f[to - 1], b[to][field]) BY <1>1 DEF CatBody
  <1>5. Concatenated(b, field, from, to) = Joined(Concatenated(b, field, from, to - 1), b[to][field])
    BY <1>1, <1>2, <1>3, <1>4
  <1> QED BY <1>5 DEF Joined

\* The blocks of the range have sequences of one type, and so has the result.
LEMMA CatType ==
  ASSUME NEW b, NEW field, NEW from \in Int, NEW to \in Int, from - 1 <= to,
         NEW S, \A h \in from .. to : b[h][field] \in Seq(S)
  PROVE  Concatenated(b, field, from, to) \in Seq(S)
  <1> DEFINE N == {n \in Nat : from - 1 + n <= to => Concatenated(b, field, from, from - 1 + n) \in Seq(S)}
  <1>1. 0 \in N
    <2>1. Concatenated(b, field, from, from - 1) = << >> BY CatEmpty
    <2>2. << >> \in Seq(S) BY EmptySeq
    <2>3. from - 1 + 0 = from - 1 OBVIOUS
    <2> QED BY <2>1, <2>2, <2>3
  <1>2. ASSUME NEW n \in Nat, n \in N PROVE n + 1 \in N
    <2> DEFINE m == from + n
    <2> SUFFICES ASSUME m <= to PROVE Concatenated(b, field, from, m) \in Seq(S)
      <3>1. from - 1 + (n + 1) = m OBVIOUS
      <3> QED BY <3>1
    <2>1. m \in Int /\ from <= m /\ m - 1 = from - 1 + n /\ m - 1 <= to /\ m \in from .. to OBVIOUS
    <2> HIDE DEF m
    <2>2. Concatenated(b, field, from, m) = Concatenated(b, field, from, m - 1) \o b[m][field]
      BY <2>1, CatStep
    <2>3. Concatenated(b, field, from, m - 1) \in Seq(S) BY <1>2, <2>1
    <2>4. b[m][field] \in Seq(S) BY <2>1
    <2> QED BY <2>2, <2>3, <2>4, ConcatProperties
  <1> HIDE DEF N
  <1>3. to - (from - 1) \in N BY <1>1, <1>2, NatSetInduction
  <1> QED BY <1>3 DEF N

\* A client that has the blocks up to mid asks for the rest.
LEMMA CatSplit ==
  ASSUME NEW b, NEW field, NEW from \in Int, NEW mid \in Int, NEW to \in Int,
         from - 1 <= mid, mid <= to, NEW S, \A h \in from .. to : b[h][field] \in Seq(S)
  PROVE  Concatenated(b, field, from, to) =
           Concatenated(b, field, from, mid) \o Concatenated(b, field, mid + 1, to)
  <1> DEFINE C(m, n) == Concatenated(b, field, m, n)
             N == {n \in Nat : mid + n <= to => C(from, mid + n) = C(from, mid) \o C(mid + 1, mid + n)}
  <1>1. C(from, mid) \in Seq(S)
    <2>1. \A h \in from .. mid : b[h][field] \in Seq(S) OBVIOUS
    <2> QED BY <2>1, CatType
  <1>2. 0 \in N
    <2> DEFINE m == mid + 1
    <2>1. m \in Int /\ m - 1 = mid /\ mid + 0 = mid OBVIOUS
    <2> HIDE DEF m
    <2>2. C(m, m - 1) = << >> BY <2>1, CatEmpty
    <2> HIDE DEF C
    <2>3. C(from, mid) \o << >> = C(from, mid) BY <1>1, ConcatEmptySeq
    <2> QED BY <2>1, <2>2, <2>3 DEF m
  <1>3. ASSUME NEW n \in Nat, n \in N PROVE n + 1 \in N
    <2> DEFINE m == mid + (n + 1)
               k == mid + 1
               l == m - 1
    <2> SUFFICES ASSUME m <= to PROVE C(from, m) = C(from, mid) \o C(k, m) OBVIOUS
    <2>1. /\ m \in Int /\ k \in Int /\ l \in Int /\ l = mid + n
          /\ from <= m /\ k <= m /\ k - 1 <= l /\ l <= to /\ m \in from .. to
          /\ \A h \in k .. l : h \in from .. to
      OBVIOUS
    <2> HIDE DEF m, k
    <2>2. C(from, m) = C(from, l) \o b[m][field] BY <2>1, CatStep
    <2>3. C(k, m) = C(k, l) \o b[m][field] BY <2>1, CatStep
    <2> HIDE DEF l
    <2>4. C(from, l) = C(from, mid) \o C(k, l) BY <1>3, <2>1 DEF k
    <2>5. C(k, l) \in Seq(S)
      <3>1. \A h \in k .. l : b[h][field] \in Seq(S) BY <2>1
      <3> QED BY <2>1, <3>1, CatType
    <2>6. b[m][field] \in Seq(S) BY <2>1
    <2> HIDE DEF C
    <2>7. \A x, y, z \in Seq(S) : (x \o y) \o z = x \o (y \o z) BY ConcatAssociative
    <2>8. (C(from, mid) \o C(k, l)) \o b[m][field] = C(from, mid) \o (C(k, l) \o b[m][field])
      BY <1>1, <2>5, <2>6, <2>7, Zenon
    <2> QED BY <2>2, <2>3, <2>4, <2>8, Zenon
  <1> HIDE DEF N
  <1>4. to - mid \in N BY <1>2, <1>3, NatSetInduction
  <1>5. mid + (to - mid) = to OBVIOUS
  <1> QED BY <1>4, <1>5 DEF N

-----------------------------------------------------------------------------
(* The invariant of an instance of the state at height h                   *)

\* Notes that can be in the tree, and their nullifiers.
Blindings == ({"mint"} \X Nat) \union ({tx.id : tx \in Txs} \X Nat)
NoteSet == {Note(c, b) : c \in Allocations, b \in Blindings}
NullifierSet == Nat \X NoteSet

\* What the compact blocks of the state say up to height h.
Outputs(a, h) == Concatenated(a.state.compact_block, "outputs", 0, h)
Announced(a, h) == Concatenated(a.state.compact_block, "nullifiers", 0, h)

\* The tree is what the blocks and the one in progress say, and the valid
\* anchors are the trees at the end of the blocks.
TreeOK(a, h) ==
  /\ h \in Int /\ h >= -1
  /\ a.nct \in Seq(NoteSet) /\ a.state.nct \in Seq(NoteSet)
  /\ a.block.outputs \in Seq(NoteSet) /\ a.block.nullifiers \in Seq(NullifierSet)
  /\ DOMAIN a.state.compact_block = 0 .. h
  /\ \A k \in 0 .. h : a.state.compact_block[k]["outputs"] \in Seq(NoteSet)
  /\ \A k \in 0 .. h : a.state.compact_block[k]["nullifiers"] \in Seq(NullifierSet)
  /\ a.state.nct = Outputs(a, h)
  /\ a.nct = a.state.nct \o a.block.outputs
  /\ DOMAIN a.state.valid_anchors = {Outputs(a, k) : k \in 0 .. h}

\* The transactions an instance has a spend of, and the nullifiers it announces.
Paid(a) == {tx \in Txs : \E nf \in DOMAIN a.state.spent : a.state.spent[nf] = tx.id}
AllAnnounced(a, h) == Announced(a, h) \o a.block.nullifiers

\* Every spent nullifier is announced once and is that of a note of the tree,
\* and a transaction with one spend recorded has all of them recorded.
SpendOK(a, h) ==
  /\ \A i, j \in DOMAIN AllAnnounced(a, h) : i # j => AllAnnounced(a, h)[i] # AllAnnounced(a, h)[j]
  /\ {AllAnnounced(a, h)[i] : i \in DOMAIN AllAnnounced(a, h)} = DOMAIN a.state.spent
  /\ \A nf \in DOMAIN a.state.spent : \E p \in DOMAIN a.nct : nf = <<p, a.nct[p]>>
  /\ \A t \in Paid(a) : \A i \in DOMAIN t.spends :
       <<t.spends[i], a.nct[t.spends[i]]>> \in DOMAIN a.state.spent

\* The value in an instance, and the property that it is what was minted.
Held(a) == SumFunction([p \in Unspent(a) |-> a.nct[p].amount])
ValueOK(a) ==
  /\ IsFiniteSet(Paid(a))
  /\ a.state.supply \in Int
  /\ Held(a) + FeesPaid(a) = a.state.supply

Good(a, h) == IsApp(a) /\ TreeOK(a, h) /\ SpendOK(a, h) /\ ValueOK(a)

\* Amounts are natural numbers.
LEMMA NoteAmount == ASSUME NEW n \in NoteSet PROVE n.amount \in Nat
  BY PoolAssumption DEF NoteSet, Note

\* Concatenation, positionwise.
LEMMA Concat ==
  ASSUME NEW S, NEW s \in Seq(S), NEW t \in Seq(S)
  PROVE  /\ s \o t \in Seq(S)
         /\ DOMAIN (s \o t) = 1 .. Len(s) + Len(t)
         /\ DOMAIN s = 1 .. Len(s) /\ DOMAIN t = 1 .. Len(t) /\ Len(s) \in Nat /\ Len(t) \in Nat
         /\ Len(s \o t) = Len(s) + Len(t)
         /\ \A i \in DOMAIN s : (s \o t)[i] = s[i]
         /\ \A i \in DOMAIN t : (s \o t)[Len(s) + i] = t[i]
  <1>1. s \o t \in Seq(S) /\ Len(s \o t) = Len(s) + Len(t) BY ConcatProperties
  <1>2. DOMAIN s = 1 .. Len(s) /\ DOMAIN t = 1 .. Len(t) /\ Len(s) \in Nat /\ Len(t) \in Nat
    BY LenProperties
  <1>3. DOMAIN (s \o t) = 1 .. Len(s) + Len(t) BY <1>1, LenProperties
  <1>4. \A i \in DOMAIN s : (s \o t)[i] = s[i] BY <1>2, ConcatProperties
  <1>5. \A i \in DOMAIN t : (s \o t)[Len(s) + i] = t[i] BY <1>2, ConcatProperties
  <1> QED BY <1>1, <1>2, <1>3, <1>4, <1>5

\* A sequence of n elements of S.
LEMMA SeqOf ==
  ASSUME NEW S, NEW n \in Nat, NEW f \in [1 .. n -> S] PROVE f \in Seq(S) /\ Len(f) = n
  BY SeqDef

\* The notes `new' were added to the tree and to the block.
Grown(a, b, new) ==
  /\ b.nct = a.nct \o new
  /\ b.block.outputs = a.block.outputs \o new
  /\ b.block.nullifiers = a.block.nullifiers
  /\ b.state.nct = a.state.nct
  /\ b.state.valid_anchors = a.state.valid_anchors
  /\ b.state.spent = a.state.spent
  /\ b.state.compact_block = a.state.compact_block

\* The sum of the amounts at a set of positions.
AmountsAt(s, P) == SumFunctionOnSet([p \in DOMAIN s |-> s[p].amount], P)

\* The value held is a sum over a finite set of positions of the tree.
LEMMA HeldIs ==
  ASSUME NEW a, a.nct \in Seq(NoteSet)
  PROVE  /\ IsFiniteSet(Unspent(a)) /\ Held(a) = AmountsAt(a.nct, Unspent(a)) /\ Held(a) \in Nat
         /\ IsFiniteSet(DOMAIN a.nct) /\ \A p \in DOMAIN a.nct : a.nct[p].amount \in Nat
  <1> DEFINE U == Unspent(a)
             v == [p \in U |-> a.nct[p].amount]
             w == [p \in DOMAIN a.nct |-> a.nct[p].amount]
  <1>1. DOMAIN a.nct = 1 .. Len(a.nct) /\ Len(a.nct) \in Nat BY LenProperties
  <1>2. IsFiniteSet(DOMAIN a.nct) BY <1>1, FS_Interval
  <1>3. U \subseteq DOMAIN a.nct BY DEF Unspent
  <1>4. IsFiniteSet(U) BY <1>2, <1>3, FS_Subset
  <1>5. \A p \in DOMAIN a.nct : a.nct[p].amount \in Nat
    <2> TAKE p \in DOMAIN a.nct
    <2>1. a.nct[p] \in NoteSet BY <1>1, ElementOfSeq
    <2> QED BY <2>1, NoteAmount
  <1> HIDE DEF U
  <1>6. \A p \in U : v[p] = w[p] /\ v[p] \in Nat BY <1>3, <1>5
  <1>7. DOMAIN v = U OBVIOUS
  <1> HIDE DEF v, w
  <1>8. SumFunctionOnSet(v, U) = SumFunctionOnSet(w, U) BY <1>4, <1>6, SumSame
  <1>9. SumFunctionOnSet(v, U) \in Nat BY <1>4, <1>6, SumType
  <1> QED BY <1>2, <1>4, <1>5, <1>7, <1>8, <1>9 DEF Held, AmountsAt, SumFunction, U, v, w

\* The amounts of a sequence that follows another.
LEMMA AmountsAfter ==
  ASSUME NEW s \in Seq(NoteSet), NEW new \in Seq(NoteSet)
  PROVE  /\ AmountsAt(s \o new, {Len(s) + i : i \in DOMAIN new}) = TotalAmount(new)
         /\ TotalAmount(new) \in Nat
         /\ IsFiniteSet({Len(s) + i : i \in DOMAIN new})
  <1> DEFINE u == s \o new
             f == [i \in DOMAIN new |-> Len(s) + i]
             v == [i \in DOMAIN new |-> new[i].amount]
             w == [p \in DOMAIN u |-> u[p].amount]
             D == DOMAIN new
  <1>1. D = 1 .. Len(new) /\ Len(new) \in Nat /\ Len(s) \in Nat BY LenProperties
  <1>2. IsFiniteSet(D) BY <1>1, FS_Interval
  <1>3. \A i \in D : Len(s) + i \in DOMAIN u /\ u[Len(s) + i] = new[i]
    <2>1. DOMAIN u = 1 .. Len(s) + Len(new) BY Concat
    <2>2. \A i \in D : u[Len(s) + i] = new[i] BY Concat
    <2> HIDE DEF u
    <2> QED BY <1>1, <2>1, <2>2
  <1>4. \A i \in D : new[i].amount \in Nat
    <2> TAKE i \in D
    <2>1. new[i] \in NoteSet BY <1>1, ElementOfSeq
    <2> QED BY <2>1, NoteAmount
  <1>5. \A i \in D : f[i] = Len(s) + i /\ v[i] = new[i].amount OBVIOUS
  <1> HIDE DEF u
  <1>6. \A i \in D : v[i] = w[f[i]] /\ v[i] \in Nat BY <1>3, <1>4
  <1>7. \A i, j \in D : f[i] = f[j] => i = j BY <1>1
  <1>8. {f[i] : i \in D} = {Len(s) + i : i \in D} BY <1>5
  <1>9. DOMAIN v = D OBVIOUS
  <1> HIDE DEF f, v, w, D
  <1>10. SumFunctionOnSet(v, D) = SumFunctionOnSet(w, {f[i] : i \in D}) BY <1>2, <1>6, <1>7, SumRename
  <1>11. SumFunctionOnSet(v, D) \in Nat BY <1>2, <1>6, SumType
  <1>12. IsFiniteSet({f[i] : i \in D})
    <2>1. f \in Surjection(D, {f[i] : i \in D}) BY DEF f, Surjection, D
    <2> QED BY <1>2, <2>1, FS_Surjection
  <1> QED BY <1>8, <1>9, <1>10, <1>11, <1>12 DEF AmountsAt, TotalAmount, SumFunction, u, v, w, D

\* Adding notes to the tree and to the block alike keeps them in agreement.
LEMMA GrownTree ==
  ASSUME NEW a, NEW b, NEW h, TreeOK(a, h), NEW new \in Seq(NoteSet), Grown(a, b, new)
  PROVE  TreeOK(b, h)
  <1>1. \A k : Outputs(b, k) = Outputs(a, k) BY DEF Grown, Outputs
  <1>2. b.nct = b.state.nct \o b.block.outputs
    <2>1. \A x, y, z \in Seq(NoteSet) : (x \o y) \o z = x \o (y \o z) BY ConcatAssociative, SMTT(30)
    <2>2. (a.state.nct \o a.block.outputs) \o new = a.state.nct \o (a.block.outputs \o new)
      BY <2>1, Zenon DEF TreeOK
    <2> QED BY <2>2 DEF TreeOK, Grown
  <1>3. b.nct \in Seq(NoteSet) /\ b.block.outputs \in Seq(NoteSet) BY ConcatProperties DEF TreeOK, Grown
  <1>4. DOMAIN b.state.valid_anchors = {Outputs(b, k) : k \in 0 .. h} BY <1>1 DEF TreeOK, Grown
  <1>5. b.state.nct = Outputs(b, h) BY <1>1 DEF TreeOK, Grown
  <1> QED BY <1>2, <1>3, <1>4, <1>5 DEF TreeOK, Grown

\* Notes are appended: what was at a position stays there.
LEMMA GrownKeeps ==
  ASSUME NEW a, NEW b, a.nct \in Seq(NoteSet), NEW new \in Seq(NoteSet), b.nct = a.nct \o new
  PROVE  \A p \in DOMAIN a.nct : p \in DOMAIN b.nct /\ b.nct[p] = a.nct[p]
  BY Concat

\* Adding notes changes nothing about what is spent.
LEMMA GrownSpend ==
  ASSUME NEW a, NEW b, NEW h, TreeOK(a, h), SpendOK(a, h), NEW new \in Seq(NoteSet), Grown(a, b, new)
  PROVE  SpendOK(b, h) /\ Paid(b) = Paid(a) /\ FeesPaid(b) = FeesPaid(a)
  <1>1. \A p \in DOMAIN a.nct : p \in DOMAIN b.nct /\ b.nct[p] = a.nct[p]
    BY GrownKeeps DEF TreeOK, Grown
  <1>2. AllAnnounced(b, h) = AllAnnounced(a, h) BY DEF AllAnnounced, Announced, Grown
  <1>3. Paid(b) = Paid(a) BY DEF Paid, Grown
  <1>4. FeesPaid(b) = FeesPaid(a) BY DEF FeesPaid, Grown
  <1>5. b.state.spent = a.state.spent BY DEF Grown
  <1>6. \A nf \in DOMAIN b.state.spent : \E p \in DOMAIN b.nct : nf = <<p, b.nct[p]>>
    BY <1>1, <1>5 DEF SpendOK
  <1>7. ASSUME NEW t \in Paid(b), NEW i \in DOMAIN t.spends
        PROVE  <<t.spends[i], b.nct[t.spends[i]]>> \in DOMAIN b.state.spent
    <2>1. <<t.spends[i], a.nct[t.spends[i]]>> \in DOMAIN a.state.spent BY <1>3, <1>7 DEF SpendOK
    <2>2. t.spends[i] \in DOMAIN a.nct BY <2>1 DEF SpendOK
    <2> QED BY <1>1, <1>5, <2>1, <2>2
  <1>8. /\ \A i, j \in DOMAIN AllAnnounced(b, h) : i # j => AllAnnounced(b, h)[i] # AllAnnounced(b, h)[j]
        /\ {AllAnnounced(b, h)[i] : i \in DOMAIN AllAnnounced(b, h)} = DOMAIN b.state.spent
    BY <1>2, <1>5 DEF SpendOK
  <1>9. SpendOK(b, h) BY <1>6, <1>7, <1>8 DEF SpendOK
  <1> QED BY <1>3, <1>4, <1>9

\* The coins at a set of positions of a tree.
CoinsAt(s, P) == {<<p, s[p]>> : p \in P}

\* In an instance that adds notes, the new ones are unspent and the old ones
\* are as spent as they were.
LEMMA GrownUnspent ==
  ASSUME NEW a, NEW b, NEW h, TreeOK(a, h), SpendOK(a, h), NEW new \in Seq(NoteSet), Grown(a, b, new)
  PROVE  LET P == {Len(a.nct) + i : i \in DOMAIN new}
         IN /\ P \intersect DOMAIN a.nct = {} /\ P \subseteq DOMAIN b.nct
            /\ Unspent(b) = Unspent(a) \union P
  <1> DEFINE P == {Len(a.nct) + i : i \in DOMAIN new}
             U == Unspent(a)
  <1>1. a.nct \in Seq(NoteSet) /\ b.nct \in Seq(NoteSet) BY GrownTree DEF TreeOK
  <1>2. \A p \in DOMAIN a.nct : p \in DOMAIN b.nct /\ b.nct[p] = a.nct[p]
    BY <1>1, GrownKeeps DEF Grown
  <1>3. /\ DOMAIN a.nct = 1 .. Len(a.nct) /\ DOMAIN new = 1 .. Len(new)
        /\ Len(a.nct) \in Nat /\ Len(new) \in Nat /\ DOMAIN b.nct = 1 .. Len(a.nct) + Len(new)
    BY <1>1, Concat DEF Grown
  <1>4. DOMAIN b.nct = DOMAIN a.nct \union P
    <2>1. \A p \in DOMAIN b.nct \ DOMAIN a.nct : p - Len(a.nct) \in DOMAIN new /\ p = Len(a.nct) + (p - Len(a.nct))
      BY <1>3
    <2>2. \A i \in DOMAIN new : Len(a.nct) + i \in DOMAIN b.nct BY <1>3
    <2> QED BY <1>2, <2>1, <2>2
  <1>5. \A p \in P : p \notin DOMAIN a.nct BY <1>3
  <1>6. ASSUME NEW p \in P PROVE p \in Unspent(b)
    <2>1. <<p, b.nct[p]>> \notin DOMAIN a.state.spent BY <1>5 DEF SpendOK
    <2> QED BY <1>4, <2>1 DEF Unspent, Grown
  <1>7. ASSUME NEW p \in DOMAIN a.nct PROVE p \in Unspent(b) <=> p \in U
    BY <1>2 DEF Unspent, Grown
  <1>8. Unspent(b) \subseteq DOMAIN b.nct /\ U \subseteq DOMAIN a.nct BY DEF Unspent
  <1> HIDE DEF P, U
  <1>9. Unspent(b) = U \union P BY <1>4, <1>6, <1>7, <1>8
  <1> QED BY <1>4, <1>5, <1>9 DEF P, U

\* The added notes are unspent: no nullifier is for a position beyond the tree.
LEMMA GrownHeld ==
  ASSUME NEW a, NEW b, NEW h, TreeOK(a, h), SpendOK(a, h), NEW new \in Seq(NoteSet), Grown(a, b, new)
  PROVE  Held(b) = Held(a) + TotalAmount(new)
  <1> DEFINE P == {Len(a.nct) + i : i \in DOMAIN new}
             U == Unspent(a)
  <1>1. a.nct \in Seq(NoteSet) /\ b.nct \in Seq(NoteSet) BY GrownTree DEF TreeOK
  <1>2. \A p \in DOMAIN a.nct : p \in DOMAIN b.nct /\ b.nct[p] = a.nct[p]
    BY <1>1, GrownKeeps DEF Grown
  <1>3. P \intersect DOMAIN a.nct = {} /\ Unspent(b) = U \union P BY GrownUnspent
  <1>4. Unspent(b) = U \union P BY <1>3
  <1>5. U \intersect P = {} BY <1>3 DEF Unspent
  <1>6. AmountsAt(b.nct, P) = TotalAmount(new) /\ IsFiniteSet(P) /\ TotalAmount(new) \in Nat
    BY <1>1, AmountsAfter DEF Grown
  <1>7. Held(b) = AmountsAt(b.nct, U \union P) /\ \A p \in DOMAIN b.nct : b.nct[p].amount \in Nat
    BY <1>1, <1>4, HeldIs
  <1>8. Held(a) = AmountsAt(a.nct, U) /\ IsFiniteSet(U) /\ Held(a) \in Nat BY <1>1, HeldIs
  <1>9. U \subseteq DOMAIN a.nct /\ U \union P \subseteq DOMAIN b.nct BY <1>4 DEF Unspent
  <1> HIDE DEF U, P
  <1>10. AmountsAt(b.nct, U) = AmountsAt(a.nct, U)
    <2> DEFINE v == [p \in DOMAIN b.nct |-> b.nct[p].amount]
               w == [p \in DOMAIN a.nct |-> a.nct[p].amount]
    <2>1. \A p \in U : v[p] = w[p] BY <1>2, <1>9
    <2> HIDE DEF v, w
    <2>2. SumFunctionOnSet(v, U) = SumFunctionOnSet(w, U) BY <1>8, <2>1, SumSame
    <2> QED BY <2>2 DEF AmountsAt, v, w
  <1>11. AmountsAt(b.nct, U \union P) = AmountsAt(b.nct, U) + AmountsAt(b.nct, P)
    <2> DEFINE v == [p \in DOMAIN b.nct |-> b.nct[p].amount]
    <2>1. \A p \in U \union P : v[p] \in Int BY <1>7, <1>9
    <2> HIDE DEF v
    <2>2. SumFunctionOnSet(v, U \union P) = SumFunctionOnSet(v, U) + SumFunctionOnSet(v, P)
      BY <1>5, <1>6, <1>8, <2>1, SumUnion
    <2> QED BY <2>2 DEF AmountsAt, v
  <1> QED BY <1>6, <1>7, <1>8, <1>10, <1>11

\* A valid anchor is the beginning of the tree.
LEMMA AnchorIsPrefix ==
  ASSUME NEW a, NEW h, TreeOK(a, h), NEW anchor \in DOMAIN a.state.valid_anchors
  PROVE  /\ anchor \in Seq(NoteSet)
         /\ \A p \in DOMAIN anchor : p \in DOMAIN a.nct /\ a.nct[p] = anchor[p]
  <1> DEFINE bs == a.state.compact_block
  <1>1. PICK k \in 0 .. h : anchor = Outputs(a, k) BY DEF TreeOK
  <1>2. h \in Int /\ k \in Int /\ -1 <= k /\ k <= h /\ k <= h + 0 /\ (k + 1) - 1 <= h BY DEF TreeOK
  <1>3. \A i \in 0 .. h : bs[i]["outputs"] \in Seq(NoteSet) BY DEF TreeOK
  <1> HIDE DEF bs
  <1> DEFINE rest == Concatenated(bs, "outputs", k + 1, h)
  <1>4. Outputs(a, h) = anchor \o rest
    <2>1. 0 - 1 <= k BY <1>2
    <2>2. Concatenated(bs, "outputs", 0, h) =
            Concatenated(bs, "outputs", 0, k) \o Concatenated(bs, "outputs", k + 1, h)
      BY <1>2, <1>3, <2>1, CatSplit
    <2> QED BY <1>1, <2>2 DEF Outputs, bs
  <1>5. anchor \in Seq(NoteSet)
    <2>1. \A i \in 0 .. k : bs[i]["outputs"] \in Seq(NoteSet) BY <1>2, <1>3
    <2>2. 0 - 1 <= k BY <1>2
    <2> QED BY <1>1, <1>2, <2>1, <2>2, CatType DEF Outputs, bs
  <1>6. rest \in Seq(NoteSet)
    <2> DEFINE m == k + 1
    <2>1. m \in Int /\ m - 1 <= h /\ \A i \in m .. h : i \in 0 .. h BY <1>2
    <2> HIDE DEF m
    <2>2. \A i \in m .. h : bs[i]["outputs"] \in Seq(NoteSet) BY <1>3, <2>1
    <2>3. Concatenated(bs, "outputs", m, h) \in Seq(NoteSet) BY <1>2, <2>1, <2>2, CatType
    <2> QED BY <2>3 DEF m
  <1> HIDE DEF rest
  <1>7. a.state.nct = anchor \o rest BY <1>4 DEF TreeOK
  <1>8. /\ a.state.nct \in Seq(NoteSet) /\ a.block.outputs \in Seq(NoteSet)
        /\ a.nct = a.state.nct \o a.block.outputs
    BY DEF TreeOK
  <1>9. \A p \in DOMAIN anchor : p \in DOMAIN a.state.nct /\ a.state.nct[p] = anchor[p]
    BY <1>5, <1>6, <1>7, Concat
  <1>10. \A p \in DOMAIN a.state.nct : p \in DOMAIN a.nct /\ a.nct[p] = a.state.nct[p]
    <2> DEFINE x == a.state.nct
               y == a.block.outputs
    <2>1. x \in Seq(NoteSet) /\ y \in Seq(NoteSet) /\ a.nct = x \o y BY <1>8
    <2> HIDE DEF x, y
    <2>2. \A p \in DOMAIN x : p \in DOMAIN (x \o y) /\ (x \o y)[p] = x[p] BY <2>1, Concat
    <2> QED BY <2>1, <2>2 DEF x
  <1> QED BY <1>5, <1>9, <1>10

\* What the checks of a transaction establish about the tree it is executed on.
Spendable(a, tx) ==
  /\ \A i \in DOMAIN tx.spends :
       tx.spends[i] \in DOMAIN a.nct /\ <<tx.spends[i], a.nct[tx.spends[i]]>> \notin DOMAIN a.state.spent
  /\ \A i, j \in DOMAIN tx.spends : i # j => tx.spends[i] # tx.spends[j]

\* A proof against an old tree is about the notes that are still at those positions.
LEMMA CheckedSpendable ==
  ASSUME NEW a, NEW h, TreeOK(a, h), NEW tx, NEW anchor, CheckTx(a, tx, anchor)
  PROVE  /\ Spendable(a, tx)
         /\ Nullifiers(tx, anchor) = Nullifiers(tx, a.nct)
         /\ BindingSigVerifies(tx, a.nct)
  <1> DEFINE D == DOMAIN tx.spends
             s == tx.spends
  <1>1. anchor \in DOMAIN a.state.valid_anchors
    BY DEF CheckTx, CheckTxStateful, CheckClaimedAnchor
  <1>2. \A p \in DOMAIN anchor : p \in DOMAIN a.nct /\ a.nct[p] = anchor[p] BY <1>1, AnchorIsPrefix
  <1>3. \A i \in D : s[i] \in DOMAIN anchor BY DEF CheckTx, CheckTxStateless, SpendsVerify
  <1>4. \A i \in D : s[i] \in DOMAIN a.nct /\ a.nct[s[i]] = anchor[s[i]] BY <1>2, <1>3
  <1>5. Nullifiers(tx, anchor) = Nullifiers(tx, a.nct) BY <1>4 DEF Nullifiers
  <1>6. \A i \in D : Nullifiers(tx, anchor)[i] = <<s[i], a.nct[s[i]]>> BY <1>4 DEF Nullifiers
  <1>7. \A i \in D : Nullifiers(tx, anchor)[i] \notin DOMAIN a.state.spent
    BY DEF CheckTx, CheckTxStateful, CheckNullifierUnspent
  <1>8. \A i, j \in D : i # j => Nullifiers(tx, anchor)[i] # Nullifiers(tx, anchor)[j]
    BY DEF CheckTx, CheckTxStateless
  <1>9. [i \in D |-> anchor[s[i]].amount] = [i \in D |-> a.nct[s[i]].amount] BY <1>4
  <1>10. BindingSigVerifies(tx, a.nct)
    BY <1>9 DEF CheckTx, CheckTxStateless, BindingSigVerifies
  <1>11. Spendable(a, tx) BY <1>4, <1>6, <1>7, <1>8 DEF Spendable
  <1> QED BY <1>5, <1>10, <1>11

\* The nullifiers of tx were written to the state and to the block.
Charged(a, b, tx) ==
  /\ b.nct = a.nct
  /\ b.block.outputs = a.block.outputs
  /\ b.block.nullifiers = a.block.nullifiers \o Nullifiers(tx, a.nct)
  /\ b.state.nct = a.state.nct
  /\ b.state.valid_anchors = a.state.valid_anchors
  /\ b.state.compact_block = a.state.compact_block
  /\ b.state.spent =
       PutAll(a.state.spent, {Nullifiers(tx, a.nct)[i] : i \in DOMAIN Nullifiers(tx, a.nct)}, tx.id)

\* The nullifiers of a transaction, as a sequence and as a set.
LEMMA NullifiersAre ==
  ASSUME NEW a, a.nct \in Seq(NoteSet), NEW tx \in Txs, Spendable(a, tx)
  PROVE  /\ Nullifiers(tx, a.nct) \in Seq(NullifierSet)
         /\ DOMAIN Nullifiers(tx, a.nct) = DOMAIN tx.spends
         /\ IsFiniteSet(DOMAIN tx.spends)
         /\ \A i \in DOMAIN tx.spends : Nullifiers(tx, a.nct)[i] = <<tx.spends[i], a.nct[tx.spends[i]]>>
  <1> DEFINE s == tx.spends
             n == Nullifiers(tx, a.nct)
  <1>1. s \in Seq(Nat \ {0}) BY NodeAssumption DEF Transaction
  <1>2. DOMAIN s = 1 .. Len(s) /\ Len(s) \in Nat BY <1>1, LenProperties
  <1>3. DOMAIN n = DOMAIN s /\ \A i \in DOMAIN s : n[i] = <<s[i], a.nct[s[i]]>> BY DEF Nullifiers
  <1>4. \A i \in DOMAIN s : s[i] \in Nat /\ a.nct[s[i]] \in NoteSet
    <2> TAKE i \in DOMAIN s
    <2>1. s[i] \in DOMAIN a.nct BY DEF Spendable
    <2>2. DOMAIN a.nct = 1 .. Len(a.nct) /\ Len(a.nct) \in Nat BY LenProperties
    <2>3. a.nct[s[i]] \in NoteSet BY <2>1, <2>2, ElementOfSeq
    <2> QED BY <2>1, <2>2, <2>3
  <1>5. n \in [1 .. Len(s) -> NullifierSet]
    <2>1. \A i \in DOMAIN s : <<s[i], a.nct[s[i]]>> \in NullifierSet BY <1>4 DEF NullifierSet
    <2> QED BY <1>2, <2>1 DEF Nullifiers
  <1>6. n \in Seq(NullifierSet) BY <1>2, <1>5, SeqOf
  <1>7. IsFiniteSet(DOMAIN s) BY <1>2, FS_Interval
  <1> QED BY <1>3, <1>6, <1>7

\* Writing nullifiers leaves the tree and the anchors alone.
LEMMA ChargedTree ==
  ASSUME NEW a, NEW b, NEW h, TreeOK(a, h), NEW tx \in Txs, Spendable(a, tx), Charged(a, b, tx)
  PROVE  TreeOK(b, h)
  <1>1. \A k : Outputs(b, k) = Outputs(a, k) BY DEF Charged, Outputs
  <1>2. a.block.nullifiers \in Seq(NullifierSet) /\ Nullifiers(tx, a.nct) \in Seq(NullifierSet)
    BY NullifiersAre DEF TreeOK
  <1>3. b.block.nullifiers \in Seq(NullifierSet) BY <1>2, ConcatProperties DEF Charged
  <1>4. DOMAIN b.state.valid_anchors = {Outputs(b, k) : k \in 0 .. h} BY <1>1 DEF TreeOK, Charged
  <1>5. b.state.nct = Outputs(b, h) BY <1>1 DEF TreeOK, Charged
  <1> QED BY <1>3, <1>4, <1>5 DEF TreeOK, Charged

\* Sequences without repetitions, with no element in common.
LEMMA ConcatDistinct ==
  ASSUME NEW S, NEW s \in Seq(S), NEW t \in Seq(S),
         \A i, j \in DOMAIN s : i # j => s[i] # s[j],
         \A i, j \in DOMAIN t : i # j => t[i] # t[j],
         \A i \in DOMAIN s, j \in DOMAIN t : s[i] # t[j]
  PROVE  \A i, j \in DOMAIN (s \o t) : i # j => (s \o t)[i] # (s \o t)[j]
  <1> DEFINE u == s \o t
  <1>1. /\ DOMAIN u = 1 .. Len(s) + Len(t)
        /\ DOMAIN s = 1 .. Len(s) /\ DOMAIN t = 1 .. Len(t) /\ Len(s) \in Nat /\ Len(t) \in Nat
        /\ \A i \in DOMAIN s : u[i] = s[i]
        /\ \A i \in DOMAIN t : u[Len(s) + i] = t[i]
    BY Concat
  <1> HIDE DEF u
  <1>2. \A i \in DOMAIN u : \/ i \in DOMAIN s /\ u[i] = s[i]
                            \/ i - Len(s) \in DOMAIN t /\ u[i] = t[i - Len(s)]
    <2> TAKE i \in DOMAIN u
    <2>1. CASE i <= Len(s) BY <1>1, <2>1
    <2>2. CASE i > Len(s)
      <3> DEFINE j == i - Len(s)
      <3>1. j \in DOMAIN t /\ i = Len(s) + j BY <1>1, <2>2
      <3> HIDE DEF j
      <3>2. u[i] = t[j] BY <1>1, <3>1
      <3> QED BY <3>1, <3>2 DEF j
    <2> QED BY <1>1, <2>1, <2>2
  <1>3. \A i, j \in DOMAIN u : i # j => i - Len(s) # j - Len(s) BY <1>1
  <1>4. \A i, j \in DOMAIN u : i # j => u[i] # u[j] BY <1>2, <1>3
  <1> QED BY <1>4 DEF u

\* The announced nullifiers are nullifiers of notes.
LEMMA AnnouncedType ==
  ASSUME NEW a, NEW h, TreeOK(a, h)
  PROVE  Announced(a, h) \in Seq(NullifierSet) /\ AllAnnounced(a, h) \in Seq(NullifierSet)
  <1> DEFINE bs == a.state.compact_block
  <1>1. h \in Int /\ 0 - 1 <= h /\ \A i \in 0 .. h : bs[i]["nullifiers"] \in Seq(NullifierSet) BY DEF TreeOK
  <1>2. Announced(a, h) \in Seq(NullifierSet)
    <2> HIDE DEF bs
    <2>1. Concatenated(bs, "nullifiers", 0, h) \in Seq(NullifierSet) BY <1>1, CatType
    <2> QED BY <2>1 DEF Announced, bs
  <1> QED BY <1>2, ConcatProperties DEF AllAnnounced, TreeOK

\* The executed transaction and only it gets paid for.
LEMMA ChargedPaid ==
  ASSUME NEW a, NEW b, NEW h, SpendOK(a, h), NEW tx \in Txs, a.nct \in Seq(NoteSet),
         Spendable(a, tx), Charged(a, b, tx)
  PROVE  /\ DOMAIN tx.spends = {} => Paid(b) = Paid(a)
         /\ DOMAIN tx.spends # {} => tx \notin Paid(a) /\ Paid(b) = Paid(a) \union {tx}
  <1> DEFINE s == tx.spends
             n == Nullifiers(tx, a.nct)
             new == {n[i] : i \in DOMAIN n}
             old == a.state.spent
             now == b.state.spent
  <1>1. DOMAIN n = DOMAIN s /\ \A i \in DOMAIN s : n[i] = <<s[i], a.nct[s[i]]>> BY NullifiersAre
  <1>2. now = PutAll(old, new, tx.id) BY DEF Charged
  <1>3. DOMAIN now = DOMAIN old \union new /\ \A x \in DOMAIN now : now[x] = IF x \in new THEN tx.id ELSE old[x]
    BY <1>2 DEF PutAll
  <1>4. \A x \in new : x \notin DOMAIN old BY <1>1, ZenonT(40) DEF Spendable
  <1>5. \A t \in Txs : t.id = tx.id => t = tx BY NodeAssumption
  <1>6. Paid(b) \subseteq Paid(a) \union {tx} BY <1>3, <1>5 DEF Paid
  <1>7. Paid(a) \subseteq Paid(b) BY <1>3, <1>4 DEF Paid
  <1>8. CASE DOMAIN s = {}
    <2>1. new = {} BY <1>1, <1>8
    <2>2. DOMAIN now = DOMAIN old /\ \A x \in DOMAIN now : now[x] = old[x] BY <1>3, <2>1
    <2> QED BY <1>8, <2>2 DEF Paid
  <1>9. CASE DOMAIN s # {}
    <2>1. PICK i \in DOMAIN s : TRUE BY <1>9
    <2>2. n[i] \in new /\ now[n[i]] = tx.id BY <1>1, <1>3, <2>1
    <2>3. tx \in Paid(b) BY <1>3, <2>2 DEF Paid
    <2>4. tx \notin Paid(a) BY <1>1, <1>4, <2>1, <2>2, ZenonT(40) DEF SpendOK
    <2> QED BY <1>6, <1>7, <1>9, <2>3, <2>4
  <1> QED BY <1>8, <1>9

\* What a transaction spends is announced once, and stays attributed to it.
LEMMA ChargedSpend ==
  ASSUME NEW a, NEW b, NEW h, TreeOK(a, h), SpendOK(a, h), NEW tx \in Txs,
         Spendable(a, tx), Charged(a, b, tx)
  PROVE  SpendOK(b, h)
  <1> DEFINE s == tx.spends
             n == Nullifiers(tx, a.nct)
             new == {n[i] : i \in DOMAIN n}
             all == AllAnnounced(a, h)
  <1>1. a.nct \in Seq(NoteSet) /\ b.nct = a.nct BY DEF TreeOK, Charged
  <1>2. /\ n \in Seq(NullifierSet) /\ DOMAIN n = DOMAIN s
        /\ \A i \in DOMAIN s : n[i] = <<s[i], a.nct[s[i]]>>
    BY <1>1, NullifiersAre
  <1>3. all \in Seq(NullifierSet) /\ Announced(a, h) \in Seq(NullifierSet) BY AnnouncedType
  <1>4. AllAnnounced(b, h) = all \o n
    <2>1. \A x, y, z \in Seq(NullifierSet) : (x \o y) \o z = x \o (y \o z) BY ConcatAssociative
    <2>2. a.block.nullifiers \in Seq(NullifierSet) BY DEF TreeOK
    <2>3. (Announced(a, h) \o a.block.nullifiers) \o n = Announced(a, h) \o (a.block.nullifiers \o n)
      BY <1>2, <1>3, <2>1, <2>2, Zenon
    <2>4. Announced(b, h) = Announced(a, h) BY DEF Announced, Charged
    <2>5. b.block.nullifiers = a.block.nullifiers \o n BY DEF Charged
    <2> QED BY <2>3, <2>4, <2>5 DEF AllAnnounced
  <1>5. DOMAIN b.state.spent = DOMAIN a.state.spent \union new BY DEF Charged, PutAll
  <1>6. \A x \in new : x \notin DOMAIN a.state.spent BY <1>2, ZenonT(40) DEF Spendable
  <1>7. {all[i] : i \in DOMAIN all} = DOMAIN a.state.spent BY DEF SpendOK
  <1>8. \A i, j \in DOMAIN all : i # j => all[i] # all[j] BY DEF SpendOK
  <1>9. \A i, j \in DOMAIN n : i # j => n[i] # n[j]
    <2>1. \A i, j \in DOMAIN n : i # j => s[i] # s[j] BY <1>2 DEF Spendable
    <2>2. \A i \in DOMAIN n : n[i][1] = s[i] BY <1>2
    <2> HIDE DEF n
    <2> QED BY <2>1, <2>2
  <1> HIDE DEF n, all
  <1>10. \A i \in DOMAIN all, j \in DOMAIN n : all[i] # n[j] BY <1>6, <1>7
  <1>11. \A i, j \in DOMAIN (all \o n) : i # j => (all \o n)[i] # (all \o n)[j]
    BY <1>2, <1>3, <1>8, <1>9, <1>10, ConcatDistinct, SMTT(30)
  <1>12. {(all \o n)[i] : i \in DOMAIN (all \o n)} = {all[i] : i \in DOMAIN all} \union new
    <2>1. Range(all \o n) = Range(all) \union Range(n) BY <1>2, <1>3, RangeConcatenation
    <2> QED BY <2>1 DEF Range
  <1>13. \A nf \in DOMAIN b.state.spent : \E p \in DOMAIN b.nct : nf = <<p, b.nct[p]>>
    <2> TAKE nf \in DOMAIN b.state.spent
    <2>1. CASE nf \in DOMAIN a.state.spent BY <1>1, <2>1 DEF SpendOK
    <2>2. CASE nf \in new
      <3>1. PICK i \in DOMAIN s : nf = <<s[i], a.nct[s[i]]>> BY <1>2, <2>2
      <3>2. s[i] \in DOMAIN a.nct BY DEF Spendable
      <3> QED BY <1>1, <3>1, <3>2
    <2> QED BY <1>5, <2>1, <2>2
  <1>14. ASSUME NEW t \in Paid(b), NEW i \in DOMAIN t.spends
         PROVE  <<t.spends[i], b.nct[t.spends[i]]>> \in DOMAIN b.state.spent
    <2>1. CASE t \in Paid(a) BY <1>1, <1>5, <1>14, <2>1 DEF SpendOK
    <2>2. CASE t = tx BY <1>1, <1>2, <1>5, <1>14, <2>2
    <2>3. t \in Paid(a) \/ t = tx BY <1>1, ChargedPaid
    <2> QED BY <2>1, <2>2, <2>3
  <1>15. /\ \A i, j \in DOMAIN AllAnnounced(b, h) : i # j => AllAnnounced(b, h)[i] # AllAnnounced(b, h)[j]
         /\ {AllAnnounced(b, h)[i] : i \in DOMAIN AllAnnounced(b, h)} = DOMAIN b.state.spent
    <2> DEFINE w == all \o n
    <2>1. {w[i] : i \in DOMAIN w} = DOMAIN b.state.spent BY <1>5, <1>7, <1>12
    <2>2. \A i, j \in DOMAIN w : i # j => w[i] # w[j] BY <1>11
    <2>3. AllAnnounced(b, h) = w BY <1>4
    <2> HIDE DEF w
    <2> QED BY <2>1, <2>2, <2>3
  <1> QED BY <1>13, <1>14, <1>15 DEF SpendOK

\* The value a transaction takes out of the tree.
SpentAmount(tx, nct) == SumFunction([i \in DOMAIN tx.spends |-> nct[tx.spends[i]].amount])

\* A transaction's spends leave the unspent notes and join the nullifiers.
LEMMA ChargedUnspent ==
  ASSUME NEW a, NEW b, NEW h, TreeOK(a, h), NEW tx \in Txs, Spendable(a, tx), Charged(a, b, tx)
  PROVE  LET Q == {tx.spends[i] : i \in DOMAIN tx.spends}
         IN /\ Q \subseteq Unspent(a) /\ Unspent(b) = Unspent(a) \ Q
            /\ DOMAIN b.state.spent = DOMAIN a.state.spent \union CoinsAt(a.nct, Q)
            /\ AmountsAt(a.nct, Q) = SpentAmount(tx, a.nct)
  <1> DEFINE s == tx.spends
             D == DOMAIN s
             Q == {s[i] : i \in D}
             n == Nullifiers(tx, a.nct)
             v == [i \in D |-> a.nct[s[i]].amount]
             w == [p \in DOMAIN a.nct |-> a.nct[p].amount]
  <1>1. a.nct \in Seq(NoteSet) /\ b.nct = a.nct BY DEF TreeOK, Charged
  <1>2. DOMAIN n = D /\ IsFiniteSet(D) /\ \A i \in D : n[i] = <<s[i], a.nct[s[i]]>>
    BY <1>1, NullifiersAre
  <1>3. \A i \in D : s[i] \in DOMAIN a.nct /\ <<s[i], a.nct[s[i]]>> \notin DOMAIN a.state.spent
    BY DEF Spendable
  <1>4. DOMAIN b.state.spent = DOMAIN a.state.spent \union {n[i] : i \in DOMAIN n} BY DEF Charged, PutAll
  <1>5. {n[i] : i \in DOMAIN n} = CoinsAt(a.nct, Q)
    <2> HIDE DEF n
    <2> QED BY <1>2 DEF CoinsAt
  <1>6. \A p \in DOMAIN a.nct : <<p, a.nct[p]>> \in CoinsAt(a.nct, Q) <=> p \in Q
    <2> HIDE DEF Q
    <2> QED BY DEF CoinsAt
  <1>7. Q \subseteq Unspent(a) BY <1>3 DEF Unspent
  <1>8. Unspent(b) = Unspent(a) \ Q
    <2> HIDE DEF Q, n
    <2> QED BY <1>1, <1>4, <1>5, <1>6 DEF Unspent
  <1>9. \A i \in D : v[i] = w[s[i]] BY <1>3
  <1>10. \A p \in DOMAIN a.nct : w[p] \in Nat BY <1>1, HeldIs
  <1>11. \A i \in D : v[i] \in Int
    <2>1. \A i \in D : w[s[i]] \in Nat BY <1>3, <1>10
    <2>2. \A x \in Nat : x \in Int OBVIOUS
    <2> HIDE DEF w, v
    <2> QED BY <1>9, <2>1, <2>2
  <1>12. \A i, j \in D : s[i] = s[j] => i = j BY DEF Spendable
  <1>13. SpentAmount(tx, a.nct) = SumFunctionOnSet(v, D) BY DEF SpentAmount, SumFunction
  <1>14. SumFunctionOnSet(v, D) = SumFunctionOnSet(w, Q)
    <2>1. \A i \in D : v[i] = w[s[i]] /\ v[i] \in Int BY <1>9, <1>11
    <2> HIDE DEF s, D, v, w
    <2> QED BY <1>2, <1>12, <2>1, SumRename
  <1>15. AmountsAt(a.nct, Q) = SpentAmount(tx, a.nct) BY <1>13, <1>14 DEF AmountsAt
  <1> QED BY <1>4, <1>5, <1>7, <1>8, <1>15

\* A transaction takes out the amounts of the notes it spends, each once.
LEMMA ChargedHeld ==
  ASSUME NEW a, NEW b, NEW h, TreeOK(a, h), NEW tx \in Txs, Spendable(a, tx), Charged(a, b, tx)
  PROVE  /\ Held(a) = Held(b) + SpentAmount(tx, a.nct) /\ SpentAmount(tx, a.nct) \in Nat
         /\ DOMAIN tx.spends = {} => SpentAmount(tx, a.nct) = 0
  <1> DEFINE Q == {tx.spends[i] : i \in DOMAIN tx.spends}
             U == Unspent(a)
             R == Unspent(b)
             w == [p \in DOMAIN a.nct |-> a.nct[p].amount]
  <1>1. a.nct \in Seq(NoteSet) /\ b.nct = a.nct BY DEF TreeOK, Charged
  <1>2. Q \subseteq U /\ R = U \ Q /\ SumFunctionOnSet(w, Q) = SpentAmount(tx, a.nct)
    <2>1. /\ Q \subseteq Unspent(a) /\ Unspent(b) = Unspent(a) \ Q
          /\ DOMAIN b.state.spent = DOMAIN a.state.spent \union CoinsAt(a.nct, Q)
          /\ AmountsAt(a.nct, Q) = SpentAmount(tx, a.nct)
      BY ChargedUnspent
    <2> HIDE DEF Q
    <2> QED BY <2>1 DEF AmountsAt
  <1>3. U \subseteq DOMAIN a.nct BY DEF Unspent
  <1>4. /\ IsFiniteSet(U) /\ Held(a) = SumFunctionOnSet(w, U) /\ Held(a) \in Nat
        /\ \A p \in DOMAIN a.nct : w[p] \in Nat
    BY <1>1, HeldIs DEF AmountsAt
  <1>5. IsFiniteSet(R) /\ Held(b) = SumFunctionOnSet(w, R) /\ Held(b) \in Nat
    BY <1>1, HeldIs DEF AmountsAt
  <1>6. DOMAIN tx.spends = {} => Q = {} OBVIOUS
  <1> HIDE DEF w, U, R, Q
  <1>7. U = R \union Q /\ R \intersect Q = {} BY <1>2
  <1>8. IsFiniteSet(Q) BY <1>2, <1>4, FS_Subset
  <1>9. SumFunctionOnSet(w, R \union Q) = SumFunctionOnSet(w, R) + SumFunctionOnSet(w, Q)
    <2>1. \A p \in R \union Q : w[p] \in Int BY <1>3, <1>4, <1>7
    <2> QED BY <1>5, <1>7, <1>8, <2>1, SumUnion
  <1>10. SumFunctionOnSet(w, Q) \in Nat
    <2>1. \A p \in Q : w[p] \in Nat BY <1>2, <1>3, <1>4
    <2> QED BY <1>8, <2>1, SumType
  <1>11. Q = {} => SumFunctionOnSet(w, Q) = 0 BY SumEmpty
  <1> QED BY <1>2, <1>4, <1>5, <1>6, <1>7, <1>9, <1>10, <1>11

\* The fees of the paid transactions.
LEMMA FeesAre ==
  ASSUME NEW a, IsFiniteSet(Paid(a))
  PROVE  /\ FeesPaid(a) = SumFunctionOnSet([t \in Txs |-> t.fee], Paid(a)) /\ FeesPaid(a) \in Nat
         /\ \A t \in Txs : t.fee \in Nat
  <1> DEFINE P == Paid(a)
             v == [t \in P |-> t.fee]
             w == [t \in Txs |-> t.fee]
  <1>1. \A t \in Txs : t.fee \in Nat BY NodeAssumption DEF Transaction
  <1>2. P \subseteq Txs BY DEF Paid
  <1>3. FeesPaid(a) = SumFunctionOnSet(v, P) BY DEF FeesPaid, Paid, SumFunction
  <1> HIDE DEF P
  <1>4. \A t \in P : v[t] = w[t] /\ w[t] \in Nat BY <1>1, <1>2
  <1> HIDE DEF v, w
  <1>5. SumFunctionOnSet(v, P) = SumFunctionOnSet(w, P) BY <1>4, SumSame DEF P
  <1>6. SumFunctionOnSet(w, P) \in Nat BY <1>4, SumType DEF P
  <1> QED BY <1>1, <1>3, <1>5, <1>6 DEF P, w

\* A transaction that spends something pays its fee, and one that spends nothing
\* leaves no trace.
LEMMA ChargedFees ==
  ASSUME NEW a, NEW b, NEW h, SpendOK(a, h), NEW tx \in Txs, a.nct \in Seq(NoteSet),
         Spendable(a, tx), Charged(a, b, tx), IsFiniteSet(Paid(a))
  PROVE  /\ IsFiniteSet(Paid(b))
         /\ FeesPaid(b) = FeesPaid(a) + (IF DOMAIN tx.spends = {} THEN 0 ELSE tx.fee)
  <1> DEFINE w == [t \in Txs |-> t.fee]
             P == Paid(a)
  <1>1. FeesPaid(a) = SumFunctionOnSet(w, P) /\ FeesPaid(a) \in Nat /\ \A t \in Txs : t.fee \in Nat BY FeesAre
  <1>2. CASE DOMAIN tx.spends = {}
    <2>1. Paid(b) = P BY <1>2, ChargedPaid
    <2>2. FeesPaid(b) = SumFunctionOnSet(w, P) BY <2>1, FeesAre
    <2> QED BY <1>1, <1>2, <2>1, <2>2
  <1>3. CASE DOMAIN tx.spends # {}
    <2>1. Paid(b) = P \union {tx} /\ tx \notin P BY <1>3, ChargedPaid
    <2>2. IsFiniteSet(P \union {tx}) BY FS_AddElement
    <2>3. FeesPaid(b) = SumFunctionOnSet(w, P \union {tx}) BY <2>1, <2>2, FeesAre
    <2>4. \A t \in P \union {tx} : w[t] \in Int BY <1>1 DEF Paid
    <2>5. w[tx] = tx.fee OBVIOUS
    <2> HIDE DEF w, P
    <2>6. SumFunctionOnSet(w, P \union {tx}) = w[tx] + SumFunctionOnSet(w, P)
      BY <2>1, <2>4, SumAdd DEF P
    <2> QED BY <1>1, <1>3, <2>1, <2>2, <2>3, <2>5, <2>6
  <1> QED BY <1>2, <1>3

\* What the invariant does not speak about may change.
LEMMA SameGood ==
  ASSUME NEW a, NEW b, NEW h, Good(a, h), IsApp(b), b.nct = a.nct,
         b.block.outputs = a.block.outputs, b.block.nullifiers = a.block.nullifiers,
         b.state.nct = a.state.nct, b.state.valid_anchors = a.state.valid_anchors,
         b.state.spent = a.state.spent, b.state.compact_block = a.state.compact_block,
         b.state.supply = a.state.supply
  PROVE  Good(b, h)
  <1>1. \A k : Outputs(b, k) = Outputs(a, k) BY DEF Outputs
  <1>2. AllAnnounced(b, h) = AllAnnounced(a, h) BY DEF AllAnnounced, Announced
  <1>3. Paid(b) = Paid(a) /\ FeesPaid(b) = FeesPaid(a) BY DEF Paid, FeesPaid
  <1>4. Held(b) = Held(a) BY DEF Held, Unspent
  <1>5. TreeOK(b, h)
    <2>1. DOMAIN b.state.valid_anchors = {Outputs(b, k) : k \in 0 .. h} BY <1>1 DEF Good, TreeOK
    <2>2. b.state.nct = Outputs(b, h) BY <1>1 DEF Good, TreeOK
    <2> QED BY <2>1, <2>2 DEF Good, TreeOK
  <1>6. SpendOK(b, h)
    <2>1. /\ \A i, j \in DOMAIN AllAnnounced(b, h) : i # j => AllAnnounced(b, h)[i] # AllAnnounced(b, h)[j]
          /\ {AllAnnounced(b, h)[i] : i \in DOMAIN AllAnnounced(b, h)} = DOMAIN b.state.spent
      BY <1>2 DEF Good, SpendOK
    <2> QED BY <1>3, <2>1 DEF Good, SpendOK
  <1>7. ValueOK(b) BY <1>3, <1>4 DEF Good, ValueOK
  <1> QED BY <1>5, <1>6, <1>7 DEF Good

\* What add_note changes in the instance.
LEMMA AddNotesFields ==
  ASSUME NEW a, IsApp(a), NEW new, NEW source
  PROVE  LET b == AddNotes(a, new, source)
         IN /\ IsApp(b) /\ Grown(a, b, new) /\ b.state.supply = a.state.supply
            /\ b.state.height = a.state.height /\ b.block.height = a.block.height
  <1> DEFINE b == AddNotes(a, new, source)
  <1>1. IsApp(b) BY AddNotesSpent
  <1>2. /\ b.nct = a.nct \o new
        /\ b.block = [a.block EXCEPT !.outputs = @ \o new]
        /\ b.state = [a.state EXCEPT !.source = PutAll(@, {new[i] : i \in DOMAIN new}, source)]
    BY DEF AddNotes
  <1> HIDE DEF b
  <1>3. /\ b.block.outputs = a.block.outputs \o new
        /\ b.block.nullifiers = a.block.nullifiers /\ b.block.height = a.block.height
    BY <1>2 DEF IsApp, IsBlock
  <1>4. /\ b.state.nct = a.state.nct /\ b.state.valid_anchors = a.state.valid_anchors
        /\ b.state.spent = a.state.spent /\ b.state.compact_block = a.state.compact_block
        /\ b.state.supply = a.state.supply /\ b.state.height = a.state.height
    BY <1>2 DEF IsApp, IsState
  <1>5. Grown(a, b, new) BY <1>2, <1>3, <1>4 DEF Grown
  <1> QED BY <1>1, <1>3, <1>4, <1>5 DEF b

\* A note has the amount it was made with.
LEMMA NoteFields == ASSUME NEW c, NEW b PROVE Note(c, b).amount = c.amount
  BY DEF Note

\* The notes that mint_note makes.
Minted(a, minted) ==
  [i \in DOMAIN minted |-> Note(minted[i], <<"mint", LastPosition(Len(a.nct) + i - 1)>>)]

\* They are notes, of the amounts that were asked for.
LEMMA MintedNotes ==
  ASSUME NEW a, a.nct \in Seq(NoteSet), NEW minted \in Seq(Allocations)
  PROVE  Minted(a, minted) \in Seq(NoteSet) /\ TotalAmount(Minted(a, minted)) = TotalAmount(minted)
  <1> DEFINE m == Minted(a, minted)
             D == DOMAIN minted
  <1>1. D = 1 .. Len(minted) /\ Len(minted) \in Nat /\ Len(a.nct) \in Nat BY LenProperties
  <1>2. DOMAIN m = D /\ \A i \in D : m[i] = Note(minted[i], <<"mint", LastPosition(Len(a.nct) + i - 1)>>)
    BY DEF Minted
  <1>3. \A i \in D : m[i].amount = minted[i].amount BY <1>2, NoteFields
  <1>4. \A i \in D : m[i] \in NoteSet
    <2> TAKE i \in D
    <2>1. minted[i] \in Allocations BY <1>1, ElementOfSeq
    <2>2. LastPosition(Len(a.nct) + i - 1) \in Nat BY <1>1 DEF LastPosition
    <2>3. <<"mint", LastPosition(Len(a.nct) + i - 1)>> \in Blindings BY <2>2 DEF Blindings
    <2> QED BY <1>2, <2>1, <2>3 DEF NoteSet
  <1>5. m \in [1 .. Len(minted) -> NoteSet] BY <1>1, <1>2, <1>4 DEF Minted
  <1>6. m \in Seq(NoteSet) BY <1>1, <1>5, SeqOf
  <1>7. [i \in DOMAIN m |-> m[i].amount] = [i \in D |-> minted[i].amount] BY <1>2, <1>3
  <1> QED BY <1>6, <1>7 DEF TotalAmount

\* So are the outputs of a transaction.
LEMMA OutputNotesType ==
  ASSUME NEW tx \in Txs
  PROVE  OutputNotes(tx) \in Seq(NoteSet) /\ TotalAmount(OutputNotes(tx)) = TotalAmount(tx.outputs)
  <1> DEFINE o == tx.outputs
             m == OutputNotes(tx)
             D == DOMAIN o
  <1>1. o \in Seq(Allocations) BY NodeAssumption DEF Transaction
  <1>2. D = 1 .. Len(o) /\ Len(o) \in Nat BY <1>1, LenProperties
  <1>3. DOMAIN m = D /\ \A i \in D : m[i] = Note(o[i], <<tx.id, i>>) BY DEF OutputNotes
  <1>4. \A i \in D : m[i].amount = o[i].amount BY <1>3, NoteFields
  <1>5. \A i \in D : m[i] \in NoteSet
    <2> TAKE i \in D
    <2>1. o[i] \in Allocations BY <1>1, <1>2, ElementOfSeq
    <2>2. <<tx.id, i>> \in Blindings BY <1>2 DEF Blindings
    <2> QED BY <1>3, <2>1, <2>2 DEF NoteSet
  <1>6. m \in [1 .. Len(o) -> NoteSet] BY <1>2, <1>3, <1>5 DEF OutputNotes
  <1>7. m \in Seq(NoteSet) BY <1>2, <1>6, SeqOf
  <1>8. [i \in DOMAIN m |-> m[i].amount] = [i \in D |-> o[i].amount] BY <1>3, <1>4
  <1> QED BY <1>7, <1>8 DEF TotalAmount

\* Minting adds to the notes what it adds to the supply.
LEMMA MintGood ==
  ASSUME NEW a, NEW h, Good(a, h), NEW minted \in Seq(Allocations), NEW source
  PROVE  LET b == MintNotes(a, minted, source)
         IN /\ Good(b, h) /\ b.state.compact_block = a.state.compact_block
            /\ b.state.height = a.state.height /\ b.block.height = a.block.height
  <1> DEFINE c == [a EXCEPT !.state.supply = @ + TotalAmount(minted)]
             new == Minted(a, minted)
             b == AddNotes(c, new, source)
  <1>1. IsApp(a) /\ TreeOK(a, h) /\ SpendOK(a, h) /\ ValueOK(a) BY DEF Good
  <1>2. a.nct \in Seq(NoteSet) BY <1>1 DEF TreeOK
  <1>3. new \in Seq(NoteSet) /\ TotalAmount(new) = TotalAmount(minted) BY <1>2, MintedNotes
  <1>4. TotalAmount(new) \in Nat BY <1>2, <1>3, AmountsAfter
  <1>5. IsApp(c) BY <1>1 DEF IsApp, IsState, IsBlock
  <1>6. c.nct = a.nct /\ c.block = a.block BY <1>1 DEF IsApp, IsState, IsBlock
  <1>7. c.state.supply = a.state.supply + TotalAmount(minted) BY <1>1 DEF IsApp, IsState, IsBlock
  <1>8. /\ c.state.height = a.state.height /\ c.state.nct = a.state.nct
         /\ c.state.valid_anchors = a.state.valid_anchors
    BY <1>1 DEF IsApp, IsState, IsBlock
  <1>9. c.state.spent = a.state.spent /\ c.state.compact_block = a.state.compact_block
    BY <1>1 DEF IsApp, IsState, IsBlock
  <1>10. b = MintNotes(a, minted, source) BY DEF MintNotes, Minted
  <1> HIDE DEF c, new
  <1>11. /\ IsApp(b) /\ Grown(c, b, new) /\ b.state.supply = c.state.supply
        /\ b.state.height = c.state.height /\ b.block.height = c.block.height
    BY <1>5, AddNotesFields
  <1> HIDE DEF b
  <1>12. Grown(a, b, new) BY <1>6, <1>11, <1>8, <1>9 DEF Grown
  <1>13. TreeOK(b, h) BY <1>1, <1>3, <1>12, GrownTree
  <1>14. SpendOK(b, h) /\ Paid(b) = Paid(a) /\ FeesPaid(b) = FeesPaid(a) BY <1>1, <1>3, <1>12, GrownSpend
  <1>15. Held(b) = Held(a) + TotalAmount(new) BY <1>1, <1>3, <1>12, GrownHeld
  <1>16. Held(a) \in Nat /\ FeesPaid(a) \in Nat BY <1>1, <1>2, HeldIs, FeesAre DEF ValueOK
  <1>17. ValueOK(b) BY <1>1, <1>3, <1>4, <1>11, <1>14, <1>15, <1>16, <1>7 DEF ValueOK
  <1> QED BY <1>6, <1>10, <1>11, <1>12, <1>13, <1>14, <1>17, <1>8 DEF Good, Grown

\* What writing the nullifiers changes in the instance.
LEMMA SpendNullifiersFields ==
  ASSUME NEW a, IsApp(a), NEW tx
  PROVE  LET b == SpendNullifiers(a, Nullifiers(tx, a.nct), tx.id)
         IN /\ IsApp(b) /\ Charged(a, b, tx) /\ b.state.supply = a.state.supply
            /\ b.state.height = a.state.height /\ b.block.height = a.block.height
  <1> DEFINE n == Nullifiers(tx, a.nct)
             b == SpendNullifiers(a, n, tx.id)
  <1> HIDE DEF n
  <1>1. IsApp(b) BY DEF SpendNullifiers, IsApp, IsState, IsBlock
  <1>2. /\ b.nct = a.nct
        /\ b.block = [a.block EXCEPT !.nullifiers = @ \o n]
        /\ b.state = [a.state EXCEPT !.spent = PutAll(@, {n[i] : i \in DOMAIN n}, tx.id)]
    BY DEF SpendNullifiers
  <1> HIDE DEF b
  <1>3. /\ b.block.outputs = a.block.outputs
        /\ b.block.nullifiers = a.block.nullifiers \o n /\ b.block.height = a.block.height
    BY <1>2 DEF IsApp, IsBlock
  <1>4. /\ b.state.nct = a.state.nct /\ b.state.valid_anchors = a.state.valid_anchors
        /\ b.state.spent = PutAll(a.state.spent, {n[i] : i \in DOMAIN n}, tx.id)
        /\ b.state.compact_block = a.state.compact_block
        /\ b.state.supply = a.state.supply /\ b.state.height = a.state.height
    BY <1>2 DEF IsApp, IsState
  <1>5. Charged(a, b, tx) BY <1>2, <1>3, <1>4 DEF Charged, n
  <1> QED BY <1>1, <1>3, <1>4, <1>5 DEF b, n

\* A transaction that passes its checks takes from the tree what it adds and
\* its fee, which it pays once.
LEMMA ExecuteGood ==
  ASSUME NEW a, NEW h, Good(a, h), NEW tx \in Txs, NEW anchor, CheckTx(a, tx, anchor)
  PROVE  LET b == ExecuteTx(a, tx, anchor)
         IN /\ Good(b, h) /\ b.state.compact_block = a.state.compact_block
            /\ b.state.height = a.state.height /\ b.block.height = a.block.height
  <1> DEFINE new == OutputNotes(tx)
             c == AddNotes(a, new, tx.id)
             n == Nullifiers(tx, anchor)
             b == SpendNullifiers(c, n, tx.id)
             S == SpentAmount(tx, c.nct)
  <1>1. IsApp(a) /\ TreeOK(a, h) /\ SpendOK(a, h) /\ ValueOK(a) BY DEF Good
  <1>2. new \in Seq(NoteSet) /\ TotalAmount(new) = TotalAmount(tx.outputs) BY OutputNotesType
  <1>3. /\ IsApp(c) /\ Grown(a, c, new) /\ c.state.supply = a.state.supply
        /\ c.state.height = a.state.height /\ c.block.height = a.block.height
    BY <1>1, AddNotesFields
  <1>4. ExecuteTx(a, tx, anchor) = b BY DEF ExecuteTx
  <1> HIDE DEF c, new
  <1>5. TreeOK(c, h) BY <1>1, <1>2, <1>3, GrownTree
  <1>6. SpendOK(c, h) /\ Paid(c) = Paid(a) /\ FeesPaid(c) = FeesPaid(a) BY <1>1, <1>2, <1>3, GrownSpend
  <1>7. Held(c) = Held(a) + TotalAmount(new) BY <1>1, <1>2, <1>3, GrownHeld
  <1>8. CheckTx(c, tx, anchor)
    BY <1>3 DEF Grown, CheckTx, CheckTxStateful, CheckClaimedAnchor, CheckNullifierUnspent
  <1>9. Spendable(c, tx) /\ n = Nullifiers(tx, c.nct) /\ BindingSigVerifies(tx, c.nct)
    BY <1>5, <1>8, CheckedSpendable
  <1> HIDE DEF n
  <1>10. /\ IsApp(b) /\ Charged(c, b, tx) /\ b.state.supply = c.state.supply
         /\ b.state.height = c.state.height /\ b.block.height = c.block.height
    BY <1>3, <1>9, SpendNullifiersFields
  <1> HIDE DEF b
  <1>11. c.nct \in Seq(NoteSet) /\ a.nct \in Seq(NoteSet) BY <1>1, <1>5 DEF TreeOK
  <1>12. TreeOK(b, h) BY <1>5, <1>9, <1>10, ChargedTree
  <1>13. SpendOK(b, h) BY <1>5, <1>6, <1>9, <1>10, ChargedSpend
  <1>14. Held(c) = Held(b) + S /\ S \in Nat /\ (DOMAIN tx.spends = {} => S = 0)
    BY <1>5, <1>9, <1>10, ChargedHeld
  <1>15. IsFiniteSet(Paid(a)) /\ a.state.supply \in Int /\ Held(a) + FeesPaid(a) = a.state.supply
    BY <1>1 DEF ValueOK
  <1>16. IsFiniteSet(Paid(b)) /\ FeesPaid(b) = FeesPaid(c) + (IF DOMAIN tx.spends = {} THEN 0 ELSE tx.fee)
    BY <1>6, <1>9, <1>10, <1>11, <1>15, ChargedFees
  <1>17. S = TotalAmount(tx.outputs) + tx.fee BY <1>9 DEF BindingSigVerifies, SpentAmount
  <1>18. b.nct \in Seq(NoteSet) BY <1>12 DEF TreeOK
  <1>19. Held(a) \in Nat /\ Held(b) \in Nat BY <1>11, <1>18, HeldIs
  <1>20. FeesPaid(a) \in Nat /\ tx.fee \in Nat BY <1>15, FeesAre
  <1>21. TotalAmount(tx.outputs) \in Nat BY <1>2, <1>11, AmountsAfter
  <1> HIDE DEF S
  <1>22. Held(b) + FeesPaid(b) = a.state.supply
    <2> DEFINE x == Held(a)
               y == Held(b)
               f == FeesPaid(a)
               t == TotalAmount(tx.outputs)
    <2>1. x \in Nat /\ y \in Nat /\ f \in Nat /\ t \in Nat /\ tx.fee \in Nat BY <1>19, <1>20, <1>21
    <2>2. x + t = y + S /\ S = t + tx.fee BY <1>2, <1>7, <1>14, <1>17
    <2>3. a.state.supply = x + f BY <1>15
    <2>4. DOMAIN tx.spends = {} => S = 0 BY <1>14
    <2>5. FeesPaid(b) = f + (IF DOMAIN tx.spends = {} THEN 0 ELSE tx.fee) BY <1>6, <1>16
    <2> HIDE DEF x, y, f, t
    <2>6. CASE DOMAIN tx.spends = {}
      <3>1. S = 0 /\ t = 0 BY <2>1, <2>2, <2>4, <2>6
      <3>2. y = x /\ FeesPaid(b) = f BY <2>1, <2>2, <2>5, <2>6, <3>1
      <3> QED BY <2>3, <3>2 DEF y
    <2>7. CASE DOMAIN tx.spends # {}
      <3>1. FeesPaid(b) = f + tx.fee BY <2>5, <2>7
      <3>2. y + (f + tx.fee) = x + f BY <2>1, <2>2
      <3> QED BY <2>3, <3>1, <3>2 DEF y
    <2> QED BY <2>6, <2>7
  <1>23. ValueOK(b) BY <1>3, <1>10, <1>15, <1>16, <1>22 DEF ValueOK
  <1> QED BY <1>3, <1>4, <1>10, <1>12, <1>13, <1>23 DEF Good, Grown, Charged

\* What write_compactblock_and_nct changes in the instance.
LEMMA WriteFields ==
  ASSUME NEW a, IsApp(a)
  PROVE  LET b == WriteCompactBlockAndNct(a)
         IN /\ IsApp(b) /\ b.nct = a.nct /\ b.block = EmptyBlock /\ b.state.nct = a.nct
            /\ b.state.compact_block = Put(a.state.compact_block, a.block.height, a.block)
            /\ DOMAIN b.state.valid_anchors = DOMAIN a.state.valid_anchors \union {a.nct}
            /\ b.state.spent = a.state.spent /\ b.state.supply = a.state.supply
            /\ b.state.height = a.state.height /\ b = AppNew(b.state)
  <1> DEFINE b == WriteCompactBlockAndNct(a)
  <1>1. IsApp(b) BY WriteSpent
  <1>2. b.nct = a.nct /\ b.block = EmptyBlock BY DEF WriteCompactBlockAndNct
  <1>3. b.state = [a.state EXCEPT !.compact_block = Put(@, a.block.height, a.block),
                                  !.nct_anchor = Put(@, EmptyBlock.height, a.nct),
                                  !.valid_anchors = Put(@, a.nct, EmptyBlock.height),
                                  !.nct = a.nct]
    BY DEF WriteCompactBlockAndNct
  <1>4. b = [state |-> b.state, nct |-> b.nct, block |-> b.block] BY DEF WriteCompactBlockAndNct
  <1> HIDE DEF b
  <1>5. /\ b.state.nct = a.nct
        /\ b.state.compact_block = Put(a.state.compact_block, a.block.height, a.block)
    BY <1>3 DEF IsApp, IsState
  <1>6. b.state.valid_anchors = Put(a.state.valid_anchors, a.nct, EmptyBlock.height)
    BY <1>3 DEF IsApp, IsState
  <1>7. DOMAIN b.state.valid_anchors = DOMAIN a.state.valid_anchors \union {a.nct} BY <1>6 DEF Put
  <1>8. /\ b.state.spent = a.state.spent /\ b.state.supply = a.state.supply
        /\ b.state.height = a.state.height
    BY <1>3 DEF IsApp, IsState
  <1>9. b = AppNew(b.state) BY <1>2, <1>4, <1>5 DEF AppNew
  <1> QED BY <1>1, <1>2, <1>5, <1>7, <1>8, <1>9 DEF b

\* The blocks that were there are still the same.
Continues(new, old, h) == \A k \in 0 .. h : new[k] = old[k]

\* Later blocks do not change what the earlier ones say.
LEMMA SameOutputs ==
  ASSUME NEW a, NEW b, NEW h, NEW k \in Int, -1 <= k, h \in Int, k <= h,
         Continues(b.state.compact_block, a.state.compact_block, h)
  PROVE  Outputs(b, k) = Outputs(a, k) /\ Announced(b, k) = Announced(a, k)
  <1> DEFINE x == a.state.compact_block
             y == b.state.compact_block
  <1>1. \A i \in 0 .. k : y[i] = x[i] BY DEF Continues
  <1>2. 0 - 1 <= k OBVIOUS
  <1> HIDE DEF x, y
  <1>3. Concatenated(y, "outputs", 0, k) = Concatenated(x, "outputs", 0, k) BY <1>1, <1>2, CatSame
  <1>4. Concatenated(y, "nullifiers", 0, k) = Concatenated(x, "nullifiers", 0, k) BY <1>1, <1>2, CatSame
  <1> QED BY <1>3, <1>4 DEF Outputs, Announced, x, y

\* Writing the block ends it: everything announced is in a block now, and the
\* tree is a valid anchor.
LEMMA WriteGood ==
  ASSUME NEW a, NEW h, Good(a, h), a.block.height = h + 1
  PROVE  LET b == WriteCompactBlockAndNct(a)
         IN /\ Good(b, h + 1) /\ b = AppNew(b.state) /\ b.state.height = a.state.height
            /\ Continues(b.state.compact_block, a.state.compact_block, h)
  <1> DEFINE b == WriteCompactBlockAndNct(a)
             g == h + 1
             x == a.state.compact_block
             y == b.state.compact_block
  <1>1. IsApp(a) /\ TreeOK(a, h) /\ SpendOK(a, h) /\ ValueOK(a) BY DEF Good
  <1>2. /\ IsApp(b) /\ b.nct = a.nct /\ b.block = EmptyBlock /\ b.state.nct = a.nct
        /\ y = Put(x, a.block.height, a.block)
        /\ DOMAIN b.state.valid_anchors = DOMAIN a.state.valid_anchors \union {a.nct}
        /\ b.state.spent = a.state.spent /\ b.state.supply = a.state.supply
        /\ b.state.height = a.state.height /\ b = AppNew(b.state)
    BY <1>1, WriteFields
  <1> HIDE DEF b
  <1>3. /\ h \in Int /\ -1 <= h /\ a.nct \in Seq(NoteSet) /\ a.state.nct \in Seq(NoteSet)
        /\ a.block.outputs \in Seq(NoteSet) /\ a.block.nullifiers \in Seq(NullifierSet)
        /\ DOMAIN x = 0 .. h /\ a.state.nct = Outputs(a, h) /\ a.nct = a.state.nct \o a.block.outputs
        /\ DOMAIN a.state.valid_anchors = {Outputs(a, k) : k \in 0 .. h}
    BY <1>1 DEF TreeOK
  <1>4. g \in Int /\ -1 <= g /\ 0 <= g /\ g - 1 = h /\ 0 .. g = 0 .. h \union {g} /\ g \notin 0 .. h
    BY <1>3
  <1>5. a.block.height = g OBVIOUS
  <1> HIDE DEF g
  <1>6. DOMAIN y = 0 .. g /\ y[g] = a.block /\ \A k \in 0 .. h : y[k] = x[k]
    BY <1>2, <1>3, <1>4, <1>5 DEF Put
  <1>7. Continues(y, x, h) BY <1>6 DEF Continues
  <1>8. \A k \in Int : -1 <= k /\ k <= h => Outputs(b, k) = Outputs(a, k) /\ Announced(b, k) = Announced(a, k)
    BY <1>3, <1>7, SameOutputs
  <1>9. Announced(b, h) = Announced(a, h) /\ Outputs(b, h) = Outputs(a, h)
    <2>1. h \in Int /\ -1 <= h /\ h <= h BY <1>3
    <2> QED BY <1>8, <2>1
  <1>10. /\ Concatenated(y, "outputs", 0, g) = Concatenated(y, "outputs", 0, g - 1) \o y[g]["outputs"]
         /\ Concatenated(y, "nullifiers", 0, g) = Concatenated(y, "nullifiers", 0, g - 1) \o y[g]["nullifiers"]
    <2> HIDE DEF y
    <2>1. g \in Int /\ 0 <= g BY <1>4
    <2>2. 0 \in Int OBVIOUS
    <2>3. \A f : Concatenated(y, f, 0, g) = Concatenated(y, f, 0, g - 1) \o y[g][f] BY <2>1, <2>2, CatStep, Zenon
    <2> QED BY <2>3, Zenon
  <1>11. Outputs(b, g) = a.nct
    <2>1. Outputs(b, g) = Outputs(b, h) \o a.block.outputs BY <1>4, <1>6, <1>10 DEF Outputs
    <2> QED BY <1>3, <1>9, <2>1
  <1>12. Announced(b, g) = AllAnnounced(a, h)
    <2>1. Announced(b, g) = Announced(b, h) \o a.block.nullifiers BY <1>4, <1>6, <1>10 DEF Announced
    <2> QED BY <1>9, <2>1 DEF AllAnnounced
  <1>13. AllAnnounced(b, g) = AllAnnounced(a, h)
    <2>1. AllAnnounced(a, h) \in Seq(NullifierSet) BY <1>1, AnnouncedType
    <2>2. AllAnnounced(a, h) \o << >> = AllAnnounced(a, h) BY <2>1, ConcatEmptySeq
    <2>3. b.block.nullifiers = << >> BY <1>2 DEF EmptyBlock
    <2> QED BY <1>12, <2>2, <2>3 DEF AllAnnounced
  <1>14. TreeOK(b, g)
    <2>1. b.block.outputs = << >> /\ b.block.nullifiers = << >> BY <1>2 DEF EmptyBlock
    <2>2. << >> \in Seq(NoteSet) /\ << >> \in Seq(NullifierSet) BY EmptySeq
    <2>3. a.nct = a.nct \o << >> BY <1>3, ConcatEmptySeq
    <2>4. \A k \in 0 .. g : y[k]["outputs"] \in Seq(NoteSet) /\ y[k]["nullifiers"] \in Seq(NullifierSet)
      <3> TAKE k \in 0 .. g
      <3>1. CASE k = g BY <1>3, <1>6, <3>1
      <3>2. CASE k \in 0 .. h
        <4>1. x[k]["outputs"] \in Seq(NoteSet) /\ x[k]["nullifiers"] \in Seq(NullifierSet) BY <1>1, <3>2 DEF TreeOK
        <4> QED BY <1>6, <3>2, <4>1
      <3> QED BY <1>4, <3>1, <3>2
    <2>5. DOMAIN b.state.valid_anchors = {Outputs(b, k) : k \in 0 .. g}
      <3>1. \A k \in 0 .. h : Outputs(b, k) = Outputs(a, k) BY <1>3, <1>8
      <3>2. {Outputs(b, k) : k \in 0 .. g} = {Outputs(b, k) : k \in 0 .. h} \union {Outputs(b, g)} BY <1>4, Zenon
      <3>3. {Outputs(b, k) : k \in 0 .. h} = {Outputs(a, k) : k \in 0 .. h} BY <3>1
      <3> QED BY <1>2, <1>3, <1>11, <3>2, <3>3
    <2> HIDE DEF y
    <2>6. b.nct \in Seq(NoteSet) /\ b.state.nct \in Seq(NoteSet) BY <1>2, <1>3
    <2>7. b.block.outputs \in Seq(NoteSet) /\ b.block.nullifiers \in Seq(NullifierSet) BY <2>1, <2>2
    <2>8. b.state.nct = Outputs(b, g) BY <1>2, <1>11
    <2>9. b.nct = b.state.nct \o b.block.outputs BY <1>2, <2>1, <2>3
    <2>10. y = b.state.compact_block BY DEF y
    <2> QED BY <1>4, <1>6, <2>4, <2>5, <2>6, <2>7, <2>8, <2>9, <2>10 DEF TreeOK
  <1>15. Paid(b) = Paid(a) /\ FeesPaid(b) = FeesPaid(a) BY <1>2 DEF Paid, FeesPaid
  <1>16. Held(b) = Held(a) BY <1>2 DEF Held, Unspent
  <1>17. SpendOK(b, g)
    <2>1. /\ \A i, j \in DOMAIN AllAnnounced(b, g) : i # j => AllAnnounced(b, g)[i] # AllAnnounced(b, g)[j]
          /\ {AllAnnounced(b, g)[i] : i \in DOMAIN AllAnnounced(b, g)} = DOMAIN b.state.spent
      BY <1>1, <1>2, <1>13 DEF SpendOK
    <2> QED BY <1>1, <1>2, <1>15, <2>1 DEF SpendOK
  <1>18. ValueOK(b) BY <1>1, <1>2, <1>15, <1>16 DEF ValueOK
  <1>19. Good(b, g) BY <1>2, <1>14, <1>17, <1>18 DEF Good
  <1> QED BY <1>2, <1>7, <1>19 DEF b, g

-----------------------------------------------------------------------------
(* The handlers                                                            *)

\* The state before genesis.
LEMMA EmptyGood == IsState(EmptyState) /\ Good(AppNew(EmptyState), -1)
  <1> DEFINE a == AppNew(EmptyState)
  <1>1. IsState(EmptyState) BY DEF EmptyState, IsState
  <1>2. IsApp(a) /\ a.state = EmptyState BY <1>1, AppNewSpent
  <1>3. /\ a.nct = << >> /\ a.block.outputs = << >> /\ a.block.nullifiers = << >>
        /\ a.state.nct = << >> /\ a.state.supply = 0
        /\ DOMAIN a.state.valid_anchors = {} /\ DOMAIN a.state.spent = {} /\ DOMAIN a.state.compact_block = {}
    BY DEF AppNew, EmptyBlock, EmptyState, Nothing
  <1> HIDE DEF a
  <1>4. << >> \in Seq(NoteSet) /\ << >> \in Seq(NullifierSet) BY EmptySeq
  <1>5. 0 .. -1 = {} /\ 0 - 1 = -1 OBVIOUS
  <1>6. Outputs(a, -1) = << >> /\ Announced(a, -1) = << >>
    BY <1>5, CatEmpty DEF Outputs, Announced
  <1>7. << >> \o << >> = << >> BY <1>4, ConcatEmptySeq
  <1>8. TreeOK(a, -1) BY <1>3, <1>4, <1>5, <1>6, <1>7 DEF TreeOK
  <1>9. Paid(a) = {} BY <1>3 DEF Paid
  <1>10. AllAnnounced(a, -1) = << >> BY <1>3, <1>6, <1>7 DEF AllAnnounced
  <1>11. SpendOK(a, -1)
    <2>1. DOMAIN << >> = {} OBVIOUS
    <2> QED BY <1>3, <1>9, <1>10, <2>1 DEF SpendOK
  <1>12. IsFiniteSet({}) BY FS_EmptySet
  <1>13. FeesPaid(a) = 0
    <2>1. FeesPaid(a) = SumFunctionOnSet([t \in Txs |-> t.fee], {}) BY <1>9, <1>12, FeesAre
    <2> QED BY <2>1, SumEmpty
  <1>14. Held(a) = 0
    <2>1. DOMAIN << >> = {} OBVIOUS
    <2>2. Unspent(a) = {} BY <1>3, <2>1 DEF Unspent
    <2>3. Held(a) = AmountsAt(a.nct, {}) BY <1>3, <1>4, <2>2, HeldIs
    <2> QED BY <2>3, SumEmpty DEF AmountsAt
  <1>15. ValueOK(a) BY <1>3, <1>9, <1>12, <1>13, <1>14 DEF ValueOK
  <1> QED BY <1>1, <1>2, <1>8, <1>11, <1>15 DEF Good, a

\* begin_block only sets the height.
LEMMA BeginBlockGood ==
  ASSUME NEW a, NEW h, Good(a, h), NEW x
  PROVE  LET b == BeginBlock(a, x)
         IN /\ Good(b, h) /\ b.state.height = x /\ b.state.compact_block = a.state.compact_block
            /\ b.block = a.block
  <1> DEFINE b == BeginBlock(a, x)
  <1>1. IsApp(a) BY DEF Good
  <1>2. IsApp(b) BY <1>1, BeginBlockSpent
  <1>3. b.nct = a.nct /\ b.block = a.block /\ b.state = [a.state EXCEPT !.height = x]
    BY <1>1 DEF BeginBlock, IsApp
  <1> HIDE DEF b
  <1>4. /\ b.state.nct = a.state.nct /\ b.state.valid_anchors = a.state.valid_anchors
        /\ b.state.spent = a.state.spent /\ b.state.compact_block = a.state.compact_block
        /\ b.state.supply = a.state.supply /\ b.state.height = x
    BY <1>1, <1>3 DEF IsApp, IsState
  <1>5. Good(b, h) BY <1>2, <1>3, <1>4, SameGood
  <1> QED BY <1>3, <1>4, <1>5 DEF b

\* Genesis makes block 0.
LEMMA InitChainGood ==
  LET b == InitChain(AppNew(EmptyState))
  IN  Good(b, 0) /\ b = AppNew(b.state) /\ b.state.height = 0
  <1> DEFINE a == AppNew(EmptyState)
             c == BeginBlock(a, 0)
             d == MintNotes(c, GenesisAllocations, Genesis)
             b == WriteCompactBlockAndNct(d)
  <1>1. Good(a, -1) BY EmptyGood
  <1>2. a.block = EmptyBlock BY DEF AppNew
  <1> HIDE DEF a
  <1>3. Good(c, -1) /\ c.state.height = 0 /\ c.block = a.block BY <1>1, BeginBlockGood
  <1>4. InitChain(a) = b BY DEF InitChain, BeginBlock
  <1> HIDE DEF c
  <1>5. Good(d, -1) /\ d.state.height = 0 /\ d.block.height = 0
    <2>1. GenesisAllocations \in Seq(Allocations) BY PoolAssumption
    <2>2. c.block.height = 0 BY <1>2, <1>3 DEF EmptyBlock
    <2> QED BY <1>3, <2>1, <2>2, MintGood
  <1> HIDE DEF d
  <1>6. -1 + 1 = 0 OBVIOUS
  <1>7. Good(b, -1 + 1) /\ b = AppNew(b.state) /\ b.state.height = 0 BY <1>5, <1>6, WriteGood
  <1> QED BY <1>4, <1>6, <1>7 DEF a

\* end_block mints the rewards and writes block h + 1.
LEMMA EndBlockGood ==
  ASSUME NEW a, NEW h, Good(a, h), a.state.height = h + 1, NEW rewards \in Seq(Allocations)
  PROVE  LET b == EndBlock(a, rewards)
         IN /\ Good(b, h + 1) /\ b = AppNew(b.state) /\ b.state.height = h + 1
            /\ Continues(b.state.compact_block, a.state.compact_block, h)
  <1> DEFINE c == [a EXCEPT !.block.height = a.state.height]
             d == MintNotes(c, rewards, Reward)
             b == WriteCompactBlockAndNct(d)
  <1>1. IsApp(a) BY DEF Good
  <1>2. IsApp(c) BY <1>1 DEF IsApp, IsState, IsBlock
  <1>3. c.nct = a.nct /\ c.state = a.state /\ c.block = [a.block EXCEPT !.height = a.state.height]
    BY <1>1 DEF IsApp
  <1>4. EndBlock(a, rewards) = b BY DEF EndBlock
  <1> HIDE DEF c
  <1>5. /\ c.block.height = h + 1 /\ c.block.outputs = a.block.outputs
        /\ c.block.nullifiers = a.block.nullifiers
    BY <1>1, <1>3 DEF IsApp, IsBlock
  <1>6. Good(c, h) BY <1>2, <1>3, <1>5, SameGood
  <1>7. /\ Good(d, h) /\ d.state.compact_block = a.state.compact_block
        /\ d.state.height = h + 1 /\ d.block.height = h + 1
    <2>1. /\ Good(d, h) /\ d.state.compact_block = c.state.compact_block
          /\ d.state.height = c.state.height /\ d.block.height = c.block.height
      BY <1>6, MintGood
    <2> QED BY <1>3, <1>5, <2>1
  <1> HIDE DEF d
  <1>8. /\ Good(b, h + 1) /\ b = AppNew(b.state) /\ b.state.height = h + 1
        /\ Continues(b.state.compact_block, d.state.compact_block, h)
    BY <1>7, WriteGood
  <1> QED BY <1>4, <1>7, <1>8

-----------------------------------------------------------------------------
(* The inductive invariant of the node                                     *)

\* The consensus worker's instance, phase by phase, against what is committed.
ConsensusOK(ph, a, st) ==
  /\ ph \in {"pre_genesis", "committed", "block", "ended", "written"}
  /\ IsState(st) /\ Good(AppNew(st), st.height)
  /\ ph = "pre_genesis" => st = EmptyState /\ a = AppNew(EmptyState)
  /\ ph # "pre_genesis" => st.height >= 0
  /\ ph \in {"committed", "written"} => a = AppNew(st)
  /\ ph = "block" =>
       /\ Good(a, st.height) /\ a.state.height = st.height + 1
       /\ Continues(a.state.compact_block, st.compact_block, st.height)
  /\ ph = "ended" =>
       /\ Good(a, st.height + 1) /\ a = AppNew(a.state) /\ a.state.height = st.height + 1
       /\ Continues(a.state.compact_block, st.compact_block, st.height)

\* The client's tree is what the blocks it has scanned say.
ClientOK(c, st) ==
  /\ c.height \in Int /\ (c.height = -1 \/ (0 <= c.height /\ c.height < st.height))
  /\ c.nct = Outputs(AppNew(st), c.height)

Requests == [tx : Txs, anchor : Seq(NoteSet), sent : Int]

ChainInv ==
  /\ ConsensusOK(phase, app, storage)
  /\ Good(mempool, mempool_height)
  /\ queue \in Seq(Requests)
  /\ ClientOK(client, storage)

\* The types the invariant gives.
LEMMA GoodHeight ==
  ASSUME NEW a, NEW h, Good(a, h)
  PROVE  h \in Int /\ -1 <= h /\ a.nct \in Seq(NoteSet) /\ IsApp(a) /\ IsState(a.state)
  BY DEF Good, TreeOK, IsApp

\* A fresh instance has the tree of its state.
LEMMA AppNewFields == ASSUME NEW s PROVE AppNew(s).state = s /\ AppNew(s).nct = s.nct
  BY DEF AppNew

\* In every phase the consensus worker's instance is a good one.
LEMMA AppGood ==
  ASSUME NEW ph, NEW a, NEW st, ConsensusOK(ph, a, st)
  PROVE  \E h : Good(a, h)
  BY EmptyGood DEF ConsensusOK

\* A step that leaves the committed state alone.
LEMMA NextConsensus ==
  ASSUME ChainInv, storage' = storage, UNCHANGED mempool_vars, UNCHANGED client_vars,
         ConsensusOK(phase', app', storage)
  PROVE  ChainInv'
  BY DEF ChainInv, mempool_vars, client_vars

\* Blocks are added after the ones the client has scanned.
LEMMA ClientKept ==
  ASSUME NEW c, NEW st, NEW s, ClientOK(c, st), st.height \in Int, s.height \in Int,
         st.height <= s.height, Continues(s.compact_block, st.compact_block, st.height)
  PROVE  ClientOK(c, s)
  <1> DEFINE k == c.height
  <1>1. k \in Int /\ (k = -1 \/ (0 <= k /\ k < st.height)) BY DEF ClientOK
  <1>2. c.nct = Outputs(AppNew(st), k) BY DEF ClientOK
  <1>3. Outputs(AppNew(s), k) = Outputs(AppNew(st), k)
    <2> DEFINE x == AppNew(st)
               y == AppNew(s)
    <2>1. x.state = st /\ y.state = s BY AppNewFields
    <2> SUFFICES Outputs(y, k) = Outputs(x, k) OBVIOUS
    <2> HIDE DEF x, y, k
    <2>2. CASE k = -1
      <3>1. 0 - 1 = -1 OBVIOUS
      <3> QED BY <2>2, <3>1, CatEmpty DEF Outputs
    <2>3. CASE 0 <= k /\ k < st.height
      <3>1. -1 <= k /\ k <= st.height BY <1>1, <2>3
      <3>2. Continues(y.state.compact_block, x.state.compact_block, st.height) BY <2>1
      <3> DEFINE h == st.height
      <3>3. k \in Int /\ h \in Int /\ k <= h /\ Continues(y.state.compact_block, x.state.compact_block, h)
        BY <1>1, <3>1, <3>2
      <3> HIDE DEF h
      <3> QED BY <3>1, <3>3, SameOutputs
    <2> QED BY <1>1, <2>2, <2>3
  <1>4. k = -1 \/ (0 <= k /\ k < s.height) BY <1>1
  <1> QED BY <1>1, <1>2, <1>3, <1>4 DEF ClientOK

\* A new state is committed.
LEMMA NextCommitted ==
  ASSUME ChainInv, NEW s, IsState(s), Good(AppNew(s), s.height), s.height >= 0,
         storage.height <= s.height, Continues(s.compact_block, storage.compact_block, storage.height),
         storage' = s, app' = AppNew(s), phase' \in {"committed", "written"},
         UNCHANGED <<mempool, mempool_height, queue, client>>
  PROVE  ChainInv'
  <1>1. storage.height \in Int /\ s.height \in Int BY GoodHeight DEF ChainInv, ConsensusOK
  <1>2. ClientOK(client, s) BY <1>1, ClientKept DEF ChainInv
  <1>3. ConsensusOK(phase', AppNew(s), s) BY DEF ConsensusOK
  <1> QED BY <1>2, <1>3 DEF ChainInv

\* The blocks a client has scanned and the ones it asks for.
LEMMA ScanSplit ==
  ASSUME NEW bs, NEW k \in Int, NEW l \in Int, 0 - 1 <= k, k <= l,
         \A i \in 0 .. l : bs[i]["outputs"] \in Seq(NoteSet)
  PROVE  Concatenated(bs, "outputs", 0, l) =
           Concatenated(bs, "outputs", 0, k) \o Concatenated(bs, "outputs", k + 1, l)
  BY CatSplit

\* Scanning the next blocks brings the client to the tree at the end of the last.
LEMMA SyncClient ==
  ASSUME ChainInv, Sync
  PROVE  ClientOK(client', storage)
  <1> DEFINE a == AppNew(storage)
             bs == storage.compact_block
             k == client.height
             l == storage.height - 1
  <1>1. Good(a, storage.height) /\ a.state = storage /\ storage.height \in Int
    BY AppNewFields, GoodHeight DEF ChainInv, ConsensusOK
  <1>2. storage.height >= 0 BY DEF Sync
  <1>3. k \in Int /\ (k = -1 \/ (0 <= k /\ k < storage.height)) /\ client.nct = Outputs(a, k)
    BY DEF ChainInv, ClientOK
  <1>4. client'.height = l /\ client'.nct = client.nct \o Concatenated(bs, "outputs", k + 1, l)
    BY DEF Sync, LastRequested
  <1>5. l \in Int /\ 0 - 1 <= k /\ k <= l /\ (l = -1 \/ (0 <= l /\ l < storage.height)) BY <1>1, <1>2, <1>3
  <1>6. \A i \in 0 .. l : bs[i]["outputs"] \in Seq(NoteSet)
    <2>1. \A i \in 0 .. storage.height : bs[i]["outputs"] \in Seq(NoteSet) BY <1>1 DEF Good, TreeOK
    <2> QED BY <1>1, <2>1
  <1> HIDE DEF bs, k, l
  <1>7. Concatenated(bs, "outputs", 0, l) =
          Concatenated(bs, "outputs", 0, k) \o Concatenated(bs, "outputs", k + 1, l)
    BY <1>3, <1>5, <1>6, ScanSplit
  <1>8. client'.nct = Outputs(a, l) BY <1>1, <1>3, <1>4, <1>7 DEF Outputs, bs
  <1> QED BY <1>4, <1>5, <1>8 DEF ClientOK

\* The invariant holds before genesis ...
LEMMA ChainInit == Init => ChainInv
  <1> SUFFICES ASSUME Init PROVE ChainInv OBVIOUS
  <1>1. EmptyState.height = -1 BY DEF EmptyState
  <1>2. ConsensusOK("pre_genesis", AppNew(EmptyState), EmptyState) BY <1>1, EmptyGood DEF ConsensusOK
  <1>3. << >> \in Seq(Requests) BY EmptySeq
  <1>4. ClientOK(NewClient, EmptyState)
    <2>1. NewClient.height = -1 /\ NewClient.nct = << >> BY DEF NewClient
    <2>2. Outputs(AppNew(EmptyState), -1) = << >>
      <3>1. 0 - 1 = -1 OBVIOUS
      <3> QED BY <3>1, CatEmpty DEF Outputs
    <2> QED BY <2>1, <2>2 DEF ClientOK
  <1> QED BY <1>2, <1>3, <1>4, EmptyGood DEF Init, ChainInv

\* ... and every step of every worker, crash and client keeps it.
LEMMA ChainStep == ChainInv /\ [Next]_vars => ChainInv'
  <1> SUFFICES ASSUME ChainInv, [Next]_vars PROVE ChainInv' OBVIOUS
  <1> DEFINE H == storage.height
  <1>1. ConsensusOK(phase, app, storage) /\ IsState(storage) /\ Good(AppNew(storage), H)
    BY DEF ChainInv, ConsensusOK
  <1>2. H \in Int /\ -1 <= H BY <1>1, GoodHeight
  <1>3. \A x : Continues(x, x, H) BY DEF Continues
  <1>4. Good(mempool, mempool_height) /\ queue \in Seq(Requests) /\ ClientOK(client, storage)
    BY DEF ChainInv
  <1>5. Roots \subseteq Seq(NoteSet)
    <2>1. PICK h : Good(app, h) BY <1>1, AppGood
    <2>2. app.nct \in Seq(NoteSet) BY <2>1, GoodHeight
    <2>3. DOMAIN app.nct = 1 .. Len(app.nct) /\ Len(app.nct) \in Nat BY <2>2, LenProperties
    <2>4. ASSUME NEW n \in 0 .. Len(app.nct) PROVE SubSeq(app.nct, 1, n) \in Seq(NoteSet)
      <3>1. \A i \in 1 .. n : app.nct[i] \in NoteSet BY <2>2, <2>3, ElementOfSeq
      <3> QED BY <2>3, <3>1, SubSeqProperties
    <2> QED BY <2>4 DEF Roots
  <1>6. CASE HandleInitChain
    <2> DEFINE b == InitChain(AppNew(EmptyState))
    <2>1. phase = "pre_genesis" /\ storage = EmptyState /\ app = AppNew(EmptyState)
      BY <1>1, <1>6 DEF HandleInitChain, ConsensusOK
    <2>2. Good(b, 0) /\ b = AppNew(b.state) /\ b.state.height = 0 BY InitChainGood
    <2>3. IsState(b.state) BY <2>2, GoodHeight
    <2>4. H = -1 /\ Continues(b.state.compact_block, storage.compact_block, H)
      BY <2>1 DEF EmptyState, Continues
    <2>5. storage' = b.state /\ app' = AppNew(b.state) /\ phase' = "committed"
      BY <1>6, <2>1 DEF HandleInitChain
    <2>6. UNCHANGED <<mempool, mempool_height, queue, client>> BY <1>6 DEF HandleInitChain, mempool_vars, client_vars
    <2> HIDE DEF b
    <2>7. Good(AppNew(b.state), b.state.height) BY <2>2
    <2>8. b.state.height >= 0 /\ storage.height <= b.state.height BY <2>2, <2>4
    <2> QED BY <2>3, <2>4, <2>5, <2>6, <2>7, <2>8, NextCommitted
  <1>7. CASE HandleBeginBlock
    <2> DEFINE b == BeginBlock(app, app.state.height + 1)
    <2>1. phase = "committed" /\ app = AppNew(storage) /\ H >= 0 BY <1>1, <1>7 DEF HandleBeginBlock, ConsensusOK
    <2>2. app.state = storage BY <2>1, AppNewFields
    <2>3. Good(b, H) /\ b.state.height = H + 1 /\ b.state.compact_block = storage.compact_block
      BY <1>1, <2>1, <2>2, BeginBlockGood
    <2>4. app' = b /\ phase' = "block" BY <1>7 DEF HandleBeginBlock
    <2> HIDE DEF b
    <2>5. ConsensusOK("block", b, storage) BY <1>1, <1>3, <2>1, <2>3 DEF ConsensusOK
    <2> QED BY <1>7, <2>4, <2>5, NextConsensus DEF HandleBeginBlock
  <1>8. ASSUME NEW tx \in Txs, NEW anchor \in Roots, HandleDeliverTx(tx, anchor) PROVE ChainInv'
    <2> DEFINE b == ExecuteTx(app, tx, anchor)
    <2>1. phase = "block" /\ CheckTx(app, tx, anchor) /\ app' = b /\ phase' = phase BY <1>8 DEF HandleDeliverTx
    <2>2. Good(app, H) /\ app.state.height = H + 1 /\ Continues(app.state.compact_block, storage.compact_block, H)
      BY <1>1, <2>1 DEF ConsensusOK
    <2>3. Good(b, H) /\ b.state.height = app.state.height /\ b.state.compact_block = app.state.compact_block
      BY <2>1, <2>2, ExecuteGood
    <2> HIDE DEF b
    <2>4. ConsensusOK("block", b, storage) BY <1>1, <2>1, <2>2, <2>3 DEF ConsensusOK
    <2> QED BY <1>8, <2>1, <2>4, NextConsensus DEF HandleDeliverTx
  <1>9. ASSUME NEW rewards \in RewardNotes, HandleEndBlock(rewards) PROVE ChainInv'
    <2> DEFINE b == EndBlock(app, rewards)
    <2>1. phase = "block" /\ phase' = "ended" /\ app' = b BY <1>9 DEF HandleEndBlock
    <2>2. Good(app, H) /\ app.state.height = H + 1 /\ Continues(app.state.compact_block, storage.compact_block, H)
      BY <1>1, <2>1 DEF ConsensusOK
    <2>3. rewards \in Seq(Allocations) BY NodeAssumption
    <2>4. /\ Good(b, H + 1) /\ b = AppNew(b.state) /\ b.state.height = H + 1
          /\ Continues(b.state.compact_block, app.state.compact_block, H)
      BY <2>2, <2>3, EndBlockGood
    <2> HIDE DEF b
    <2>5. Continues(b.state.compact_block, storage.compact_block, H) BY <2>2, <2>4 DEF Continues
    <2>6. ConsensusOK("ended", b, storage) BY <1>1, <2>1, <2>4, <2>5 DEF ConsensusOK
    <2> QED BY <1>9, <2>1, <2>6, NextConsensus DEF HandleEndBlock
  <1>10. CASE HandleCommit
    <2> DEFINE s == app.state
    <2>1. /\ Good(app, H + 1) /\ app = AppNew(s) /\ s.height = H + 1 /\ H >= 0
          /\ Continues(s.compact_block, storage.compact_block, H)
      BY <1>1, <1>10 DEF HandleCommit, ConsensusOK
    <2>2. IsState(s) BY <2>1, GoodHeight
    <2>3. storage' = s /\ app' = AppNew(s) /\ phase' = "written" BY <1>10 DEF HandleCommit
    <2>4. UNCHANGED <<mempool, mempool_height, queue, client>>
      BY <1>10 DEF HandleCommit, mempool_vars, client_vars
    <2> HIDE DEF s
    <2>5. Good(AppNew(s), s.height) /\ s.height >= 0 /\ storage.height <= s.height BY <1>2, <2>1
    <2> QED BY <2>1, <2>2, <2>3, <2>4, <2>5, NextCommitted
  <1>11. ASSUME NEW tx \in Txs, NEW anchor \in Roots, SendCheckTx(tx, anchor) PROVE ChainInv'
    <2> DEFINE m == [tx |-> tx, anchor |-> anchor, sent |-> Answered]
    <2>0. Answered \in Int BY <1>2 DEF Answered
    <2>1. m \in Requests BY <1>5, <2>0 DEF Requests
    <2>2. queue' = Append(queue, m) BY <1>11 DEF SendCheckTx
    <2> HIDE DEF m
    <2>3. queue' \in Seq(Requests) BY <1>4, <2>1, <2>2, AppendProperties
    <2> QED BY <1>11, <2>3 DEF SendCheckTx, ChainInv, consensus, client_vars
  <1>12. CASE MempoolReset BY <1>1, <1>12 DEF MempoolReset, ChainInv, consensus, client_vars
  <1>13. CASE CheckAndExecuteTx
    <2> DEFINE m == Head(queue)
               b == ExecuteTx(mempool, m.tx, m.anchor)
    <2>1. queue # << >> /\ queue' = Tail(queue) BY <1>13 DEF CheckAndExecuteTx
    <2>2. m \in Requests /\ queue' \in Seq(Requests) BY <1>4, <2>1, HeadTailProperties
    <2>3. m.tx \in Txs BY <2>2 DEF Requests
    <2>4. mempool' = IF CheckTx(mempool, m.tx, m.anchor) THEN b ELSE mempool BY <1>13 DEF CheckAndExecuteTx
    <2> HIDE DEF m
    <2>5. CheckTx(mempool, m.tx, m.anchor) => Good(b, mempool_height) BY <1>4, <2>3, ExecuteGood
    <2> HIDE DEF b
    <2>6. Good(mempool', mempool_height) BY <1>4, <2>4, <2>5
    <2> QED BY <1>13, <2>2, <2>6 DEF CheckAndExecuteTx, ChainInv, consensus, client_vars
  <1>14. CASE Crash
    <2>1. H >= 0 BY <1>1, <1>14 DEF Crash, ConsensusOK
    <2>2. ConsensusOK("committed", AppNew(storage), storage) BY <1>1, <2>1 DEF ConsensusOK
    <2>3. << >> \in Seq(Requests) BY EmptySeq
    <2> QED BY <1>1, <1>4, <1>14, <2>2, <2>3 DEF Crash, ChainInv, client_vars
  <1>15. CASE Sync
    <2>1. ClientOK(client', storage) BY <1>15, SyncClient
    <2> QED BY <1>4, <1>1, <1>15, <2>1 DEF Sync, ChainInv, consensus, mempool_vars
  <1>16. CASE UNCHANGED vars BY <1>16 DEF vars, consensus, mempool_vars, client_vars, ChainInv
  <1>17. CASE AnnounceHeight
    <2>1. /\ phase = "written" /\ phase' = "committed"
          /\ UNCHANGED <<app, storage, mempool, mempool_height, queue, client>>
      BY <1>17 DEF AnnounceHeight, client_vars
    <2>2. ConsensusOK("committed", app, storage) BY <1>1, <2>1 DEF ConsensusOK
    <2> QED BY <2>1, <2>2 DEF ChainInv
  <1> QED
    BY <1>6, <1>7, <1>8, <1>9, <1>10, <1>11, <1>12, <1>13, <1>14, <1>15, <1>16, <1>17 DEF Next

\* The inductive invariant of the node, for every genesis, transactions and blocks.
THEOREM ChainInvariant == Spec => []ChainInv
  BY ChainInit, ChainStep, PTL DEF Spec

-----------------------------------------------------------------------------
(* What it implies                                                         *)

\* Every instance of the state is a good one, at some height.
LEMMA AppsGood == ASSUME ChainInv, NEW a \in Apps PROVE \E h : Good(a, h)
  BY AppGood DEF ChainInv, ConsensusOK, Apps

\* What is committed is the state of a good instance.
LEMMA StorageGood ==
  ASSUME ChainInv
  PROVE  LET a == AppNew(storage)
         IN Good(a, storage.height) /\ a.state = storage /\ a.nct = storage.nct
  BY AppNewFields DEF ChainInv, ConsensusOK

\* What is committed announces nothing that is not in a block.
LEMMA StorageAnnounces ==
  ASSUME ChainInv
  PROVE  AllAnnounced(AppNew(storage), storage.height) =
           Concatenated(storage.compact_block, "nullifiers", 0, storage.height)
  <1> DEFINE a == AppNew(storage)
  <1>1. Good(a, storage.height) /\ a.state = storage BY StorageGood
  <1>2. a.block.nullifiers = << >> BY DEF AppNew, EmptyBlock
  <1> HIDE DEF a
  <1>3. Announced(a, storage.height) \in Seq(NullifierSet) BY <1>1, AnnouncedType DEF Good
  <1>4. Announced(a, storage.height) \o << >> = Announced(a, storage.height) BY <1>3, ConcatEmptySeq
  <1>5. AllAnnounced(a, storage.height) = Announced(a, storage.height) BY <1>2, <1>4 DEF AllAnnounced
  <1> QED BY <1>1, <1>5 DEF Announced, a

\* No value appears or disappears, in any block, mempool or crash.
THEOREM ValueIsConserved == Spec => []ValueConserved
  <1>1. ChainInv => ValueConserved
    <2> SUFFICES ASSUME ChainInv, NEW a \in Apps
                 PROVE  SumFunction([p \in Unspent(a) |-> a.nct[p].amount]) + FeesPaid(a) = a.state.supply
      BY DEF ValueConserved
    <2>1. PICK h : Good(a, h) BY AppsGood
    <2> QED BY <2>1 DEF Good, ValueOK, Held
  <1> QED BY <1>1, ChainInvariant, PTL

\* No note is spent twice on the committed chain.
THEOREM NotesAreSpentOnce == Spec => []NoDoubleSpend
  <1>1. ChainInv => NoDoubleSpend
    <2> SUFFICES ASSUME ChainInv PROVE NoDoubleSpend OBVIOUS
    <2> DEFINE all == AllAnnounced(AppNew(storage), storage.height)
    <2>1. \A i, j \in DOMAIN all : i # j => all[i] # all[j] BY StorageGood DEF Good, SpendOK
    <2>2. all = Concatenated(storage.compact_block, "nullifiers", 0, storage.height) BY StorageAnnounces
    <2> HIDE DEF all
    <2> QED BY <2>1, <2>2 DEF NoDoubleSpend
  <1> QED BY <1>1, ChainInvariant, PTL

\* The compact blocks say exactly what is in the tree and what is spent.
THEOREM BlocksSayEverything == Spec => []BlocksRebuildTree
  <1>1. ChainInv => BlocksRebuildTree
    <2> SUFFICES ASSUME ChainInv PROVE BlocksRebuildTree OBVIOUS
    <2> DEFINE a == AppNew(storage)
               all == AllAnnounced(a, storage.height)
    <2>1. Good(a, storage.height) /\ a.state = storage BY StorageGood
    <2>2. {all[i] : i \in DOMAIN all} = DOMAIN storage.spent BY <2>1 DEF Good, SpendOK
    <2>3. all = Concatenated(storage.compact_block, "nullifiers", 0, storage.height) BY StorageAnnounces
    <2>4. storage.nct = Concatenated(storage.compact_block, "outputs", 0, storage.height)
      BY <2>1 DEF Good, TreeOK, Outputs
    <2> HIDE DEF all
    <2> QED BY <2>2, <2>3, <2>4 DEF BlocksRebuildTree
  <1> QED BY <1>1, ChainInvariant, PTL

\* A transaction can claim only the tree at the end of a block.
THEOREM OnlyBlockEndsAreAnchors == Spec => []AnchorsEndBlocks
  <1>1. ChainInv => AnchorsEndBlocks
    <2> SUFFICES ASSUME ChainInv, NEW a \in Apps
                 PROVE  DOMAIN a.state.valid_anchors =
                          {Concatenated(a.state.compact_block, "outputs", 0, h) : h \in DOMAIN a.state.compact_block}
      BY DEF AnchorsEndBlocks
    <2>1. PICK h : Good(a, h) BY AppsGood
    <2>2. /\ DOMAIN a.state.valid_anchors = {Outputs(a, k) : k \in 0 .. h}
          /\ DOMAIN a.state.compact_block = 0 .. h
      BY <2>1 DEF Good, TreeOK
    <2> QED BY <2>2 DEF Outputs
  <1> QED BY <1>1, ChainInvariant, PTL

\* A client's tree is always one the node accepts.
THEOREM ClientCanSpend == Spec => []ClientAnchorAccepted
  <1>1. ChainInv => ClientAnchorAccepted
    <2> SUFFICES ASSUME ChainInv, client.height >= 0
                 PROVE  /\ client.nct \in DOMAIN storage.valid_anchors
                        /\ client.nct = Concatenated(storage.compact_block, "outputs", 0, client.height)
      BY DEF ClientAnchorAccepted, CheckClaimedAnchor
    <2> DEFINE a == AppNew(storage)
    <2>1. Good(a, storage.height) /\ a.state = storage BY StorageGood
    <2>2. storage.height \in Int BY <2>1, GoodHeight
    <2>3. client.height \in 0 .. storage.height BY <2>2 DEF ChainInv, ClientOK
    <2>4. client.nct = Outputs(a, client.height) BY DEF ChainInv, ClientOK
    <2> HIDE DEF a
    <2>5. client.nct \in DOMAIN a.state.valid_anchors BY <2>1, <2>3, <2>4 DEF Good, TreeOK
    <2> QED BY <2>1, <2>4, <2>5 DEF Outputs
  <1> QED BY <1>1, ChainInvariant, PTL

-----------------------------------------------------------------------------
(* The mempool worker                                                      *)

\* No request is from the future, and a mempool that has seen every height it
\* was told since genesis is not behind the last one that was answered.
FreshInv ==
  /\ mempool_height \in Int
  /\ \A i \in 1 .. Len(queue) : queue[i].sent <= Answered
  /\ ~height_changed /\ Answered >= 1 => mempool_height >= Answered
  /\ last_check.sent \in Int /\ last_check.base \in Int
  /\ MempoolFresh

\* The answered height grows by one block at a time, after the mempool was
\* told, and no step makes it shrink; only a crash may come between the write
\* and the answer.
LEMMA AnsweredGrows ==
  ASSUME ChainInv, [Next]_vars
  PROVE  /\ storage.height \in Int /\ Answered \in Int /\ Answered' \in Int
         /\ Answered <= storage.height /\ Answered <= Answered'
         /\ Answered' = Answered \/ Answered' < 1 \/ height_changed' \/ Crash
  <1>1. ConsensusOK(phase, app, storage) /\ storage.height \in Int /\ -1 <= storage.height
    BY GoodHeight DEF ChainInv, ConsensusOK
  <1>2. Answered \in Int /\ Answered <= storage.height /\ storage.height - 1 <= Answered BY <1>1 DEF Answered
  <1>3. CASE HandleInitChain
    <2>1. storage = EmptyState /\ app = AppNew(EmptyState) /\ phase' # "written"
      BY <1>1, <1>3 DEF HandleInitChain, ConsensusOK
    <2>2. storage'.height = 0 BY <1>3, <2>1, InitChainGood DEF HandleInitChain
    <2>3. storage.height = -1 BY <2>1 DEF EmptyState
    <2>4. Answered' = 0 BY <2>1, <2>2 DEF Answered
    <2> QED BY <1>1, <1>2, <2>3, <2>4
  <1>4. CASE HandleCommit
    <2>1. app.state.height = storage.height + 1 /\ phase = "ended" /\ phase' = "written"
      BY <1>1, <1>4 DEF HandleCommit, ConsensusOK
    <2>2. storage'.height = storage.height + 1 BY <1>4, <2>1 DEF HandleCommit
    <2>3. Answered = storage.height /\ Answered' = storage'.height - 1 BY <2>1 DEF Answered
    <2> QED BY <1>1, <1>2, <2>2, <2>3
  <1>5. CASE AnnounceHeight
    <2>1. phase' = "committed" /\ storage' = storage /\ height_changed' = TRUE BY <1>5 DEF AnnounceHeight
    <2>2. Answered' = storage.height BY <2>1 DEF Answered
    <2> QED BY <1>1, <1>2, <2>1, <2>2
  <1>6. CASE Crash
    <2>1. phase' = "committed" /\ storage' = storage BY <1>6 DEF Crash
    <2>2. Answered' = storage.height BY <2>1 DEF Answered
    <2> QED BY <1>1, <1>2, <1>6, <2>2
  <1>7. ASSUME storage' = storage, phase' = "written" <=> phase = "written"
        PROVE  Answered' = Answered
    BY <1>7 DEF Answered
  <1>8. \/ storage' = storage /\ (phase' = "written" <=> phase = "written")
        \/ HandleInitChain \/ HandleCommit \/ AnnounceHeight \/ Crash
    BY DEF Next, vars, consensus, HandleBeginBlock, HandleDeliverTx, HandleEndBlock, SendCheckTx,
           MempoolReset, CheckAndExecuteTx, Sync
  <1> QED BY <1>1, <1>2, <1>3, <1>4, <1>5, <1>6, <1>7, <1>8

\* Every step keeps the mempool's invariant.
LEMMA FreshStep == ASSUME ChainInv, FreshInv, [Next]_vars PROVE FreshInv'
  <1> DEFINE H == Answered
             H2 == Answered'
  <1>1. /\ H \in Int /\ H2 \in Int /\ H <= H2 /\ storage.height \in Int /\ H <= storage.height
        /\ H2 = H \/ H2 < 1 \/ height_changed' \/ Crash
    BY AnsweredGrows
  <1>2. queue \in Seq(Requests) /\ Len(queue) \in Nat BY LenProperties DEF ChainInv
  <1>3. \A i \in 1 .. Len(queue) : queue[i] \in Requests /\ queue[i].sent \in Int /\ queue[i].sent <= H
    <2> TAKE i \in 1 .. Len(queue)
    <2>1. queue[i] \in Requests BY <1>2, ElementOfSeq
    <2> QED BY <2>1 DEF Requests, FreshInv
  <1>4. \A i \in 1 .. Len(queue) : queue[i].sent <= H2 BY <1>1, <1>3
  <1>5. CASE Crash
    <2>1. Len(<< >>) = 0 OBVIOUS
    <2>2. /\ phase' = "committed" /\ storage' = storage /\ queue' = << >> /\ last_check' = last_check
          /\ mempool_height' = storage.height
      BY <1>5 DEF Crash
    <2>3. Answered' = storage.height BY <2>2 DEF Answered
    <2> QED BY <1>1, <2>1, <2>2, <2>3 DEF FreshInv, MempoolFresh
  <1>6. SUFFICES ASSUME ~Crash PROVE FreshInv' BY <1>5
  <1>7. ASSUME UNCHANGED <<mempool_height, queue, last_check>>, height_changed' \/ height_changed' = height_changed
        PROVE  FreshInv'
    <2>1. height_changed' \/ H2 < 1 \/ mempool_height >= H2
      BY <1>1, <1>6, <1>7 DEF FreshInv
    <2> HIDE DEF H, H2
    <2>2. \A i \in 1 .. Len(queue') : queue'[i].sent <= H2 BY <1>4, <1>7
    <2>3. ~height_changed' /\ H2 >= 1 => mempool_height' >= H2 BY <1>1, <1>7, <2>1
    <2>4. /\ mempool_height' \in Int /\ last_check'.sent \in Int /\ last_check'.base \in Int /\ MempoolFresh'
      BY <1>7 DEF FreshInv, MempoolFresh
    <2> QED BY <2>2, <2>3, <2>4 DEF FreshInv, H2
  <1>8. CASE MempoolReset
    <2>1. /\ mempool_height' = storage.height /\ queue' = queue /\ last_check' = last_check
          /\ storage' = storage /\ phase' = phase
      BY <1>8 DEF MempoolReset, consensus
    <2>2. Answered' = Answered BY <2>1 DEF Answered
    <2> QED BY <1>1, <1>3, <2>1, <2>2 DEF FreshInv, MempoolFresh
  <1>9. ASSUME NEW tx \in Txs, NEW anchor \in Roots, SendCheckTx(tx, anchor) PROVE FreshInv'
    <2> DEFINE m == [tx |-> tx, anchor |-> anchor, sent |-> Answered]
               Q == [tx : Txs, anchor : {anchor} \union Seq(NoteSet), sent : Int]
    <2>1. queue' = Append(queue, m) /\ m.sent = H /\ storage' = storage /\ phase' = phase
      BY <1>9 DEF SendCheckTx, consensus
    <2>2. m \in Q BY <1>1
    <2>3. queue \in Seq(Q)
      <3>1. Requests \subseteq Q BY DEF Requests
      <3> HIDE DEF Q
      <3> QED BY <1>2, <3>1, SeqMonotonic
    <2> HIDE DEF m, Q
    <2>4. /\ Len(Append(queue, m)) = Len(queue) + 1
          /\ \A i \in 1 .. Len(queue) : Append(queue, m)[i] = queue[i]
          /\ Append(queue, m)[Len(queue) + 1] = m
      BY <2>2, <2>3, AppendProperties
    <2>5. \A i \in 1 .. Len(queue) + 1 : Append(queue, m)[i].sent <= H
      <3> HIDE DEF H
      <3> TAKE i \in 1 .. Len(queue) + 1
      <3>1. CASE i \in 1 .. Len(queue) BY <1>3, <2>4, <3>1
      <3>2. CASE i = Len(queue) + 1 BY <1>1, <2>1, <2>4, <3>2
      <3> QED BY <1>2, <3>1, <3>2
    <2>6. Answered' = Answered BY <2>1 DEF Answered
    <2>7. \A i \in 1 .. Len(queue') : queue'[i].sent <= Answered' BY <2>1, <2>4, <2>5, <2>6
    <2>8. UNCHANGED <<mempool_height, height_changed, last_check>> BY <1>9 DEF SendCheckTx
    <2> QED BY <2>6, <2>7, <2>8 DEF FreshInv, MempoolFresh
  <1>10. CASE CheckAndExecuteTx
    <2> DEFINE m == Head(queue)
    <2>1. /\ queue # << >> /\ queue' = Tail(queue) /\ ~height_changed /\ storage' = storage /\ phase' = phase
      BY <1>10 DEF CheckAndExecuteTx, MayReceive, consensus
    <2>2. last_check' = [sent |-> m.sent, base |-> mempool_height] BY <1>10 DEF CheckAndExecuteTx
    <2>3. m = queue[1] /\ 1 \in 1 .. Len(queue) BY <1>2, <2>1, EmptySeq
    <2>4. m.sent \in Int /\ m.sent <= H BY <1>3, <2>3
    <2>5. Len(Tail(queue)) = Len(queue) - 1 /\ \A i \in 1 .. Len(Tail(queue)) : Tail(queue)[i] = queue[i + 1]
      BY <1>2, <2>1, HeadTailProperties
    <2>6. \A i \in 1 .. Len(Tail(queue)) : i + 1 \in 1 .. Len(queue) BY <1>2, <2>5
    <2>7. Answered' = Answered BY <2>1 DEF Answered
    <2>8. \A i \in 1 .. Len(queue') : queue'[i].sent <= Answered' BY <1>3, <2>1, <2>5, <2>6, <2>7
    <2> HIDE DEF m
    <2>9. last_check'.sent = m.sent /\ last_check'.base = mempool_height BY <2>2
    <2>10. m.sent >= 1 => mempool_height >= m.sent BY <1>1, <2>1, <2>4 DEF FreshInv
    <2>11. mempool_height' = mempool_height /\ height_changed' = height_changed BY <1>10 DEF CheckAndExecuteTx
    <2> QED BY <2>1, <2>4, <2>7, <2>8, <2>9, <2>10, <2>11 DEF FreshInv, MempoolFresh
  <1>11. CASE HandleInitChain BY <1>7, <1>11 DEF HandleInitChain, mempool_vars
  <1>12. CASE HandleBeginBlock BY <1>7, <1>12 DEF HandleBeginBlock, mempool_vars
  <1>13. ASSUME NEW tx \in Txs, NEW anchor \in Roots, HandleDeliverTx(tx, anchor) PROVE FreshInv'
    BY <1>7, <1>13 DEF HandleDeliverTx, mempool_vars
  <1>14. ASSUME NEW rewards \in RewardNotes, HandleEndBlock(rewards) PROVE FreshInv'
    BY <1>7, <1>14 DEF HandleEndBlock, mempool_vars
  <1>15. CASE HandleCommit BY <1>7, <1>15 DEF HandleCommit, mempool_vars
  <1>16. CASE AnnounceHeight BY <1>7, <1>16 DEF AnnounceHeight
  <1>17. CASE Sync BY <1>7, <1>17 DEF Sync, mempool_vars
  <1>18. CASE UNCHANGED vars BY <1>7, <1>18 DEF vars, mempool_vars
  <1> QED
    BY <1>6, <1>8, <1>9, <1>10, <1>11, <1>12, <1>13, <1>14, <1>15, <1>16, <1>17, <1>18 DEF Next

\* The biased select: a transaction sent after a commit was answered is never
\* checked on a state from before it.
THEOREM MempoolIsFresh == Spec => []MempoolFresh
  <1>1. Init => FreshInv
    <2>1. Len(<< >>) = 0 /\ EmptyState.height = -1 BY DEF EmptyState
    <2> QED BY <2>1 DEF Init, FreshInv, MempoolFresh, NoCheck, Answered
  <1>2. FreshInv => MempoolFresh BY DEF FreshInv
  <1> QED BY <1>1, <1>2, FreshStep, ChainInvariant, PTL DEF Spec

-----------------------------------------------------------------------------
(* The ledger that a node implements                                       *)

\* What coins are worth is what the notes at their positions are.
LEMMA CoinsWorth ==
  ASSUME NEW s \in Seq(NoteSet), NEW P, P \subseteq DOMAIN s
  PROVE  Worth(CoinsAt(s, P)) = AmountsAt(s, P) /\ AmountsAt(s, P) \in Nat
  <1> DEFINE v == [p \in DOMAIN s |-> s[p].amount]
             f == [p \in DOMAIN s |-> <<p, s[p]>>]
             C == {f[p] : p \in P}
             w == [c \in C |-> c[2].amount]
  <1>1. DOMAIN s = 1 .. Len(s) /\ Len(s) \in Nat BY LenProperties
  <1>2. IsFiniteSet(DOMAIN s) BY <1>1, FS_Interval
  <1>3. IsFiniteSet(P) BY <1>2, FS_Subset
  <1>4. \A p \in P : v[p] \in Nat
    <2> TAKE p \in P
    <2>1. s[p] \in NoteSet BY <1>1, ElementOfSeq
    <2> QED BY <2>1, NoteAmount
  <1>5. \A p \in P : f[p] = <<p, s[p]>> OBVIOUS
  <1>6. CoinsAt(s, P) = C BY <1>5 DEF CoinsAt
  <1>7. \A p \in P : v[p] = w[f[p]] BY <1>5
  <1>8. \A p, q \in P : f[p] = f[q] => p = q BY <1>5
  <1>9. Worth(C) = SumFunctionOnSet(w, C) BY DEF Worth, SumFunction
  <1> HIDE DEF v, w, f
  <1>10. SumFunctionOnSet(v, P) = SumFunctionOnSet(w, C) BY <1>3, <1>4, <1>7, <1>8, SumRename
  <1>11. SumFunctionOnSet(v, P) \in Nat BY <1>3, <1>4, SumType
  <1> QED BY <1>6, <1>9, <1>10, <1>11 DEF AmountsAt, v

\* The fields of a ledger.
LEMMA LedgerFields ==
  ASSUME NEW a
  PROVE  /\ LedgerOf(a).held = CoinsAt(a.nct, Unspent(a)) /\ LedgerOf(a).spent = DOMAIN a.state.spent
         /\ LedgerOf(a).minted = a.state.supply /\ LedgerOf(a).fees = FeesPaid(a)
         /\ LedgerOf(a) = [held |-> CoinsAt(a.nct, Unspent(a)), spent |-> DOMAIN a.state.spent,
                           minted |-> a.state.supply, fees |-> FeesPaid(a)]
  BY DEF LedgerOf, CoinsAt

\* A ledger is made of four things of an instance.
LEMMA SameLedger ==
  ASSUME NEW a, NEW b, b.nct = a.nct, b.state.spent = a.state.spent, b.state.supply = a.state.supply
  PROVE  LedgerOf(b) = LedgerOf(a)
  BY DEF LedgerOf, Unspent, FeesPaid

\* Coins O join those of ledger l, which are distinct from them.
Joins(O, l, m) ==
  /\ O \intersect (l.held \union l.spent) = {}
  /\ m.held = l.held \union O

\* Notes that are added are fresh coins, worth their amounts.
LEMMA GrownLedger ==
  ASSUME NEW a, NEW b, NEW h, TreeOK(a, h), SpendOK(a, h), NEW new \in Seq(NoteSet), Grown(a, b, new)
  PROVE  \E O : /\ Joins(O, LedgerOf(a), LedgerOf(b)) /\ Worth(O) = TotalAmount(new)
                /\ TotalAmount(new) \in Nat
                /\ O \intersect CoinsAt(b.nct, DOMAIN a.nct) = {}
  <1> DEFINE P == {Len(a.nct) + i : i \in DOMAIN new}
             O == CoinsAt(b.nct, P)
             U == Unspent(a)
  <1>1. a.nct \in Seq(NoteSet) /\ b.nct \in Seq(NoteSet) BY GrownTree DEF TreeOK
  <1>2. P \intersect DOMAIN a.nct = {} /\ P \subseteq DOMAIN b.nct /\ Unspent(b) = U \union P
    BY GrownUnspent
  <1>3. \A p \in DOMAIN a.nct : p \in DOMAIN b.nct /\ b.nct[p] = a.nct[p]
    BY <1>1, GrownKeeps DEF Grown
  <1>4. AmountsAt(b.nct, P) = TotalAmount(new) /\ TotalAmount(new) \in Nat BY <1>1, AmountsAfter DEF Grown
  <1>5. U \subseteq DOMAIN a.nct BY DEF Unspent
  <1> HIDE DEF P, U
  <1>6. Worth(O) = TotalAmount(new) BY <1>1, <1>2, <1>4, CoinsWorth
  <1>7. CoinsAt(b.nct, U \union P) = CoinsAt(a.nct, U) \union O BY <1>3, <1>5 DEF CoinsAt
  <1>8. \A c \in O : c[1] \notin DOMAIN a.nct BY <1>2 DEF CoinsAt
  <1>9. \A c \in CoinsAt(a.nct, U) : c[1] \in DOMAIN a.nct BY <1>5 DEF CoinsAt
  <1>10. \A c \in DOMAIN a.state.spent : c[1] \in DOMAIN a.nct BY DEF SpendOK
  <1>11. \A c \in CoinsAt(b.nct, DOMAIN a.nct) : c[1] \in DOMAIN a.nct BY DEF CoinsAt
  <1> HIDE DEF O
  <1>12. Joins(O, LedgerOf(a), LedgerOf(b)) BY <1>2, <1>7, <1>8, <1>9, <1>10, LedgerFields DEF Joins, U
  <1>13. O \intersect CoinsAt(b.nct, DOMAIN a.nct) = {} BY <1>8, <1>11
  <1> QED BY <1>4, <1>6, <1>12, <1>13

\* Minting adds coins and their value.
LEMMA MintLedger ==
  ASSUME NEW a, NEW h, Good(a, h), NEW minted \in Seq(Allocations), NEW source
  PROVE  LET l == LedgerOf(a)
             m == LedgerOf(MintNotes(a, minted, source))
         IN \E O : /\ Joins(O, l, m) /\ Worth(O) \in Nat
                   /\ m.spent = l.spent /\ m.fees = l.fees /\ m.minted = l.minted + Worth(O)
  <1> DEFINE c == [a EXCEPT !.state.supply = @ + TotalAmount(minted)]
             new == Minted(a, minted)
             b == AddNotes(c, new, source)
  <1>1. IsApp(a) /\ TreeOK(a, h) /\ SpendOK(a, h) BY DEF Good
  <1>2. a.nct \in Seq(NoteSet) BY <1>1 DEF TreeOK
  <1>3. new \in Seq(NoteSet) /\ TotalAmount(new) = TotalAmount(minted) BY <1>2, MintedNotes
  <1>4. IsApp(c) BY <1>1 DEF IsApp, IsState, IsBlock
  <1>5. c.nct = a.nct /\ c.block = a.block /\ c.state.supply = a.state.supply + TotalAmount(minted)
    BY <1>1 DEF IsApp, IsState, IsBlock
  <1>6. /\ c.state.nct = a.state.nct /\ c.state.valid_anchors = a.state.valid_anchors
        /\ c.state.spent = a.state.spent /\ c.state.compact_block = a.state.compact_block
    BY <1>1 DEF IsApp, IsState, IsBlock
  <1>7. MintNotes(a, minted, source) = b BY DEF MintNotes, Minted
  <1> HIDE DEF c, new
  <1>8. Grown(c, b, new) /\ b.state.supply = c.state.supply BY <1>4, AddNotesFields
  <1> HIDE DEF b
  <1>9. Grown(a, b, new) BY <1>5, <1>6, <1>8 DEF Grown
  <1>10. PICK O : Joins(O, LedgerOf(a), LedgerOf(b)) /\ Worth(O) = TotalAmount(new) /\ TotalAmount(new) \in Nat
    BY <1>1, <1>3, <1>9, GrownLedger
  <1>11. FeesPaid(b) = FeesPaid(a) BY <1>1, <1>3, <1>9, GrownSpend
  <1>12. b.state.spent = a.state.spent BY <1>9 DEF Grown
  <1>13. b.state.supply = a.state.supply + Worth(O) BY <1>3, <1>5, <1>8, <1>10
  <1> QED BY <1>7, <1>10, <1>11, <1>12, <1>13, LedgerFields

\* A step from ledger l to ledger m exchanges I for O and takes a fee.
Exchanged(I, O, fee, l, m) ==
  /\ I \subseteq l.held
  /\ O \intersect (l.held \union l.spent) = {}
  /\ fee \in Nat
  /\ Worth(I) = Worth(O) + fee
  /\ m = [held |-> (l.held \ I) \union O, spent |-> l.spent \union I,
          minted |-> l.minted, fees |-> l.fees + fee]

\* A transaction that passes its checks is a balanced exchange.
LEMMA ExecuteLedger ==
  ASSUME NEW a, NEW h, Good(a, h), NEW tx \in Txs, NEW anchor, CheckTx(a, tx, anchor)
  PROVE  \E I, O, fee : Exchanged(I, O, fee, LedgerOf(a), LedgerOf(ExecuteTx(a, tx, anchor)))
  <1> DEFINE new == OutputNotes(tx)
             c == AddNotes(a, new, tx.id)
             n == Nullifiers(tx, anchor)
             b == SpendNullifiers(c, n, tx.id)
             Q == {tx.spends[i] : i \in DOMAIN tx.spends}
             I == CoinsAt(c.nct, Q)
             fee == IF DOMAIN tx.spends = {} THEN 0 ELSE tx.fee
             l == LedgerOf(a)
  <1>1. IsApp(a) /\ TreeOK(a, h) /\ SpendOK(a, h) /\ ValueOK(a) BY DEF Good
  <1>2. new \in Seq(NoteSet) /\ TotalAmount(new) = TotalAmount(tx.outputs) BY OutputNotesType
  <1>3. IsApp(c) /\ Grown(a, c, new) /\ c.state.supply = a.state.supply BY <1>1, AddNotesFields
  <1>4. ExecuteTx(a, tx, anchor) = b BY DEF ExecuteTx
  <1>5. Spendable(a, tx) BY <1>1, CheckedSpendable
  <1> HIDE DEF c, new
  <1>6. TreeOK(c, h) BY <1>1, <1>2, <1>3, GrownTree
  <1>7. SpendOK(c, h) /\ Paid(c) = Paid(a) /\ FeesPaid(c) = FeesPaid(a) BY <1>1, <1>2, <1>3, GrownSpend
  <1>8. CheckTx(c, tx, anchor)
    BY <1>3 DEF Grown, CheckTx, CheckTxStateful, CheckClaimedAnchor, CheckNullifierUnspent
  <1>9. Spendable(c, tx) /\ n = Nullifiers(tx, c.nct) /\ BindingSigVerifies(tx, c.nct)
    BY <1>6, <1>8, CheckedSpendable
  <1> HIDE DEF n
  <1>10. Charged(c, b, tx) /\ b.state.supply = c.state.supply BY <1>3, <1>9, SpendNullifiersFields
  <1> HIDE DEF b
  <1>11. c.nct \in Seq(NoteSet) /\ a.nct \in Seq(NoteSet) /\ b.nct = c.nct
    BY <1>1, <1>6, <1>10 DEF TreeOK, Charged
  <1>12. IsFiniteSet(Paid(a)) BY <1>1 DEF ValueOK
  <1>13. FeesPaid(b) = FeesPaid(a) + fee
    <2>1. IsFiniteSet(Paid(c)) BY <1>7, <1>12
    <2>2. FeesPaid(b) = FeesPaid(c) + fee BY <1>7, <1>9, <1>10, <1>11, <2>1, ChargedFees
    <2> QED BY <1>7, <2>2
  <1>14. /\ Q \subseteq Unspent(c) /\ Unspent(b) = Unspent(c) \ Q
         /\ DOMAIN b.state.spent = DOMAIN c.state.spent \union I
         /\ AmountsAt(c.nct, Q) = SpentAmount(tx, c.nct)
    BY <1>6, <1>9, <1>10, ChargedUnspent
  <1>15. PICK O : /\ Joins(O, l, LedgerOf(c)) /\ Worth(O) = TotalAmount(new)
                  /\ TotalAmount(new) \in Nat
                  /\ O \intersect CoinsAt(c.nct, DOMAIN a.nct) = {}
    BY <1>1, <1>2, <1>3, GrownLedger
  <1>16. Q \subseteq DOMAIN a.nct /\ Q \subseteq DOMAIN c.nct BY <1>5, <1>9 DEF Spendable
  <1>17. tx.fee \in Nat BY <1>12, FeesAre
  <1>18. Worth(I) = SpentAmount(tx, c.nct) /\ SpentAmount(tx, c.nct) \in Nat
    <2> HIDE DEF Q
    <2> QED BY <1>11, <1>14, <1>16, CoinsWorth
  <1>19. SpentAmount(tx, c.nct) = TotalAmount(tx.outputs) + tx.fee BY <1>9 DEF BindingSigVerifies, SpentAmount
  <1>20. DOMAIN tx.spends = {} => SpentAmount(tx, c.nct) = 0 BY <1>6, <1>9, <1>10, ChargedHeld
  <1>21. Worth(I) = Worth(O) + fee
    <2> DEFINE t == TotalAmount(tx.outputs)
               S == SpentAmount(tx, c.nct)
    <2>1. t \in Nat /\ S \in Nat /\ S = t + tx.fee /\ Worth(I) = S /\ Worth(O) = t
      BY <1>2, <1>15, <1>18, <1>19
    <2>2. DOMAIN tx.spends = {} => S = 0 BY <1>20
    <2> HIDE DEF t, S, I
    <2> QED BY <1>17, <2>1, <2>2
  <1>22. fee \in Nat BY <1>17
  <1>23. LedgerOf(c).held = CoinsAt(c.nct, Unspent(c)) /\ LedgerOf(b).held = CoinsAt(c.nct, Unspent(b))
    BY <1>11, LedgerFields
  <1> HIDE DEF Q, fee
  <1>24. I \subseteq CoinsAt(c.nct, Unspent(c)) /\ CoinsAt(c.nct, Unspent(b)) = CoinsAt(c.nct, Unspent(c)) \ I
    BY <1>14 DEF CoinsAt
  <1>25. I \subseteq CoinsAt(c.nct, DOMAIN a.nct) BY <1>16 DEF CoinsAt
  <1> HIDE DEF I
  <1>26. LedgerOf(c).held = l.held \union O /\ O \intersect (l.held \union l.spent) = {} BY <1>15 DEF Joins
  <1>27. O \intersect I = {} BY <1>15, <1>25
  <1>28. I \subseteq l.held /\ LedgerOf(b).held = (l.held \ I) \union O
    <2> HIDE DEF l
    <2> QED BY <1>23, <1>24, <1>26, <1>27
  <1>29. LedgerOf(b).spent = l.spent \union I /\ LedgerOf(b).minted = l.minted /\ LedgerOf(b).fees = l.fees + fee
    BY <1>3, <1>10, <1>13, <1>14, LedgerFields DEF Grown
  <1>30. LedgerOf(b) = [held |-> LedgerOf(b).held, spent |-> LedgerOf(b).spent,
                        minted |-> LedgerOf(b).minted, fees |-> LedgerOf(b).fees]
    BY LedgerFields
  <1> HIDE DEF l
  <1>31. LedgerOf(b) = [held |-> (l.held \ I) \union O, spent |-> l.spent \union I,
                        minted |-> l.minted, fees |-> l.fees + fee]
    BY <1>28, <1>29, <1>30
  <1>32. Exchanged(I, O, fee, l, LedgerOf(b)) BY <1>21, <1>22, <1>26, <1>28, <1>31 DEF Exchanged
  <1> QED BY <1>4, <1>32 DEF l

\* A coin that is held was not spent.
LEMMA HeldNotSpent == ASSUME NEW a PROVE LedgerOf(a).held \intersect LedgerOf(a).spent = {}
  <1>1. \A c \in CoinsAt(a.nct, Unspent(a)) : c \notin DOMAIN a.state.spent BY DEF CoinsAt, Unspent
  <1> QED BY <1>1, LedgerFields

\* A balanced exchange is a transfer of the ledger ...
LEMMA TransferStep ==
  ASSUME NEW I, NEW O, NEW fee, Exchanged(I, O, fee, LedgerOf(app), LedgerOf(app')),
         LedgerOf(app).fees \in Nat, storage' = storage
  PROVE  L!Transfer
  <1> DEFINE l == LedgerOf(app)
             m == LedgerOf(app')
  <1>1. l.held \intersect l.spent = {} BY HeldNotSpent
  <1>2. /\ I \subseteq l.held /\ O \intersect (l.held \union l.spent) = {}
        /\ fee \in Nat /\ Worth(I) = Worth(O) + fee
        /\ m = [held |-> (l.held \ I) \union O, spent |-> l.spent \union I,
                minted |-> l.minted, fees |-> l.fees + fee]
    BY DEF Exchanged
  <1> HIDE DEF l, m
  <1>3. m.held = (l.held \ I) \union O /\ m.spent = l.spent \union I /\ m.fees = l.fees + fee BY <1>2
  <1>4. m.spent \ l.spent = I BY <1>1, <1>2, <1>3
  <1>5. m.held \ l.held = O BY <1>2, <1>3
  <1>6. m.fees - l.fees = fee BY <1>2, <1>3 DEF l
  <1>7. fee >= 0 BY <1>2
  <1>8. L!Inputs = I /\ L!Outputs = O /\ L!Fee = fee
    BY <1>4, <1>5, <1>6 DEF L!Inputs, L!Outputs, L!Fee, l, m
  <1>9. UNCHANGED LedgerOf(AppNew(storage)) OBVIOUS
  <1>10. /\ L!Inputs \subseteq l.held /\ L!Fresh(L!Outputs) /\ L!Fee >= 0
         /\ Worth(L!Inputs) = Worth(L!Outputs) + L!Fee
    BY <1>2, <1>7, <1>8 DEF L!Fresh, l
  <1>11. m = [held |-> (l.held \ L!Inputs) \union L!Outputs, spent |-> l.spent \union L!Inputs,
              minted |-> l.minted, fees |-> l.fees + L!Fee]
    BY <1>2, <1>8
  <1> QED BY <1>9, <1>10, <1>11 DEF L!Transfer, l, m

\* ... and coins that join with their value are minted.
LEMMA MintStep ==
  ASSUME NEW O, Joins(O, LedgerOf(app), LedgerOf(app')), LedgerOf(app').spent = LedgerOf(app).spent,
         LedgerOf(app').fees = LedgerOf(app).fees,
         LedgerOf(app').minted = LedgerOf(app).minted + Worth(O)
  PROVE  L!MintCoins
  <1> DEFINE l == LedgerOf(app)
             m == LedgerOf(app')
  <1>1. /\ O \intersect (l.held \union l.spent) = {} /\ m.held = l.held \union O
        /\ m.spent = l.spent /\ m.fees = l.fees /\ m.minted = l.minted + Worth(O)
    BY DEF Joins
  <1>2. /\ l = [held |-> l.held, spent |-> l.spent, minted |-> l.minted, fees |-> l.fees]
        /\ m = [held |-> m.held, spent |-> m.spent, minted |-> m.minted, fees |-> m.fees]
    BY LedgerFields
  <1> HIDE DEF l, m
  <1>3. m.held \ l.held = O BY <1>1
  <1>4. L!Outputs = O BY <1>3 DEF L!Outputs, l, m
  <1>5. L!Fresh(L!Outputs) BY <1>1, <1>4 DEF L!Fresh, l
  <1>6. m = [l EXCEPT !.held = @ \union L!Outputs, !.minted = @ + Worth(L!Outputs)]
    BY <1>1, <1>2, <1>4
  <1> QED BY <1>5, <1>6 DEF L!MintCoins, l, m

\* Writing the block and the tree does not change the ledger.
LEMMA WriteLedger ==
  ASSUME NEW a, IsApp(a) PROVE LedgerOf(WriteCompactBlockAndNct(a)) = LedgerOf(a)
  <1> DEFINE b == WriteCompactBlockAndNct(a)
  <1>1. b.nct = a.nct /\ b.state.spent = a.state.spent /\ b.state.supply = a.state.supply BY WriteFields
  <1> HIDE DEF b
  <1>2. LedgerOf(b) = LedgerOf(a) BY <1>1, SameLedger
  <1> QED BY <1>2 DEF b

\* Genesis mints its allocations.
LEMMA GenesisLedger ==
  LET a == AppNew(EmptyState)
      l == LedgerOf(a)
      m == LedgerOf(InitChain(a))
  IN  /\ l = L!EmptyLedger
      /\ \E O : /\ Joins(O, l, m) /\ m.spent = l.spent /\ m.fees = l.fees
                /\ m.minted = l.minted + Worth(O)
  <1> DEFINE a == AppNew(EmptyState)
             c == BeginBlock(a, 0)
             d == MintNotes(c, GenesisAllocations, Genesis)
             b == WriteCompactBlockAndNct(d)
             l == LedgerOf(a)
  <1>1. Good(a, -1) BY EmptyGood
  <1>2. l = L!EmptyLedger
    <2>1. a.nct = << >> /\ DOMAIN a.state.spent = {} /\ a.state.supply = 0
      BY DEF AppNew, EmptyState, Nothing
    <2> HIDE DEF a
    <2>2. Unspent(a) = {} BY <2>1 DEF Unspent
    <2>3. CoinsAt(a.nct, Unspent(a)) = {} BY <2>2 DEF CoinsAt
    <2>4. FeesPaid(a) = 0
      <3>1. Paid(a) = {} BY <2>1 DEF Paid
      <3>2. IsFiniteSet(Paid(a)) BY <3>1, FS_EmptySet
      <3>3. FeesPaid(a) = SumFunctionOnSet([t \in Txs |-> t.fee], {}) BY <3>1, <3>2, FeesAre
      <3> QED BY <3>3, SumEmpty
    <2> QED BY <2>1, <2>3, <2>4, LedgerFields DEF L!EmptyLedger
  <1>3. IsApp(a) BY <1>1 DEF Good
  <1> HIDE DEF a
  <1>4. Good(c, -1) BY <1>1, BeginBlockGood
  <1>5. LedgerOf(c) = l
    <2>1. c.nct = a.nct /\ c.state = [a.state EXCEPT !.height = 0] BY <1>3 DEF BeginBlock, IsApp
    <2> HIDE DEF c
    <2>2. c.state.spent = a.state.spent /\ c.state.supply = a.state.supply BY <1>3, <2>1 DEF IsApp, IsState
    <2> QED BY <2>1, <2>2, SameLedger
  <1>6. InitChain(a) = b BY DEF InitChain, BeginBlock
  <1> HIDE DEF c
  <1>7. GenesisAllocations \in Seq(Allocations) BY PoolAssumption
  <1>8. Good(d, -1) BY <1>4, <1>7, MintGood
  <1>9. \E O : /\ Joins(O, LedgerOf(c), LedgerOf(d)) /\ LedgerOf(d).spent = LedgerOf(c).spent
               /\ LedgerOf(d).fees = LedgerOf(c).fees
               /\ LedgerOf(d).minted = LedgerOf(c).minted + Worth(O)
    BY <1>4, <1>7, MintLedger
  <1> HIDE DEF d
  <1>10. LedgerOf(b) = LedgerOf(d) BY <1>8, WriteLedger DEF Good
  <1> HIDE DEF b, l
  <1> QED BY <1>2, <1>5, <1>6, <1>9, <1>10 DEF a, l

\* The end of a block mints the commissions.
LEMMA EndBlockLedger ==
  ASSUME NEW a, NEW h, Good(a, h), NEW rewards \in Seq(Allocations)
  PROVE  LET l == LedgerOf(a)
             m == LedgerOf(EndBlock(a, rewards))
         IN \E O : /\ Joins(O, l, m) /\ m.spent = l.spent /\ m.fees = l.fees
                   /\ m.minted = l.minted + Worth(O)
  <1> DEFINE c == [a EXCEPT !.block.height = a.state.height]
             d == MintNotes(c, rewards, Reward)
             b == WriteCompactBlockAndNct(d)
  <1>1. IsApp(a) BY DEF Good
  <1>2. IsApp(c) BY <1>1 DEF IsApp, IsState, IsBlock
  <1>3. c.nct = a.nct /\ c.state = a.state /\ c.block = [a.block EXCEPT !.height = a.state.height]
    BY <1>1 DEF IsApp
  <1>4. EndBlock(a, rewards) = b BY DEF EndBlock
  <1> HIDE DEF c
  <1>5. c.block.outputs = a.block.outputs /\ c.block.nullifiers = a.block.nullifiers
    BY <1>1, <1>3 DEF IsApp, IsBlock
  <1>6. Good(c, h) BY <1>2, <1>3, <1>5, SameGood
  <1>7. LedgerOf(c) = LedgerOf(a) BY <1>3, SameLedger
  <1>8. Good(d, h) BY <1>6, MintGood
  <1>9. \E O : /\ Joins(O, LedgerOf(c), LedgerOf(d)) /\ LedgerOf(d).spent = LedgerOf(c).spent
               /\ LedgerOf(d).fees = LedgerOf(c).fees
               /\ LedgerOf(d).minted = LedgerOf(c).minted + Worth(O)
    BY <1>6, MintLedger
  <1> HIDE DEF d
  <1>10. LedgerOf(b) = LedgerOf(d) BY <1>8, WriteLedger DEF Good
  <1> HIDE DEF b
  <1> QED BY <1>4, <1>7, <1>9, <1>10

\* Every step of the node is a step of the ledger or leaves it alone.
LEMMA LedgerStep ==
  ASSUME ChainInv, [Next]_vars
  PROVE  [L!Next]_<<LedgerOf(app), LedgerOf(AppNew(storage))>>
  <1> DEFINE H == storage.height
             Goal == [L!Next]_<<LedgerOf(app), LedgerOf(AppNew(storage))>>
  <1>1. ConsensusOK(phase, app, storage) BY DEF ChainInv
  <1>2. ASSUME UNCHANGED <<app, storage>> PROVE Goal BY <1>2
  <1>3. CASE HandleInitChain
    <2>1. storage = EmptyState /\ app = AppNew(EmptyState)
      BY <1>1, <1>3 DEF HandleInitChain, ConsensusOK
    <2>2. InitChain(app) = AppNew(InitChain(app).state) BY <2>1, InitChainGood
    <2>3. app' = InitChain(app) /\ AppNew(storage') = InitChain(app) BY <1>3, <2>2 DEF HandleInitChain
    <2>4. LedgerOf(app) = L!EmptyLedger /\ LedgerOf(AppNew(storage)) = L!EmptyLedger
      BY <2>1, GenesisLedger
    <2>5. L!MintCoins BY <2>1, <2>3, GenesisLedger, MintStep
    <2>6. LedgerOf(AppNew(storage')) = LedgerOf(app') BY <2>3
    <2> QED BY <2>4, <2>5, <2>6 DEF L!Next, L!Genesis
  <1>4. CASE HandleBeginBlock
    <2>1. IsApp(app) /\ app' = BeginBlock(app, app.state.height + 1) /\ storage' = storage
      BY <1>1, <1>4, GoodHeight DEF HandleBeginBlock, ConsensusOK
    <2>2. app'.nct = app.nct /\ app'.state = [app.state EXCEPT !.height = app.state.height + 1]
      BY <2>1 DEF BeginBlock, IsApp
    <2>3. app'.state.spent = app.state.spent /\ app'.state.supply = app.state.supply
      BY <2>1, <2>2 DEF IsApp, IsState
    <2>4. LedgerOf(app') = LedgerOf(app) BY <2>2, <2>3, SameLedger
    <2> QED BY <2>1, <2>4
  <1>5. ASSUME NEW tx \in Txs, NEW anchor \in Roots, HandleDeliverTx(tx, anchor) PROVE Goal
    <2>1. /\ Good(app, H) /\ CheckTx(app, tx, anchor) /\ app' = ExecuteTx(app, tx, anchor)
          /\ storage' = storage
      BY <1>1, <1>5 DEF HandleDeliverTx, ConsensusOK
    <2>2. PICK I, O, fee : Exchanged(I, O, fee, LedgerOf(app), LedgerOf(app')) BY <2>1, ExecuteLedger
    <2>3. LedgerOf(app).fees \in Nat BY <2>1, FeesAre, LedgerFields DEF Good, ValueOK
    <2>4. L!Transfer BY <2>1, <2>2, <2>3, TransferStep
    <2> QED BY <2>4 DEF L!Next
  <1>6. ASSUME NEW rewards \in RewardNotes, HandleEndBlock(rewards) PROVE Goal
    <2>1. Good(app, H) /\ app' = EndBlock(app, rewards) /\ storage' = storage
      BY <1>1, <1>6 DEF HandleEndBlock, ConsensusOK
    <2>2. rewards \in Seq(Allocations) BY NodeAssumption
    <2>3. L!MintCoins BY <2>1, <2>2, EndBlockLedger, MintStep
    <2> QED BY <2>1, <2>3 DEF L!Next, L!Mint
  <1>7. CASE HandleCommit
    <2>1. app = AppNew(app.state) BY <1>1, <1>7 DEF HandleCommit, ConsensusOK
    <2>2. app' = app /\ AppNew(storage') = app BY <1>7, <2>1 DEF HandleCommit
    <2> QED BY <2>2 DEF L!Next, L!Settle
  <1>8. CASE Crash
    <2>1. app' = AppNew(storage) /\ storage' = storage BY <1>8 DEF Crash
    <2> QED BY <2>1 DEF L!Next, L!Abandon
  <1>9. ASSUME NEW tx \in Txs, NEW anchor \in Roots, SendCheckTx(tx, anchor) PROVE Goal
    BY <1>2, <1>9 DEF SendCheckTx, consensus
  <1>10. CASE MempoolReset BY <1>2, <1>10 DEF MempoolReset, consensus
  <1>11. CASE CheckAndExecuteTx BY <1>2, <1>11 DEF CheckAndExecuteTx, consensus
  <1>12. CASE Sync BY <1>2, <1>12 DEF Sync, consensus
  <1>13. CASE UNCHANGED vars BY <1>2, <1>13 DEF vars, consensus
  <1>14. CASE AnnounceHeight BY <1>2, <1>14 DEF AnnounceHeight
  <1> QED BY <1>3, <1>4, <1>5, <1>6, <1>7, <1>8, <1>9, <1>10, <1>11, <1>12, <1>13, <1>14 DEF Next

\* A node implements the abstract ledger, for every genesis, transactions,
\* blocks and crashes: what it executes are balanced transfers of unspent
\* notes, and what it commits is a whole block of them.
THEOREM NodeImplementsLedger == Spec => ImplementsLedger
  <1>1. Init => L!Init
    <2> SUFFICES ASSUME Init PROVE L!Init OBVIOUS
    <2>1. app = AppNew(EmptyState) /\ storage = EmptyState BY DEF Init
    <2> QED BY <2>1, GenesisLedger DEF L!Init
  <1>2. ChainInv /\ [Next]_vars => [L!Next]_<<LedgerOf(app), LedgerOf(AppNew(storage))>> BY LedgerStep
  <1> QED BY <1>1, <1>2, ChainInvariant, PTL DEF Spec, ImplementsLedger, L!Spec
===============================================================================
