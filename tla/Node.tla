--------------------------------- MODULE Node ---------------------------------
(***************************************************************************)
(* A full node (pd) around the shielded pool: the consensus worker, which  *)
(* executes blocks on one App and commits it to storage; the mempool       *)
(* worker, which checks transactions on an App of its own and throws it    *)
(* away when it sees a new height; a crash and restart at any time; and a  *)
(* light client that syncs from the node's compact blocks.                 *)
(*                                                                         *)
(* Writing a commit to storage is one step here (module Storage takes it   *)
(* apart).  Block proposers are not trusted: any transaction may be        *)
(* delivered, made against any tree that ever existed, any number of       *)
(* times.                                                                  *)
(***************************************************************************)
EXTENDS ShieldedPool

CONSTANTS
  Txs,           \* transactions of the model, made against some anchor
  RewardNotes,   \* sequences of commission notes a block may mint
  MaxHeight, MaxBlockTxs, QueueLen,  \* bounds; the queue's is 10 in the code
  MaxSyncs

ASSUME NodeAssumption ==
  /\ \A tx \in Txs : Transaction(tx)
  /\ \A s, t \in Txs : s.id = t.id => s = t  \* the id is a hash of the transaction
  /\ RewardNotes \subseteq Seq(Allocations)
  /\ MaxHeight \in Nat /\ MaxBlockTxs \in Nat /\ QueueLen \in Nat /\ MaxSyncs \in Nat

VARIABLES
  phase,           \* of the consensus worker in the ABCI cycle
  app,             \* consensus Worker::app
  storage,         \* the latest committed state
  mempool,         \* mempool Worker::app
  mempool_height,  \* height of the state it was made from
  height_changed,  \* the watch channel has a height the mempool has not seen
  queue,           \* CheckTx requests waiting for the mempool worker
  last_check,      \* the last CheckTx answered
  client,          \* a client's scanned height, tree and nullifiers
  block_txs, syncs

consensus == <<phase, app, storage, block_txs>>
mempool_vars == <<mempool, mempool_height, height_changed, queue, last_check>>
client_vars == <<client, syncs>>
vars == <<consensus, mempool_vars, client_vars>>

\* Every tree there ever was: roots an author of a transaction may claim.
Roots == {SubSeq(app.nct, 1, n) : n \in 0 .. Len(app.nct)}

NoCheck == [sent |-> -1, base |-> -1]
NewClient == [height |-> -1, nct |-> << >>, nullifiers |-> << >>]

Init ==
  /\ phase = "pre_genesis" /\ block_txs = 0
  /\ app = AppNew(EmptyState)
  /\ storage = EmptyState
  /\ mempool = AppNew(EmptyState) /\ mempool_height = -1
  /\ height_changed = FALSE
  /\ queue = << >>
  /\ last_check = NoCheck
  /\ client = NewClient /\ syncs = 0

-----------------------------------------------------------------------------
(* Consensus worker                                                        *)

\* Worker::init_chain commits, but does not send the height to the mempool.
HandleInitChain ==
  /\ phase = "pre_genesis"
  /\ phase' = "committed"
  /\ storage' = InitChain(app).state
  /\ app' = AppNew(InitChain(app).state)
  /\ UNCHANGED <<block_txs, mempool_vars, client_vars>>

HandleBeginBlock ==
  /\ phase = "committed" /\ app.state.height < MaxHeight
  /\ phase' = "block" /\ block_txs' = 0
  /\ app' = BeginBlock(app, app.state.height + 1)
  /\ UNCHANGED <<storage, mempool_vars, client_vars>>

\* An invalid transaction is ignored.
HandleDeliverTx(tx, anchor) ==
  /\ phase = "block" /\ block_txs < MaxBlockTxs
  /\ CheckTx(app, tx, anchor)
  /\ block_txs' = block_txs + 1
  /\ app' = ExecuteTx(app, tx, anchor)
  /\ UNCHANGED <<phase, storage, mempool_vars, client_vars>>

HandleEndBlock(rewards) ==
  /\ phase = "block"
  /\ phase' = "ended"
  /\ app' = EndBlock(app, rewards)
  /\ UNCHANGED <<storage, block_txs, mempool_vars, client_vars>>

\* Mutant: the components are re-created from the state before the commit.
HandleCommitStale ==
  /\ phase = "ended"
  /\ phase' = "written" /\ block_txs' = 0
  /\ storage' = app.state
  /\ app' = AppNew(storage)
  /\ UNCHANGED <<mempool_vars, client_vars>>

\* App::commit: the writes are committed and the components re-created from
\* them, which nobody but this worker sees.
HandleCommit ==
  /\ phase = "ended"
  /\ phase' = "written" /\ block_txs' = 0
  /\ storage' = app.state
  /\ app' = AppNew(app.state)
  /\ UNCHANGED <<mempool_vars, client_vars>>

\* Then the mempool is told the height, and Tendermint is answered.
AnnounceHeight ==
  /\ phase = "written"
  /\ phase' = "committed"
  /\ height_changed' = TRUE
  /\ UNCHANGED <<app, storage, block_txs, mempool, mempool_height, queue, last_check, client_vars>>

\* The last height that Tendermint knows to be committed.
Answered == IF phase = "written" THEN storage.height - 1 ELSE storage.height

-----------------------------------------------------------------------------
(* Mempool worker                                                          *)

\* Tendermint sends a CheckTx, for a new transaction or to recheck one.
SendCheckTx(tx, anchor) ==
  /\ Len(queue) < QueueLen
  /\ queue' = Append(queue, [tx |-> tx, anchor |-> anchor, sent |-> Answered])
  /\ UNCHANGED <<consensus, mempool, mempool_height, height_changed, last_check, client_vars>>

\* Mutant: the new height waits until there is no message, and no message is
\* received while it waits.
MempoolResetIdle ==
  /\ height_changed /\ queue = << >>
  /\ height_changed' = FALSE
  /\ mempool' = AppNew(storage) /\ mempool_height' = storage.height
  /\ UNCHANGED <<consensus, queue, last_check, client_vars>>

\* The select is biased: a new height is handled before any message.
MempoolReset ==
  /\ height_changed
  /\ height_changed' = FALSE
  /\ mempool' = AppNew(storage) /\ mempool_height' = storage.height
  /\ UNCHANGED <<consensus, queue, last_check, client_vars>>

\* Mutant: the select is not biased.
MayReceiveAlways == TRUE

MayReceive == ~height_changed

CheckAndExecuteTx ==
  /\ MayReceive /\ queue # << >>
  /\ LET m == Head(queue)
     IN /\ mempool' = IF CheckTx(mempool, m.tx, m.anchor) THEN ExecuteTx(mempool, m.tx, m.anchor)
                      ELSE mempool
        /\ last_check' = [sent |-> m.sent, base |-> mempool_height]
  /\ queue' = Tail(queue)
  /\ UNCHANGED <<consensus, mempool_height, height_changed, client_vars>>

-----------------------------------------------------------------------------
(* Crash, and the client                                                   *)

\* Everything in memory is lost, a commit that was written is not.  Tendermint learns the committed height from
\* Info and has the node execute the next block from its beginning.
Crash ==
  /\ phase # "pre_genesis"
  /\ phase' = "committed" /\ block_txs' = 0
  /\ app' = AppNew(storage)
  /\ mempool' = AppNew(storage) /\ mempool_height' = storage.height
  /\ height_changed' = FALSE
  /\ queue' = << >>
  /\ UNCHANGED <<storage, last_check, client_vars>>

\* Concatenation of a component of the compact blocks of heights from .. to.
Concatenated(blocks, field, from, to) ==
  LET upTo[h \in from - 1 .. to] == IF h = from - 1 THEN << >> ELSE upTo[h - 1] \o blocks[h][field]
  IN upTo[to]

\* compact_block_range with end_height 0: the range excludes its end.
LastRequested == storage.height - 1

\* Mutant: the last scanned block is scanned again.
SyncAgain ==
  LET from == IF client.height < 0 THEN 0 ELSE client.height
  IN /\ storage.height >= 0 /\ syncs < MaxSyncs
     /\ syncs' = syncs + 1
     /\ client' = [height |-> LastRequested,
                   nct |-> client.nct \o
                     Concatenated(storage.compact_block, "outputs", from, LastRequested),
                   nullifiers |-> client.nullifiers \o
                     Concatenated(storage.compact_block, "nullifiers", from, LastRequested)]
     /\ UNCHANGED <<consensus, mempool_vars>>

\* The client asks for the blocks after the last one it has scanned, and
\* scan_block adds their notes to its tree.
Sync ==
  LET from == client.height + 1
  IN /\ storage.height >= 0 /\ syncs < MaxSyncs
     /\ syncs' = syncs + 1
     /\ client' = [height |-> LastRequested,
                   nct |-> client.nct \o
                     Concatenated(storage.compact_block, "outputs", from, LastRequested),
                   nullifiers |-> client.nullifiers \o
                     Concatenated(storage.compact_block, "nullifiers", from, LastRequested)]
     /\ UNCHANGED <<consensus, mempool_vars>>

MempoolStep == MempoolReset \/ CheckAndExecuteTx

Next ==
  \/ HandleInitChain
  \/ HandleBeginBlock
  \/ \E tx \in Txs, anchor \in Roots : HandleDeliverTx(tx, anchor)
  \/ \E rewards \in RewardNotes : HandleEndBlock(rewards)
  \/ HandleCommit
  \/ AnnounceHeight
  \/ \E tx \in Txs, anchor \in Roots : SendCheckTx(tx, anchor)
  \/ MempoolReset
  \/ CheckAndExecuteTx
  \/ Crash
  \/ Sync

\* The mempool worker's task is scheduled: its loop takes a step that stays possible.
Fairness == WF_vars(MempoolStep)

Spec == Init /\ [][Next]_vars /\ Fairness

-----------------------------------------------------------------------------
(* Properties                                                              *)

\* Both workers' instances of the application, and what is committed.
Apps == {app, mempool, AppNew(storage)}

Unspent(a) == {p \in DOMAIN a.nct : <<p, a.nct[p]>> \notin DOMAIN a.state.spent}

\* The fees of the transactions executed on an instance.
FeesPaid(a) ==
  SumFunction([tx \in {tx \in Txs : \E nf \in DOMAIN a.state.spent : a.state.spent[nf] = tx.id}
                 |-> tx.fee])

\* No value appears or disappears: in every instance of the state, at every
\* point of a block, the unspent notes and the fees paid add up to the supply
\* that was minted.  (execute_tx leaves the recorded supply alone, so it
\* overstates the notes by the fees.)
ValueConserved ==
  \A a \in Apps :
    SumFunction([p \in Unspent(a) |-> a.nct[p].amount]) + FeesPaid(a) = a.state.supply

\* A note is spent once: over all committed blocks no nullifier appears twice.
NoDoubleSpend ==
  LET all == Concatenated(storage.compact_block, "nullifiers", 0, storage.height)
  IN \A i, j \in DOMAIN all : i # j => all[i] # all[j]

\* The compact blocks tell a client everything: their outputs, in order, are
\* the tree, and their nullifiers are the spent ones.
BlocksRebuildTree ==
  /\ Concatenated(storage.compact_block, "outputs", 0, storage.height) = storage.nct
  /\ LET all == Concatenated(storage.compact_block, "nullifiers", 0, storage.height)
     IN {all[i] : i \in DOMAIN all} = DOMAIN storage.spent

\* Only the tree at the end of a committed block is a valid anchor, in every
\* instance of the state a transaction is checked on.
AnchorsEndBlocks ==
  \A a \in Apps :
    DOMAIN a.state.valid_anchors =
      {Concatenated(a.state.compact_block, "outputs", 0, h) : h \in DOMAIN a.state.compact_block}

\* A spend, once committed, is there for ever, with the transaction that made it.
SpentIsFinal ==
  [][\A nf \in DOMAIN storage.spent :
       nf \in DOMAIN storage'.spent /\ storage'.spent[nf] = storage.spent[nf]]_vars

\* A CheckTx sent after the commit of a block was answered is checked on that
\* block's state or a later one (genesis excepted, see HandleInitChain).
MempoolFresh == last_check.sent >= 1 => last_check.base >= last_check.sent

\* A synced client can spend: its tree is one the node accepts as an anchor.
ClientAnchorAccepted ==
  client.height >= 0 =>
    /\ CheckClaimedAnchor(storage, client.nct)
    /\ client.nct = Concatenated(storage.compact_block, "outputs", 0, client.height)

\* An instance of the state as a ledger: its coins are the notes of the tree
\* with their positions, and the nullifiers are the coins that were spent.
LedgerOf(a) ==
  [held   |-> {<<p, a.nct[p]>> : p \in Unspent(a)},
   spent  |-> DOMAIN a.state.spent,
   minted |-> a.state.supply,
   fees   |-> FeesPaid(a)]

Worth(coins) == SumFunction([c \in coins |-> c[2].amount])

L == INSTANCE Ledger WITH Value <- Worth,
       working <- LedgerOf(app), settled <- LedgerOf(AppNew(storage))

\* The consensus worker keeps a ledger: each transaction it executes is one
\* balanced transfer of notes that are unspent at that moment, and only genesis
\* and commissions make value; what is committed is all of a block or nothing,
\* and a crash takes the worker back to the last committed block.
ImplementsLedger == L!Spec

\* The mempool catches up with every block whose commit was answered.
MempoolCatchesUp ==
  \A h \in 1 .. MaxHeight : (Answered >= h) ~> (mempool_height >= h)
=============================================================================
