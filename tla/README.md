# A TLA+ verification project for Penumbra

This directory holds TLA+ models of the Penumbra node (`pd`) and of its
command line wallet (`pcli`), the TLC configurations that model-check them on
small instances, and theorems about them with proofs that TLAPS checks. The
models are translated from the Rust source; a comment at a definition names
the function it stands for, and `PROJECT.json` maps each one to its lines.

## 1. The system

Penumbra is a proof-of-stake chain in which all value lives in notes of a
shielded pool. A Tendermint process orders transactions and drives `pd` over
ABCI. Users run `pcli`, which keeps the notes of one wallet.

| Part | State | Operations | Talks to |
|---|---|---|---|
| Staking component (`stake/src/component.rs`) | validator list, definitions, states (Inactive, Active, Unbonding, Slashed), voting powers, current and next rates, uptime trackers, delegation changes per height; in memory the changes and validator updates of the block | `init_chain`, `begin_block` (uptime, evidence), `check_tx_*`, `execute_tx`, `end_block` (`end_epoch`, `process_epoch_transitions`) | token supplies and commission notes of the shielded pool, validator updates to Tendermint |
| Rates (`stake/src/rate.rs`, `funding_stream.rs`) | fixed-point numbers in `u64` | `next`, `slash`, `delegation_amount`, `unbonded_amount`, `voting_power`, `reward_amount` | used by staking and by the wallet |
| Uptime (`stake/src/uptime.rs`) | a bit vector as ring buffer, stored as protobuf | `new`, `mark_height_as_signed`, `num_missed_blocks` | staking, at each block |
| Shielded pool (`shielded-pool/src/component.rs`) | note commitment tree, anchors, spent nullifiers, note sources, compact blocks, token supplies; in memory the tree and the block's compact block | as above, one per ABCI request | commission from staking, compact blocks to clients |
| Consensus worker and `App` (`pd/src/consensus`, `pd/src/app`) | one `App` over a copy-on-write state | one handler per ABCI request; `commit` writes, re-creates the components, announces the height | storage, mempool |
| Mempool worker (`pd/src/mempool`) | an `App` of its own, never committed | `CheckTx`; reset on a new height | a watch channel from the consensus worker, a request queue from Tendermint |
| Storage (`storage/src/storage.rs`) | Jellyfish Merkle tree nodes in RocksDB | `commit` (one put per node), `latest_version`, `state` | all readers, ABCI `Info` |
| gRPC queries (`pd/src/info`) | none | `compact_block_range`, single-key lookups | clients |
| Wallet (`wallet/src/state.rs`, `pcli/src`) | notes that are unspent, submitted, expected as change, spent; witnesses; the file they live in | sync, build (four kinds), submit, save, sweep | the node over gRPC and Tendermint RPC |
| IBC clients (`ibc/src/component/client.rs`) | per client: its state, consensus states by height, the list of recorded heights; the block times of this chain | create and update messages | headers of other chains; the connections read its records |
| IBC connections (`ibc/src/component/connection.rs`) | connection ends, a counter, the connections of each client | `open_init`, `open_try`, `open_ack`, `open_confirm` | proofs of what the other chain has stored |
| Tiered commitment tree (`tct/src`) | three tiers of a quad-tree with pruned branches and cached hashes; an index of positions; builders of a block and of an epoch | insert (commitment, block, epoch), end, root, witness, forget, (de)serialise | no other crate uses it yet |
| Cryptography, protobuf types, `wallet-next`, testnet generation | see section 7 | | |

What makes the system hard:

* A failed `unwrap`, `expect` or `assert!` while a block is executed ends the
  worker, on every node, on the same block. So the safety of the chain rests
  on long-lived agreements: that the rates of every validator are the ones
  for the current and the next epoch, that each tracker is exactly one block old,
  that supplies never underflow. A validator may be added, slashed, displaced
  and return at any block in between.
- The application and Tendermint each have a validator set; they agree only
  through differences that several handlers contribute to.
- Consensus and mempool workers run concurrently on different snapshots.
- Commits are not atomic: RocksDB receives one node at a time.
- IBC messages of one transaction are all checked before any is executed, headers and
  proofs arrive in any order and at any age, and the other chain moves on meanwhile.
- The commitment tree decides everything by separate recursions over three tiers of
  nodes that may be pruned, empty, ended or lazily hashed.
- The wallet acts on notes whose transactions may be lost, late or included
  after it gave up on them, and its process may end anywhere.

For each part, what makes it correct:

* staking: rates and trackers stay in step with the chain; Tendermint's
  set is the Active set; only legal transitions happen; slashing is final;
  the strongest validators are Active, within the limit; tokens bought and
  redeemed are neither lost nor counted twice; blocks succeed;
* uptime: the ring buffer is the window of the last blocks;
* shielded pool: value is conserved, nothing is spent twice, and what is published
  lets a client rebuild the tree;
* mempool: a transaction is checked against the state after the last
  announced block; the worker catches up;
* storage: what was acknowledged survives a crash and is what a restart finds;
* wallet: no note is lost, resurrected, or counted twice; transactions balance; a note
  in flight is not spent again before its timeout;
* IBC clients: conflicting headers freeze a client for good, in whatever order and
  transaction they come; what execution unwraps is there;
* IBC connections: a connection that is confirmed is open at both ends, and each names
  the other; nobody else's id is taken over;
* commitment tree: roots, witnesses and positions are those of the plain list of what
  was inserted, whatever was cached, pruned or reloaded on the way.

## 2. Modules

| Module | Models | Notes |
|---|---|---|
| `Rates` | `stake/src/rate.rs`, commission of `funding_stream.rs` | Pure operators. The base of the fixed-point digits is the constant `Bps` (10 000 in the code), the width the constant `U64`; products that the code computes in `u64` wrap. |
| `Uptime` | `stake/src/uptime.rs` | Pure operators on the ring buffer. |
| `UptimeTracker`, `SlidingWindow` | one tracker's life, encoded and decoded at every block; and what it promises | `UptimeTracker` is shown to implement `SlidingWindow`. |
| `Staking`, `MCStaking` | the staking component under the ABCI cycle | `EXTENDS Rates, Uptime`. |
| `ShieldedPool` | the shielded pool's handlers as operators on an `App` | An `App` is a record: the state, and what the component holds in memory. |
| `Node`, `MCNode` | consensus and mempool workers, each with an `App`; crash; a client that syncs | composes two instances of the pool with storage, queue and watch channel. |
| `Ledger` | what the pool and the consensus worker promise: notes and spent coins, without trees, anchors and nullifiers | `Node` is shown to implement it. |
| `Storage`, `MCStorage` | commits node by node, latest version, `Info`, `InitChain`, crashes | The write inside `HandleCommit` of `Node` taken apart. |
| `Wallet`, `MCWallet` | `ClientState`, its file, and the commands of `pcli` | `EXTENDS Rates`; the chain is an environment that includes, delays or drops. |
| `LightClient`, `MCLightClient` | the clients of other chains | one step per message of a transaction. |
| `Handshake`, `MCHandshake` | the connection handshake with another chain | The other chain is external and follows ICS-03. |
| `TctNodes` | the nodes of the tiered commitment tree | Pure recursive operators, one per method, on nodes of any height. |
| `Tct`, `MCTct` | the tree and its two builders | `EXTENDS TctNodes`. |
| `Arithmetic` | division and remainder, induction, sums over finite sets, running totals | lemmas that the proofs share. |
| `StakingProofs`, `UptimeTrackerProofs`, `NodeProofs`, `StorageProofs`, `WalletProofs`, `LightClientProofs`, `HandshakeProofs` | theorems | see section 5. |

### Staking

The variables are the component's keys in the state (`definition`, `state`,
`power`, `current_rate`, `next_rate`, `uptime`, `changes`, `validator_list`,
the base rates, the supplies) and its two in-memory fields (`pending`, which
is `Staking::delegation_changes`, and `tm_updates`). `tm` is
Tendermint's set. `circulating` and `circulating_delegation` are the values of
the notes users hold: the model's record of what transactions really bought
and redeemed, against which the recorded supplies are compared.

One action per ABCI request: `BeginBlock` (uptime tracking with any set of
signers among Tendermint's validators, downtime slashing), `BeginBlockEvidence` (evidence
against any key), `DeliverTx`, `DeliverTxPanics` (amounts that overflow in a check), `EndOrdinaryBlock`, `EndEpochBlock` (the whole of `end_epoch`,
`process_epoch_transitions`, and the minting of commission in the shielded
pool's `end_block`), `Commit`. Every `unwrap`, `expect` and
`assert!` on the way is a conjunct of `EndEpochSucceeds`, of the guard in
`BeginBlock`, or a disjunct of `CheckTxPanics`; when one fails the phase becomes `halted` and stays so.
`StakeSupplyAfter` computes the staking token supply validator by validator, as
the code does, since intermediate values matter: it is unsigned. A transaction carries up
to one delegation, one undelegation and two definitions; the
checks of several delegations do not depend on each other, those of two definitions of one
validator do. `rekeyed` is a history variable: the consensus keys that definitions have moved from or
to a validator, or given to two. Amounts and their sums in `end_epoch` are integers, where the code casts to `i64`.

### Shielded pool and node

Cryptography is ideal: a commitment is the note, a root the sequence of
commitments, a nullifier a position with the commitment there, and a
proof verifies when what it says is so. A transaction is made against some
tree that existed at some time (`Roots`), valid as an anchor or not.
`AppNew` is `App::new`, `CheckTx`, `ExecuteTx`, `EndBlock` and so on are the
component's methods. The actions of `Node` are the message handlers of the two
workers; a commit is two of them, `HandleCommit` (the write, and the components created anew) and `AnnounceHeight`,
before which mempool and clients may read what was written. `Answered` is the height Tendermint knows of. `Ledger` is the abstract specification of the consensus worker: a transfer takes unspent coins and makes coins
of the same worth less a fee, genesis and commission alone make value, a commit settles the whole block, a crash goes back to what was
settled. `LedgerOf` is the refinement mapping. The watch channel is the flag `height_changed` (only the latest height
is kept, and the mempool resets to whatever storage has then); the biased
`select!` is the guard `MayReceive`.

### Storage

A version's node batch is a constant sequence of `"internal"` and `"leaf"`. The
keys are ordered by version and, within one, from the root down, so a batch
ends with a leaf; `nodes[v]` says how many of version v are in the database.
`LatestVersion` looks at the last key only, like
`get_rightmost_leaf`. `Start` includes Tendermint's handshake on `Info`.

### Wallet

A command of `pcli` is a sequence of steps: `Load` (with `prune_timeouts`),
`RequestBlocks`, `ScanNext` (with its checkpoints), `FinishSync`, then `Build` and `Submit`,
`SubmitFails` or `Save`, or the three steps of a sweep, and `Exit` at any
point, which stands both for commands that build nothing and for a process that
dies. Note selection is any minimal draw (`NotesToSpend`), as the
code shuffles; a delegation or undelegation draws a note even where it needs no value (`Draws`). The rest (`MakeBlock`, `DropTx`, `Pay`, `Tick`) is the
world: the chain may include any accepted transaction at any time, also one
whose answer the wallet never got or has timed out.

### IBC

`LightClient`'s variable `state` is the component's part of the chain's state: the
counter, and per client its data, its consensus states by height, and the heights
listed. `ExecuteIbcAction` executes one message of a transaction. Its check reads `before`, the state in
which the transaction started, and is skipped once a message that is not the client's has ended the checks (`passed`); a transaction that
passes its checks passes them without its last messages too, so its messages can be chosen one at a time. What execution
unwraps may then be missing: unknown clients, malformed messages (`Panics`). `NextClientState` is
`next_tendermint_state`. External are Tendermint's verifier (`Verify`) and
`with_header` of the `ibc` crate. A create message carries its state on trust, a frozen one too, as in the code.

`Handshake` has the four messages on this chain (`Validate...`, `Execute...`), `NextBlock`
(which publishes the connections: others can prove what a block ended with), `Freeze` (an effect of
`LightClient`), and the other chain's steps (`TheirInit` and so on). A proof is
valid if the other chain has ever stored what it claims, as clients may be updated to any of its heights, or if the client
is in `forged`: a transaction may record headers that nobody checked after its first connection message (`updated` in `DeliverTx`), and
against such a root anything can be shown.
The set `confirmed` is a history variable: connections
that `open_confirm` has opened under a client without a forged header. The other chain may hold clients that do not follow this chain, through
which anything can be opened there.

Both models take the component as switched on and its messages as delivered; at this
commit the chain does neither (section 6).

### Tiered commitment tree

A node is a record of its kind (`hash`, `item`, `complete`, `frontier`), modelled at its
height; the wrappers `Leaf`, `Tier`, `Top` and `Insert` of the code, which select the
recursion by type, are the height's remainder by `Depth`. Hashes are terms, so that two hashes
are equal exactly when what they were computed from is. Caches are explicit: `Root`,
`CurrentRoot` and `WitnessCommitment` are steps because they fill them, `Reload` empties them. `trees` has a
state for each of the block builder, the epoch builder and the tree, and `content` what was put into
them as nested lists; what is forgotten there is the leaf of the commitment, wherever the code's index points, and
`astray` remembers that the two have differed. An operation that returns an error changes nothing and is no step; an `expect`
that fails sets `panicked`.

## 3. Runs

Every property of a passing run has a deliberately wrong variant of a modelled
definition (comments beginning with "Mutant" in the modules) under
which TLC finds it violated, so none of them holds vacuously. The type invariants of
`Staking`, `Storage`, `LightClient` and `Handshake` are not part of a run: they are
proved (section 5).

| Run | Checks | Shows |
|---|---|---|
| `set` | `RatesInSync`, `UptimeInSync`, `TmTracksActive`, `ActiveAreStrongest`, `DelegationSupplyConserved`, `StakeSupplyCovers`, `SlashedIsFinal`, `RemovalsNameMembers` | Validators a, b and a later c compete for two seats up to height 7 (four epochs of two blocks). c can displace b at the end of epoch 1 and b can return at the end of epoch 2; any validator can be slashed for downtime at any block; evidence may arrive; a definition may move b to another consensus key; amounts may overflow. Delegation, undelegation and moving stake happen at rounding exchange rates with commission. |
| `window` | `CountsTheWindow`, `ImplementsWindow` | A window of 5 in bytes of 4 bits (so that there is padding), for more than two turns of the ring buffer. |
| `pool` | `ValueConserved`, `NoDoubleSpend`, `BlocksRebuildTree`, `AnchorsEndBlocks`, `ClientAnchorAccepted`, `SpentIsFinal`, `ImplementsLedger` | Genesis and three blocks of two transactions: conflicting spends in one transaction, in one block and across blocks, old and invalid anchors, commission, crashes, two syncs of a client. The consensus worker implements `Ledger` throughout. |
| `mempool` | `MempoolFresh`, `MempoolCatchesUp` | Two queued requests against two blocks, all interleavings, also between the write of a commit and its announcement. |
| `wallet` | `NotesAccounted`, `SpendableHavePath`, `ChangeCountedOnce`, `BuildsBalance`, `NoSecondAttempt` | Two commands of any kind, sweeps included, with a rate of 3/2 that rounds both ways; a spend can be submitted, time out, be retried, and the first attempt be included late. |
| `crashes` | `AckedComplete`, `LatestNotBehind`, `QuiescentLatest` | Four versions with batches of two shapes and three crashes, each between any two puts. |
| `client` | `HeightsRecorded`, `LowestIsOldest`, `ConflictFreezes`, `FrozenIsFinal` | A client of a chain that has forked at height 2 and whose height 4 exists with a time before that of height 3; updates in every order, up to three in one transaction, a message of another component before unchecked and malformed ones, expiry, a header nobody signed. |
| `handshake` | `ConnectionsListed`, `ConfirmedAgree`, `EndsKept` | Two connections here and two there, a client there that follows this chain and one that follows somebody else, old proofs, ids used again, two messages in a transaction, headers nobody checked. |
| `tree` | `TypeOK`, `RootIsOfContent`, `KeptAreWitnessed`, `ForgetsOneLeaf`, `RoomIsThere` | All operations of tree and builders in every order, for up to four insertions and ends. |
| `return`, `torn`, `positions` | one property each, violated | see section 6. |

Bounds. `MaxHeight`, `MaxBlockTxs`, `QueueLen`, `MaxSyncs`, `MaxCrashes`,
`MaxCommands`, `MaxClock`, `MaxVersion` bound counters and appear only in
guards. They are chosen so that the longest scenario a property is about
fits: displacement needs a definition, a delegation and an epoch end,
unbonding two epochs more. With `Bps = 4` the rate 1 is 16, a base
reward of 4 makes exchange rates grow by a quarter per epoch, and every
rounding happens with single-digit amounts. `U64 = 4096` is above every
rate and every amount that passes a check in these runs; wrapping is stated in `Rates` and not met there, while
`MCRekeyTxs` has two amounts that overflow `i64` and `u64` in a check.
`MCSetTxs` contains each amount and epoch that a user could
claim in the range, right and wrong ones: the checks of `DeliverTx` choose. `MaxBlockTxs` is 1 in `set`: transactions of
one block act on separate entries of the queue, and what they do to one validator also happens over two blocks of an
epoch; `return` has two.

In `client`, `MaxClients` is 1 because clients share nothing but the counter (ids that do not exist yet are
named by messages all the same), `MaxMessages` lets two updates follow a message that ends the checks, and the seven headers of `MCHeaders` are the smallest set with a
fork, a header out of order, a change of validators both adjacent and skipping, and a forgery.
In `handshake`, an id that is reused needs a second connection;
`MaxHeight` lets this chain publish twice, which the longer of the two handshakes needs. `tree` has tiers of two levels with two children each, where
the code has eight levels and four: a block holds four commitments, an epoch four blocks. Four insertions
fill a block, and blocks, epochs and ends use up room four times as fast, so every tier meets its
boundary and its carry; the operators are the same for every `Arity` and `Depth`.
`MaxBuilt` keeps at most two of them in the builders. Commitments are
symmetric: nothing orders them. Leaves that are inserted for the root only (`Forgotten`) have a commitment of their own:
no operation compares it with others.

`CHECK_DEADLOCK FALSE` is set throughout because all models end at their bounds, and
because the code has states in which it stops (a halted chain, a panicked
worker).

Fairness. The only liveness property is `MempoolCatchesUp`: each committed
height eventually reaches the mempool's state. It assumes weak fairness of
the mempool worker's loop (`MempoolStep`), which is what the tokio scheduler
gives a ready task. Nothing is assumed of consensus, of Tendermint or
of clients. Since the `select!` is biased towards the height, a stream of
requests cannot starve the reset; the wrong variant that waits for an empty queue
is caught.

## 4. How the properties answer the hazards

`PROJECT.json` lists what is hard to test, at its line, with the properties
that cover it. Those that no property covers carry a reason.

## 5. Proofs

All theorems hold for every value of the constants that satisfies the named
assumptions (`RatesAssumption`, `StakingAssumption`, `TrackerAssumption`,
`NodeAssumption`, `PoolAssumption`, `WalletAssumption`, `StorageAssumption`, `LightClientAssumption`,
`HandshakeAssumption`): any sets of validators and keys, transactions, requests, headers, clients, epoch lengths, windows,
limits, rewards, rates, timeouts, bounds. TLC evaluates the assumptions in every run. `NodeAssumption` says that two transactions
with one id are the same transaction (the id is a hash); the theorems on halts have hypotheses of their own, below.

Apart from those of the tiered commitment tree, every safety property of the passing runs is stated by a theorem.
`BlocksSucceed` is false in general (the run `return` violates it), so its theorem says in which environment it holds.

**Sums and induction** (`Arithmetic`). The provers are first-order, so induction is stated for sets: a set of numbers that has 0 and
the successor of each of its numbers has all (`NatSetInduction`), and likewise for finite sets (`FiniteSetInduction`). From these come the lemmas
on `SumFunctionOnSet`: adding an element, disjoint unions, renaming by an injection, pointwise sums. A recursive
function that accumulates (`StakeSupplyAfter`) is reduced to sums by `RunningTotalIs`.

**Staking, uptime**

* `StakingProofs!TypeCorrect`: `TypeOK` is inductive. It contains
  `\A v \in Known : definition[v] \in Definitions`, without which the rates of
  `EndEpoch` have no type. The lemmas on `Rates` use only that `\div` and `%` stay in the
  naturals.
* `StakingProofs!RatesStayInSync`: `RatesInSync` is inductive relative to `TypeOK`. The arithmetic
  core is `EpochStep`: within an epoch `EpochOf(h + 1) = EpochOf(h)`, at its
  end it is one more. It needs `EpochDuration > 1`, and the assumption is
  necessary (section 6). `RateAssertion` concludes that the assertion of `end_epoch` on the next
  rate's epoch never fails.
* `StakingProofs!UptimeStaysInSync`: inductive relative to `TypeOK`; the
  interesting cases are a validator slashed in `BeginBlock`, whose tracker is left behind,
  and one promoted at the end of an epoch, whose tracker is made at that height.
* `StakingProofs!SlashingIsFinal`: from the invariant `SlashedRateHeld`: both
  rates of a slashed validator are equal. The action property alone is not inductive, as
  the current rate is overwritten by the next one at every epoch end.
* `StakingProofs!ActiveStayStrongest`: the order of `process_epoch_transitions` (power, then place in the list) is a strict total
  order, so the rank of a validator (how many come before it) is injective, the number of validators with a rank below
  the limit is at most the limit, and nobody of the top is weaker than somebody below (`TopIsStrongest`). Between two epoch ends powers do not
  change, slashing takes validators out, and a new validator has no power.
* `StakingProofs!DelegationIsConserved`: with `ChangesInv`, that changes are recorded once a block, after its transactions, and
  only for known validators. The property's sum over the heights of the epoch gains exactly the pending changes
  at `end_block`, and is empty after the epoch's end.
* `StakingProofs!StakeSupplyIsCovered`: the property says nothing while changes are waiting, so it is not inductive. `CoverInv`
  says there is for each pool a flow, the stake that has gone in since the supply was last computed, such that the
  tokens not yet counted are worth no more than the flow at the next rate, and that the stake in
  circulation and all flows together are within the supply. A delegation adds its amount to the flow and buys tokens that are worth no more; an
  undelegation takes out its value, rounded down; and at the epoch's end the loop takes the value of each pool's new
  tokens, which is at most its flow, out of the supply. The loop visits every validator once (`ListedOnce`).
* `StakingProofs!TmFollowsActive`, `RemovalsAreOfMembers`: of any definitions, also such as move a consensus key to another
  validator. The component does not report such a change (section 6), so the theorems speak of all other keys. `KeysInv` says
  that a key which two validators have is on record in `rekeyed`. `TmInv` then states the set without `CHOOSE`, and what `tm_updates` may hold in each phase: within a
  block only removals, of validators that were slashed in it. That a removal names a member needs in addition that an Active validator has
  power (`PowerInv`), which a genesis validator without stake has not (`UnstakedKeys`).
* `StakingProofs!HaltsAreKnown`: a step that halts the chain has met one of the six causes of `HaltCause`: evidence; a delegation or
  undelegation whose check panics; or, at an epoch's end, a base rate of 0, a number that outgrows its type, a supply below 0
  inside the loop of `end_epoch`, a validator made Active as its unbonding ends. All other checks of a block are decided by
  `HaltInv`, which joins the invariants above to three more: each height of the epoch has its changes recorded (`HeightsInv`, so that
  `delegation_changes` finds them), notes are never negative (`NotesInv`, so that a pool never redeems more tokens than it has:
  its new supply is what users hold, by `DelegationSupplyConserved`), and no commission exceeds the reward (`LawfulInv`). The
  supply inside the loop is where it can go wrong and the theorem says when: it is the supply after the loop less what
  the rest of the list contributes, hence at least the stake in circulation (`EpochCovered`) less what the pools that shrink
  release (`NoUnderflow`). So it goes below 0 only where somebody is slashed or users have already moved on what those pools have
  released to them. Hypotheses: `EpochDuration > 1`, and a genesis without a commission above the reward (`GenesisLawful`), which
  `init_chain` does not check; TLC evaluates both on the instances.
* `StakingProofs!CalmChainsGoOn`: `BlocksSucceed` for every chain on which the causes stay away (`Calm`, a state predicate
  that excludes transactions whose check panics, too). A base rate of 0 needs no hypothesis of its own: as long as its product with the reward fits into `U64` the
  base rate does not fall (`BaseRateGrows`).
* `UptimeTrackerProofs!TrackerImplementsWindow`: a refinement. Decoding
  an encoding gives the vector back (`DecodeEncode`); marking a height shifts the window by one
  (`MarkShifts`), because indices modulo the window length are distinct over one turn
  (`Arithmetic!ModDistinct`, `ModTurn`). `MissesAreCounted`: reading the ring from the oldest block on is a bijection between
  window and bits (`RingIsVisitedOnce`), so `num_missed_blocks` counts the misses of the window.

**Shielded pool and node**

* `NodeProofs!SpendsAreFinal`: the invariant is that the spent nullifiers of consensus'
  `App` extend the committed ones; each handler preserves them because
  `SpendNullifiers` writes only nullifiers that `CheckNullifierUnspent` found absent.
* `NodeProofs!ChainInvariant`: `Good(a, h)` says of an instance `a` of the state with blocks up to `h` that its tree is the
  concatenation of the outputs of its blocks and of the block under way, and its anchors the trees at their ends (`TreeOK`); that
  the nullifiers it has announced are distinct and are the spent ones, each of a note that the tree has at that position (`SpendOK`);
  and that unspent notes and fees make up the supply (`ValueOK`). Each method of the component is proved to keep it, of any
  instance: `Grown` for notes that are added, `Charged` for a transaction, `Minted` for commission. `ChainInv` composes them: the
  instance of consensus in each phase (`ConsensusOK`: in a block it continues the committed blocks), the one of the
  mempool, which nobody commits, and the client, whose tree is that of an earlier block. `ValueIsConserved`, `NotesAreSpentOnce`,
  `BlocksSayEverything`, `OnlyBlockEndsAreAnchors` and `ClientCanSpend` follow from it. That
  a fee is counted once rests on a part of `SpendOK`: a transaction with one spend recorded has all of them recorded, so
  it cannot be executed again; one without spends balances only with no fee.
* `NodeProofs!NodeImplementsLedger`: a refinement, safety of `Spec` without fairness. The unspent coins of an instance are
  found in its tree and spent nullifiers (`CoinsAt`, `GrownUnspent`, `ChargedUnspent`); under `ChainInv` each handler of consensus is one step of the ledger or
  none, and handlers of mempool and client are none. What is settled is what `App::new` would read from storage, so a
  restart needs no step beyond `Abandon`.
* `NodeProofs!MempoolIsFresh`: from `FreshInv`: a request in the queue was sent when no more than the answered height was known, and, unless a height
  is waiting in the watch channel, the mempool is not behind the answered height from the first block on. The biased `select!` does the rest.

**Storage**

* `StorageProofs!AnsweredIsDurable`, `NeverBehind`, `StorageTypeCorrect`: from `IInv`, which adds to the
  properties that the worker's version is recorded, that the puts of a commit under way are in
  the database, and that nothing is recorded beyond the next version.
* `StorageProofs!LatestIsCommitted`: until the first crash only the version being written can be partly there (`CleanInv`).
  After a crash the statement is false (run `torn`).

**Wallet**

* `WalletProofs!WalletInvariant` has three parts. `WorldInv`: notes are created once and spent once, and later than they were created
  (`ChainOK`); the ids of outputs on the chain, in the mempool of the node and in what the command is about to submit differ, because a
  command numbers its outputs by its own number. `StatesInv`: file and memory, each with the height it has scanned to,
  satisfy `StateOK` against that prefix of the chain. `RegisteredInv`: what a command has registered
  and saved is remembered by the file, and by memory while a command runs, until it times out.
  `NotesStayAccounted`, `ChangeIsCountedOnce`, `SpendableKeepPath` and `SpendsAreAttemptedOnce` are read off.
* `WalletProofs!BuiltTransactionsBalance`: the value balance of a built transaction is a sum over its notes, taken apart by the roles of
  its outputs (what is sent, what comes back at the rate, change), in each of the two assets.

**IBC**

* `LightClientProofs`: what one executed message does (`CreateGood`, `UpdateGood`, `ExecuteGood`) is proved of
  any state of the right shape, whether or not the message was checked, and against which state: a message runs on what the
  ones before it have left. `Good` is the inductive invariant (`TypeCorrect`, `HeightsStayRecorded`), `Follows` the relation
  between a state and the next (`ConflictsFreeze`, `FrozenStays`). `LowestStaysOldest` needs more: that a
  lowest height exists (`OldestAt`), so that what `prev_verified_consensus_state` compares with, the lowest height, is known
  to be the earliest, and a header below all others is compared with it by `next_verified_consensus_state`.
* `HandshakeProofs`: a message is proved to keep the invariant `Good` when it is applied to any state that `Follows` the one it
  was checked in (`MessageApplied`), so the second message of a transaction is covered whatever the first has done: between check
  and execution a connection in `TryOpen` can only have been opened by an ack. `ConfirmedConnectionsAgree` rests on two
  further parts of the invariant: a connection that may be confirmed has a counterparty client that follows this
  chain (`ConnectionOK`), and an end that the other chain has shown open is for ever as it was shown (`TheirsOK`), since the other chain
  gives out its ids once; so the age of a proof does not matter. Both are of clients without a forged header (`forged` only grows). `ConnectionsStayListed` and `EndsStay` come from
  `ConnectionOK` and `Follows`.

Only model-checked:

* `MempoolCatchesUp`, and fairness in general: the provers have no rules for `ENABLED`;
* the tiered commitment tree (`tree`): its operators are recursive over nodes, which the prover does not support, and
  its properties need induction over the tree;
* the three violations, which are traces.

## 6. Where the code and its documentation disagree

Three have a run in which TLC exhibits the disagreement:

* `return`: `process_epoch_transitions` tests the end of unbonding on the state
  read before its loop. A validator that returns to the top in the epoch its
  unbonding ends is made Active and then set Inactive, which
  `set_validator_state` refuses, and the chain halts.
- `torn`: after a crash that left internal nodes of a version behind as the last keys, `latest_version` is
  `None`. The node starts from scratch, commits genesis again, and the next
  commit's `expect("just committed version")` fails.
- `positions`: `tct/src/internal/frontier/node.rs:173` and `:179` multiply the number of siblings in a node by the
  size of the node and not of its child, so positions are four (`Arity`) times the index. A kept commitment other than the first
  is indexed at another leaf, or at none; `Tree::witness` then panics with "must be witnessed because it is
  indexed" (`tree.rs:203`, `panicked = "witness"`), `Tree::forget` prunes the other leaf, and the conversions of a builder's position to `u16`
  and `u32` (`block.rs:135`, `epoch.rs:162`, `panicked = "position"`) fail when it is a quarter full. So `KeptAreWitnessed` speaks of trees in which
  nothing was forgotten at a wrong index, and `ForgetsOneLeaf` gives `forget` the right one.

Others were met while modelling and have no run of their own; the models contain the behaviour:

* `stake/src/component.rs:518`: the 20-byte address in evidence is parsed as a public key and the
  failure unwrapped, so evidence against any key halts the chain (`BeginBlockEvidence`).
- `stake/src/component.rs:771` and `:824`, `rate.rs:112`, `:144`: amounts that do not fit `i64` or `u64` panic in the check of a transaction, before
  it is known whether anybody has the notes (`DeliverTxPanics`).
- `stake/src/component.rs:188`: staking token deltas are applied validator by validator
  to an unsigned supply. Moving more than the liquid stake from a
  validator to one earlier in the list underflows, although the sum does not
  (`StakeSupplyAfter`).
- `stake/src/component.rs:845`: two definitions of one validator in one
  transaction are compared with the stored one only, so the lower sequence number may win (`CheckDefinition`, `Latest`), while
  `stake/src/validator.rs:51` says the number prevents replays.
- `stake/src/component.rs:448`: a validator is slashed when it has missed
  `missed_blocks_maximum` blocks; `chain/src/params.rs:56` says it may miss that many.
- `stake/src/component.rs:139`: in the first epoch of unbonding the rate
  computed while Active still applies, while
  `docs/protocol/src/concepts/validators.md:39` says rates are held constant.
- `stake/src/component.rs:152`: with an epoch duration of 1, genesis
  prepares rates for the wrong epoch and the first block fails.
- `shielded-pool/src/component.rs:350`: every anchor is recorded for height
  0, since `std::mem::take` has emptied the block (`WriteCompactBlockAndNct`).
- `shielded-pool/src/component.rs:280`: the first two minted notes have the same
  blinding factor (`LastPosition`), so two equal genesis allocations in front are one commitment.
- `pd/src/info/oblivious.rs:145`: a sync up to the current height stops one
  block short (`LastRequested`, `RequestBlocks`).
- `pd/src/info.rs:37`: a committed genesis and an empty database both answer
  height 0. After a crash between the two, `InitChain` fails for ever (phase `init_panicked`).
- `storage/src/storage.rs:33`: during a commit `latest_version` may be `None`
  for a tree that is not empty, or a version that is not yet complete.
- `pcli/src/command/balance.rs:52`: after a delegation the expected tokens
  exceed the submitted spends of that denomination, and the unsigned difference underflows.
- `stake/src/component.rs:895`: a definition that changes the consensus key of an Active validator leaves the
  old key with its power in Tendermint, and two validators may have one key. The run `set` has such definitions; `TmTracksActive` and
  `RemovalsNameMembers` speak of the keys that no definition has moved or shared.
- `pcli/src/command/tx.rs:164`: a sweep registers its spends in memory only, so the next command
  spends the same notes again; `NoSecondAttempt` speaks of notes that are registered in the file.
- `ibc/src/component/client.rs:509`: `prev_verified_consensus_state` takes the first height of an ascending list that is
  below the given one, the lowest; its comment says the highest. So times need not grow with the heights between the
  lowest and the highest (`NotTooEarly`); that the lowest is the oldest does hold (`LowestIsOldest`).
- `ibc/src/component/client.rs:117`: `check_tx_stateful` returns success at the first message that is not
  the client's, so what follows in the transaction is not checked, and `check_tx_stateless` does the same (line 109). An update of an unknown
  client, or a message that cannot be parsed, is then unwrapped and ends the worker (`Panics`), and a header that nobody has
  signed is recorded, against which connections can be proved (`forged` in `Handshake`). The comment on execution says it "assumes that the UpdateClient has already been validated".
- `ibc/src/component/client.rs`, `next_tendermint_state`: `with_header` takes over the height of any
  header, so the latest height may go back, and with it the age that decides on expiry.
- `ibc/src/component.rs:34`: the switch `enabled` is set by `init_chain` in memory and lost when
  `App::commit` re-creates the components. Apart from that `ShieldedPool::check_tx_stateless` rejects every IBC action.
- `ibc/src/component/connection.rs`, `connection_open_ack`: the end that the other chain should have is built with the other
  chain's connection id where this chain's belongs, its client proof is looked up under this chain's client id,
  and this chain's own id is stored as the counterparty's (`ValidateAck`, `ExecuteAck`). An initiated connection opens only where the
  identifiers happen to coincide, and may then name a connection that does not exist; the properties of agreement speak of
  connections opened by `open_confirm`. A transaction with an ack and a confirm of one
  connection passes both checks.
- `tct/src/tree.rs:148` and `:161`: after `end_block` the next `insert` answers `BlockFull`, and after `end_epoch` `EpochFull`, though
  `position` is `Some`: a finalized block counts as full, and a new one comes only with a block or epoch inserted as a whole. The
  comments say "Get the position of the insertion, if it would succeed" and "If the latest block was finalized already or doesn't
  exist, create a new block and insert into that block". The model's `InsertLeaf` answers as the code does; an answer that is an error is no step.

## 7. What is left out

* Cryptography, key derivation, addresses, detection keys, proofs: ideal.
- Several assets in `ShieldedPool`: transactions of `Node` have one asset;
  `Wallet` has two. Several funding streams of one validator are one stream;
  that the `u16` sum in `funding_stream.rs:98` may wrap is not modelled.
- Genesis parameters as data: they are constants.
- Quarantine of undelegated notes: unimplemented at this commit.
- The wallet file as two processes see it: `wallet reset` writes the temporary file without the lock and renames it
  after it has given the lock back, `wallet delete` takes no lock, and the commands that create a wallet look for an
  existing one before they wait for the lock. `Wallet` has one command at a time. Address books, display.
- IBC: textual identifiers, prefixes, delay periods, proof specifications and revision numbers, equal
  everywhere in the models; channels and packets, which the code does not have. The state keys of the code are not the paths of
  ICS-24, so that no other chain could verify them; the model's other chain finds what it looks for.
- Tiered commitment tree: protobuf forms of proofs and roots, debug assertions, statistics; its property tests are
  commented out at this commit.
- `wallet-next`, whose
  workers are stubs; generated protobuf code; the command line and testnet generation of `pd`.
- The other gRPC queries, which read one key each.

## 8. Plan

Done, in this order: rates and uptime; staking; the tracker's refinement; the shielded pool under both
workers; storage under crashes; the wallet; the IBC clients and handshake; the tiered commitment
tree; the proofs of section 5, with the ledger that the node implements and the conditions under which blocks succeed.

What could follow:

1. a module of the wallet file: names and inodes, the temporary file, the lock, and processes that load, save, reset, create and
   delete, under an assumption on which of them users run alone;
2. the tree with folds over levels in place of recursion, so that it can be proved about;
3. liquid stake and unbonding time as bounds on the transactions of an epoch from which `Calm` follows.
