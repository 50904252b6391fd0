-------------------------------- MODULE Wallet --------------------------------
(***************************************************************************)
(* The wallet of pcli: the client state (wallet/src/state.rs), its file    *)
(* (pcli/src/state.rs) and the commands that synchronise it, build a       *)
(* transaction from its notes and submit it (pcli/src/sync.rs, network.rs, *)
(* command/).  A command runs under the lock of the file, so there is one  *)
(* at a time; it may die between any two of its steps.                     *)
(*                                                                         *)
(* Outside the wallet: the chain, which includes transactions in any order *)
(* or drops them and never spends a note twice, payments by others, and    *)
(* the clock the timeouts are measured with.                               *)
(*                                                                         *)
(* A commitment and a nullifier are the note itself.  Which address of the *)
(* wallet holds a note only narrows the choice of notes to spend.          *)
(***************************************************************************)
EXTENDS Integers, Sequences, FiniteSets, FiniteSetsExt, SequencesExt, Rates

CONSTANTS
  Stake, DelegationToken,  \* the staking token, one validator's delegation token
  Rate,                    \* the validator's RateData
  GenesisNotes,            \* notes of the genesis block
  Requests,                \* what users ask for: [kind, amount, fee]
  Payment,                 \* amount of a payment by somebody else
  SweepCount,              \* SWEEP_COUNT: notes of one sweep transaction
  CheckpointInterval,      \* blocks between two checkpoints of a sync
  SubmittedTimeout,        \* SUBMITTED_TRANSACTION_TIMEOUT
  MaxHeight, MaxCommands, MaxClock  \* bounds: blocks, runs of pcli, ticks

Denoms == {Stake, DelegationToken}
NoteIds == Nat \X {"genesis", "payment", "send", "change", "self", "sweep"} \X Denoms \X Nat
NotesOf(ids) == [id : ids, denom : Denoms, amount : Nat, mine : BOOLEAN]

ASSUME WalletAssumption ==
  /\ Stake # DelegationToken
  /\ Rate \in RateData /\ Rate.validator_exchange_rate > 0
  /\ IsFiniteSet(GenesisNotes) /\ GenesisNotes \subseteq NotesOf(NoteIds)
  /\ \A n \in GenesisNotes : n.id[2] = "genesis"
  /\ \A m, n \in GenesisNotes : m.id = n.id => m = n
  /\ Requests \subseteq [kind : {"send", "delegate", "undelegate", "definition"},
                         amount : [Denoms -> Nat], fee : Nat]
  /\ Payment \in Nat /\ SweepCount \in Nat \ {0} /\ CheckpointInterval \in Nat \ {0, 1}
  /\ SubmittedTimeout \in Nat
  /\ MaxHeight \in Nat /\ MaxCommands \in Nat /\ MaxClock \in Nat

VARIABLES
  chain,       \* compact blocks, from genesis on
  mempool,     \* transactions the node has accepted and not yet included
  clock,
  file,        \* the client state on disk
  mem,         \* the client state of the command that runs
  step,        \* how far that command is
  end_height,  \* where the block stream it reads ends
  count,       \* blocks it has scanned
  outbox,      \* transactions it has built
  sent,        \* how many of them it has submitted
  commands,    \* commands started
  registered   \* history: spends registered by commands that saved the wallet

chain_vars == <<chain, mempool, clock>>
command_vars == <<step, end_height, count, outbox, sent, commands>>
vars == <<chain_vars, file, mem, command_vars, registered>>

Height == Len(chain) - 1
Amount(notes) == SumFunction([n \in notes |-> n.amount])
OfDenom(notes, d) == {n \in notes : n.denom = d}
Notes(entries) == {e.note : e \in entries}

-----------------------------------------------------------------------------
(* ClientState                                                             *)

NewClientState ==
  [last_block_height |-> -1, nullifier_map |-> {}, unspent_set |-> {},
   submitted_spend_set |-> {}, submitted_change_set |-> {}, spent_set |-> {},
   witnessed |-> {}]

Entries(notes) == {[note |-> n, timeout |-> clock + SubmittedTimeout] : n \in notes}

RegisterChange(s, notes) == [s EXCEPT !.submitted_change_set = @ \union Entries(notes)]

\* Mutant: the path of a note is forgotten as soon as it is submitted.
RegisterSpendUnwitness(s, notes) ==
  [s EXCEPT !.unspent_set = @ \ notes, !.submitted_spend_set = @ \union Entries(notes),
            !.witnessed = @ \ notes]

RegisterSpend(s, notes) ==
  [s EXCEPT !.unspent_set = @ \ notes, !.submitted_spend_set = @ \union Entries(notes)]

Expired(entries) == {e \in entries : clock > e.timeout}

\* Mutant: expired spends are dropped like expired change.
PruneTimeoutsDrop(s) ==
  [s EXCEPT !.submitted_spend_set = @ \ Expired(@), !.submitted_change_set = @ \ Expired(@)]

PruneTimeouts(s) ==
  [s EXCEPT !.unspent_set = @ \union (Notes(Expired(s.submitted_spend_set)) \ s.spent_set),
            !.submitted_spend_set = @ \ Expired(@),
            !.submitted_change_set = @ \ Expired(@)]

\* Mutant: change stays registered when it arrives.
ReceiveKeepChange(s, found) ==
  [s EXCEPT !.nullifier_map = @ \union found, !.witnessed = @ \union found,
            !.unspent_set = @ \union found]

\* scan_block, first loop: the outputs this wallet can decrypt.
Receive(s, found) ==
  [s EXCEPT !.nullifier_map = @ \union found, !.witnessed = @ \union found,
            !.submitted_change_set = {e \in @ : e.note \notin found},
            !.unspent_set = @ \union found]

\* Second loop: a nullifier moves its note to the spent set from the first of
\* the unspent, submitted spend and submitted change sets that has it.
Nullify(s, nullified) ==
  LET ready == s.unspent_set
      spend == Notes(s.submitted_spend_set)
      moved == nullified \intersect (ready \union spend \union Notes(s.submitted_change_set))
  IN [s EXCEPT !.unspent_set = @ \ nullified,
               !.submitted_spend_set = {e \in @ : e.note \notin nullified \ ready},
               !.submitted_change_set = {e \in @ : e.note \notin nullified \ (ready \union spend)},
               !.spent_set = @ \union moved,
               !.witnessed = @ \ moved]

ScanBlock(s, block) ==
  LET received == Receive(s, {n \in block.outputs : n.mine})
  IN [Nullify(received, block.nullifiers \intersect received.nullifier_map)
        EXCEPT !.last_block_height = @ + 1]

\* notes_to_spend draws ready notes in random order until they are enough: at
\* least one if there is one, and none for nothing if all are submitted.
NotesToSpend(s, d, amount) ==
  LET ready == OfDenom(s.unspent_set, d)
      submitted == OfDenom(Notes(s.submitted_spend_set \union s.submitted_change_set), d)
  IN  {S \in SUBSET ready :
         /\ Amount(S) >= amount
         /\ \/ \E last \in S : S = {last} \/ Amount(S \ {last}) < amount
            \/ ready = {} /\ submitted # {}}

-----------------------------------------------------------------------------
(* Transactions: [spends, outputs, fee, action]                            *)

\* What the request has the wallet spend, of each denomination.
Needs(r) ==
  [d \in Denoms |->
     CASE r.kind = "send"       -> r.amount[d] + IF d = Stake THEN r.fee ELSE 0
       [] r.kind = "delegate"   -> IF d = Stake THEN r.amount[Stake] + r.fee ELSE 0
       [] r.kind = "undelegate" -> IF d = DelegationToken THEN r.amount[d] ELSE 0
       [] r.kind = "definition" -> IF d = Stake THEN r.fee ELSE 0]

\* The notes for it.  A delegation and an undelegation ask for them whatever
\* the amount, a send and a definition only for an amount that is not zero.
Draws(r, d) ==
  \/ r.kind = "delegate" /\ d = Stake
  \/ r.kind = "undelegate" /\ d = DelegationToken
  \/ Needs(r)[d] > 0
Drawn(s, r, d) == IF Draws(r, d) THEN NotesToSpend(s, d, Needs(r)[d]) ELSE {{}}

NewNote(role, d, i, amount, mine) ==
  [id |-> <<commands, role, d, i>>, denom |-> d, amount |-> amount, mine |-> mine]

Sent(r) ==
  IF r.kind # "send" THEN {}
  ELSE {NewNote("send", d, 0, r.amount[d], FALSE) : d \in {d \in Denoms : r.amount[d] > 0}}

\* The note that receives what was delegated, or undelegated less the fee.
ToSelf(r) ==
  CASE r.kind = "delegate" ->
         {NewNote("self", DelegationToken, 0, DelegationAmount(Rate, r.amount[Stake]), TRUE)}
    [] r.kind = "undelegate" ->
         {NewNote("self", Stake, 0, UnbondedAmount(Rate, r.amount[DelegationToken]) - r.fee, TRUE)}
    [] OTHER -> {}

\* Mutant: the change is computed without the fee.
ChangeWithoutFee(r, spends) ==
  {NewNote("change", d, 0, Amount(OfDenom(spends, d)) - r.amount[d], TRUE) :
     d \in {d \in Denoms : Needs(r)[d] > 0 /\ Amount(OfDenom(spends, d)) > r.amount[d]}}

Change(r, spends) ==
  {NewNote("change", d, 0, Amount(OfDenom(spends, d)) - Needs(r)[d], TRUE) :
     d \in {d \in Denoms : Amount(OfDenom(spends, d)) > Needs(r)[d]}}

CanPayFee(r) ==
  r.kind = "undelegate" => UnbondedAmount(Rate, r.amount[DelegationToken]) >= r.fee

\* What a delegation or undelegation adds to the value balance.
ActionValue(r) ==
  [d \in Denoms |->
     CASE r.kind = "delegate" ->
            IF d = Stake THEN -r.amount[Stake] ELSE DelegationAmount(Rate, r.amount[Stake])
       [] r.kind = "undelegate" ->
            IF d = Stake THEN UnbondedAmount(Rate, r.amount[DelegationToken])
                         ELSE -r.amount[DelegationToken]
       [] OTHER -> 0]

Transaction(r, spends) ==
  [spends |-> spends, outputs |-> Sent(r) \union ToSelf(r) \union Change(r, spends),
   fee |-> r.fee, action |-> ActionValue(r)]

ValueBalance(tx) ==
  [d \in Denoms |-> Amount(OfDenom(tx.spends, d)) - Amount(OfDenom(tx.outputs, d))
                      + tx.action[d] - IF d = Stake THEN tx.fee ELSE 0]

\* A sweep takes the smallest notes in groups of SweepCount and leaves fewer.
SweepGroups(notes) ==
  {G \in SUBSET kSubset(SweepCount, notes) :
     /\ \A g, h \in G : g # h =>
          /\ g \intersect h = {}
          /\ \/ \A m \in g, n \in h : m.amount <= n.amount
             \/ \A m \in g, n \in h : n.amount <= m.amount
     /\ Cardinality(notes \ UNION G) < SweepCount
     /\ \A m \in UNION G, n \in notes \ UNION G : m.amount <= n.amount}

SweepTransaction(g, d, i) ==
  [spends |-> g, outputs |-> {NewNote("sweep", d, i, Amount(g), TRUE)},
   fee |-> 0, action |-> [x \in Denoms |-> 0]]

SweepTransactions(d, groups) ==
  LET G == SetToSeq(groups) IN [i \in DOMAIN G |-> SweepTransaction(G[i], d, i)]

-----------------------------------------------------------------------------
Init ==
  /\ chain = <<[outputs |-> GenesisNotes, nullifiers |-> {}]>>
  /\ mempool = {} /\ clock = 0
  /\ file = NewClientState /\ mem = NewClientState
  /\ step = "idle" /\ end_height = 0 /\ count = 0 /\ outbox = << >> /\ sent = 0
  /\ commands = 0 /\ registered = {}

\* ClientStateFile::load, under the lock.
Load ==
  /\ step = "idle" /\ commands < MaxCommands
  /\ step' = "loaded" /\ commands' = commands + 1
  /\ mem' = PruneTimeouts(file)
  /\ UNCHANGED <<chain_vars, file, end_height, count, outbox, sent, registered>>

\* sync: ask for the blocks up to the current height; the node leaves out the last.
RequestBlocks ==
  /\ step = "loaded"
  /\ step' = "syncing" /\ end_height' = Height /\ count' = 0
  /\ UNCHANGED <<chain_vars, file, mem, outbox, sent, commands, registered>>

\* Every so many blocks the state is written out.
ScanNext ==
  /\ step = "syncing" /\ mem.last_block_height + 1 < end_height
  /\ mem' = ScanBlock(mem, chain[mem.last_block_height + 2])
  /\ count' = count + 1
  /\ file' = IF count' % CheckpointInterval = 1 THEN mem' ELSE file
  /\ UNCHANGED <<chain_vars, step, end_height, outbox, sent, commands, registered>>

FinishSync ==
  /\ step = "syncing" /\ mem.last_block_height + 1 >= end_height
  /\ mem' = PruneTimeouts(mem) /\ file' = mem'
  /\ step' = "synced"
  /\ UNCHANGED <<chain_vars, end_height, count, outbox, sent, commands, registered>>

\* build_send, build_delegate, build_undelegate, build_validator_definition.
Build(r) ==
  /\ step = "synced" /\ CanPayFee(r)
  /\ \E stake \in Drawn(mem, r, Stake), tokens \in Drawn(mem, r, DelegationToken) :
       LET spends == stake \union tokens
       IN /\ outbox' = <<Transaction(r, spends)>>
          /\ mem' = RegisterChange(RegisterSpend(mem, spends), ToSelf(r) \union Change(r, spends))
  /\ step' = "built" /\ sent' = 0
  /\ UNCHANGED <<chain_vars, file, end_height, count, commands, registered>>

\* The node's checks: no note is spent twice, on the chain or in the mempool.
OnChain == UNION {chain[i].nullifiers : i \in DOMAIN chain}
CheckTx(tx) ==
  /\ tx.spends \intersect OnChain = {}
  /\ \A other \in mempool : tx.spends \intersect other.spends = {}

\* submit_transaction: the node answers that it accepted ...
Submit ==
  /\ step = "built" /\ CheckTx(outbox[1])
  /\ mempool' = mempool \union {outbox[1]}
  /\ step' = "accepted" /\ sent' = 1
  /\ UNCHANGED <<chain, clock, file, mem, end_height, count, outbox, commands, registered>>

\* A command ends, or dies, and what it had in memory is gone.
Ends ==
  /\ step' = "idle" /\ mem' = NewClientState /\ outbox' = << >> /\ sent' = 0
  /\ end_height' = 0 /\ count' = 0
  /\ UNCHANGED <<chain, clock, commands>>

\* ... or it does not, or its answer is lost: nothing is saved.
SubmitFails ==
  /\ step = "built"
  /\ mempool' \in {mempool} \union {mempool \union {tx} : tx \in {x \in {outbox[1]} : CheckTx(x)}}
  /\ Ends
  /\ UNCHANGED <<file, registered>>

\* Mutant: the state is not written.
SaveNothing ==
  /\ step = "accepted"
  /\ registered' = registered \union mem.submitted_spend_set
  /\ Ends
  /\ UNCHANGED <<file, mempool>>

Save ==
  /\ step = "accepted"
  /\ file' = mem
  /\ registered' = registered \union mem.submitted_spend_set
  /\ Ends
  /\ UNCHANGED mempool

\* sweep builds all its transactions first ...
BuildSweep ==
  /\ step = "synced"
  /\ \E stake \in SweepGroups(OfDenom(mem.unspent_set, Stake)),
        tokens \in SweepGroups(OfDenom(mem.unspent_set, DelegationToken)) :
       /\ stake \union tokens # {}
       /\ outbox' = SweepTransactions(Stake, stake) \o SweepTransactions(DelegationToken, tokens)
  /\ step' = "sweeping" /\ sent' = 0
  /\ UNCHANGED <<chain_vars, file, mem, end_height, count, commands, registered>>

\* ... submits one after the other without looking at the node's verdict ...
SubmitSweep ==
  /\ step = "sweeping" /\ sent < Len(outbox)
  /\ mempool' = IF CheckTx(outbox[sent + 1]) THEN mempool \union {outbox[sent + 1]} ELSE mempool
  /\ sent' = sent + 1
  /\ UNCHANGED <<chain, clock, file, mem, step, end_height, count, outbox, commands, registered>>

\* ... and registers them, in memory only: the command ends without a commit.
FinishSweep ==
  /\ step = "sweeping" /\ sent = Len(outbox)
  /\ Ends
  /\ UNCHANGED <<file, mempool, registered>>

\* A command with nothing to build is over after the sync, and any command may die.
Exit ==
  /\ step # "idle"
  /\ Ends
  /\ UNCHANGED <<file, registered, mempool>>

-----------------------------------------------------------------------------
(* The chain and the clock                                                 *)

MakeBlock(txs, paid) ==
  /\ Height < MaxHeight
  /\ \A tx \in txs : tx.spends \intersect OnChain = {}
  /\ \A s, t \in txs : s # t => s.spends \intersect t.spends = {}
  /\ chain' = Append(chain, [outputs    |-> paid \union UNION {tx.outputs : tx \in txs},
                             nullifiers |-> UNION {tx.spends : tx \in txs}])
  /\ mempool' = mempool \ txs
  /\ UNCHANGED <<clock, file, mem, command_vars, registered>>

Pay == [id |-> <<Height + 1, "payment", Stake, 0>>, denom |-> Stake, amount |-> Payment, mine |-> TRUE]

DropTx(tx) ==
  /\ mempool' = mempool \ {tx}
  /\ UNCHANGED <<chain, clock, file, mem, command_vars, registered>>

Tick ==
  /\ clock < MaxClock /\ clock' = clock + 1
  /\ UNCHANGED <<chain, mempool, file, mem, command_vars, registered>>

Next ==
  \/ Load \/ RequestBlocks \/ ScanNext \/ FinishSync
  \/ \E r \in Requests : Build(r)
  \/ Submit \/ SubmitFails \/ Save
  \/ BuildSweep \/ SubmitSweep \/ FinishSweep
  \/ Exit
  \/ \E txs \in SUBSET mempool, paid \in {{}, {Pay}} : MakeBlock(txs, paid)
  \/ \E tx \in mempool : DropTx(tx)
  \/ Tick

Spec == Init /\ [][Next]_vars

-----------------------------------------------------------------------------
(* Properties                                                              *)

\* What the blocks a state has scanned say about this wallet's notes.
Scanned(s) == 1 .. (s.last_block_height + 1)
Received(s) == {n \in UNION {chain[i].outputs : i \in Scanned(s)} : n.mine}
Spent(s) == Received(s) \intersect UNION {chain[i].nullifiers : i \in Scanned(s)}

\* No note is lost or resurrected, on disk or in memory, through timeouts,
\* lost answers and crashes: what the scanned blocks show as spent is in the
\* spent set, and every other note is ready or waiting, never both.
NotesAccounted ==
  \A s \in {file, mem} :
    /\ s.spent_set = Spent(s)
    /\ s.unspent_set \union Notes(s.submitted_spend_set) = Received(s) \ Spent(s)
    /\ s.unspent_set \intersect Notes(s.submitted_spend_set) = {}

\* Expected change is not also counted as received: the total that
\* `pcli balance' shows (ready plus expected change) counts a note once.
ChangeCountedOnce ==
  \A s \in {file, mem} : Notes(s.submitted_change_set) \intersect Received(s) = {}

\* add_spend finds an authentication path for every note that is ready, or may
\* become so again when its spend times out.
SpendableHavePath ==
  \A s \in {file, mem} : s.unspent_set \union Notes(s.submitted_spend_set) \subseteq s.witnessed

\* Builder::finalize never meets a nonzero value balance, whatever notes were
\* drawn and however the rate rounds.
BuildsBalance == \A i \in DOMAIN outbox : ValueBalance(outbox[i]) = [d \in Denoms |-> 0]

\* Tracking submitted spends keeps the wallet from attempting to spend a note
\* twice: no transaction it builds, a sweep's included, spends a note that a
\* command has registered and saved, before that registration times out.
\* (What a sweep registers is not saved, and not covered.)
NoSecondAttempt ==
  \A i \in DOMAIN outbox, e \in registered : e.note \in outbox[i].spends => clock > e.timeout
=============================================================================
