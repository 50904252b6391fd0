------------------------------- MODULE Storage -------------------------------
(***************************************************************************)
(* Persistent storage (storage/src/storage.rs) under the consensus worker  *)
(* and crashes; the latest version may be asked for at any time.  A commit *)
(* hands Storage the nodes a version adds to the Jellyfish tree; they are  *)
(* put into RocksDB one at a time, in the order of their keys, which is    *)
(* also the order of the database: by version, and within a version from   *)
(* the root down, so that the last node of a version is a leaf.  The       *)
(* latest version is read off the last key.                                *)
(*                                                                         *)
(* Outside the repository, modelled from how it is used: the tree's node   *)
(* batches; RocksDB, which after a crash has a prefix of the puts; and     *)
(* Tendermint's handshake, which sends InitChain to an application that    *)
(* reports height 0 and otherwise replays from the reported height.        *)
(***************************************************************************)
EXTENDS Integers, Sequences, FiniteSets

CONSTANTS
  MaxVersion,  \* bound: versions committed
  Batches,     \* kinds of the nodes of each version, in key order
  MaxCrashes   \* bound

ASSUME StorageAssumption ==
  /\ MaxVersion \in Nat /\ MaxCrashes \in Nat
  /\ Batches \in [0 .. MaxVersion -> Seq({"internal", "leaf"})]
  /\ \A v \in 0 .. MaxVersion : Len(Batches[v]) > 0 /\ Batches[v][Len(Batches[v])] = "leaf"

PreGenesis == -1  \* PRE_GENESIS_VERSION, the predecessor of version 0
None == -1        \* Option::None of latest_version

VARIABLES
  nodes,    \* RocksDB: how many nodes of each version are there
  phase,    \* of the consensus worker
  version,  \* the version its State is based on
  written,  \* nodes of the next version put by the commit under way
  acked,    \* versions whose commit was answered
  crashes

vars == <<nodes, phase, version, written, acked, crashes>>

Phases == {"down", "await_init", "running", "writing", "init_panicked", "commit_panicked"}

Init ==
  /\ nodes = [v \in 0 .. MaxVersion |-> 0]
  /\ phase = "down" /\ version = PreGenesis /\ written = 0
  /\ acked = {}
  /\ crashes = 0

Recorded == {v \in 0 .. MaxVersion : nodes[v] > 0}
Complete(v) == nodes[v] = Len(Batches[v])

\* Mutant: the first key, not the last.
FirstRecorded == CHOOSE v \in Recorded : \A w \in Recorded : v <= w

\* latest_version: get_rightmost_leaf seeks to the last key, and finds nothing
\* when the node there is not a leaf.
LastRecorded == CHOOSE v \in Recorded : \A w \in Recorded : w <= v
LatestVersion ==
  IF Recorded = {} THEN None
  ELSE IF Batches[LastRecorded][nodes[LastRecorded]] = "leaf" THEN LastRecorded ELSE None

\* Info: last_block_height is latest_version, or 0 when there is none.
InfoHeight == IF LatestVersion = None THEN 0 ELSE LatestVersion

-----------------------------------------------------------------------------

\* Storage::load and Storage::state, then Tendermint's handshake.
Start ==
  /\ phase = "down"
  /\ version' = IF LatestVersion = None THEN PreGenesis ELSE LatestVersion
  /\ phase' = IF InfoHeight = 0 THEN "await_init" ELSE "running"
  /\ UNCHANGED <<nodes, written, acked, crashes>>

\* Worker::init_chain: an initialized database is an error, which the worker
\* does not survive; otherwise the genesis state is committed.
InitChain ==
  /\ phase = "await_init"
  /\ phase' = IF LatestVersion # None THEN "init_panicked" ELSE "writing"
  /\ written' = 0
  /\ UNCHANGED <<nodes, version, acked, crashes>>

\* Worker::commit at the end of the next block.
BeginCommit ==
  /\ phase = "running" /\ version < MaxVersion
  /\ phase' = "writing" /\ written' = 0
  /\ UNCHANGED <<nodes, version, acked, crashes>>

\* One db.put of write_node_batch.  A node that is there already is overwritten.
PutNode ==
  /\ phase = "writing" /\ written < Len(Batches[version + 1])
  /\ written' = written + 1
  /\ nodes' = [nodes EXCEPT ![version + 1] = IF @ < written + 1 THEN written + 1 ELSE @]
  /\ UNCHANGED <<phase, version, acked, crashes>>

\* Mutants: the commit is answered before its last put; the State stays on the
\* old version.
FinishCommitEarly ==
  /\ phase = "writing" /\ written = Len(Batches[version + 1]) - 1
  /\ version' = version + 1
  /\ phase' = "running" /\ acked' = acked \union {version'}
  /\ UNCHANGED <<nodes, written, crashes>>
FinishCommitStale ==
  /\ phase = "writing" /\ written = Len(Batches[version + 1])
  /\ phase' = "running" /\ acked' = acked \union {version + 1}
  /\ UNCHANGED <<nodes, version, written, crashes>>

\* The batch is written.  A block's commit then asks for the latest version,
\* expecting one, to send its height to the mempool; init_chain does not.
FinishCommit ==
  /\ phase = "writing" /\ written = Len(Batches[version + 1])
  /\ version' = version + 1
  /\ IF version' > 0 /\ LatestVersion = None
     THEN phase' = "commit_panicked" /\ UNCHANGED acked
     ELSE phase' = "running" /\ acked' = acked \union {version'}
  /\ UNCHANGED <<nodes, written, crashes>>

\* The process dies, between two puts or elsewhere.
Crash ==
  /\ phase # "down" /\ crashes < MaxCrashes
  /\ phase' = "down" /\ version' = PreGenesis /\ written' = 0
  /\ crashes' = crashes + 1
  /\ UNCHANGED <<nodes, acked>>

Next ==
  \/ Start
  \/ InitChain
  \/ BeginCommit
  \/ PutNode
  \/ FinishCommit
  \/ Crash

Spec == Init /\ [][Next]_vars

-----------------------------------------------------------------------------
(* Properties                                                              *)

\* The shape of the database and of what the worker holds.
TypeOK ==
  /\ nodes \in [0 .. MaxVersion -> Nat]
  /\ \A v \in 0 .. MaxVersion : nodes[v] <= Len(Batches[v])
  /\ phase \in Phases
  /\ version \in -1 .. MaxVersion
  /\ phase = "writing" => version < MaxVersion /\ written <= Len(Batches[version + 1])
  /\ written \in Nat
  /\ acked \subseteq 0 .. MaxVersion
  /\ crashes \in Nat

\* What was answered is durable: all nodes of a version whose commit was
\* answered are in the database, wherever the node crashes later.
AckedComplete == \A v \in acked : Complete(v)

\* Whoever opens a State (the workers, state_tonic for each gRPC request), at
\* any time, gets none that is older than an answered commit,
\* unless latest_version finds none at all.
LatestNotBehind == LatestVersion # None => \A v \in acked : v <= LatestVersion

\* Without a crash, and outside a commit, the latest version is the committed
\* one and is complete.
QuiescentLatest ==
  crashes = 0 /\ phase = "running" => LatestVersion = version /\ Complete(version)

\* After a commit the latest version is there: the worker expects the "just
\* committed version".
CommitSucceeds == phase # "commit_panicked"
=============================================================================
