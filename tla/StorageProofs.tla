---------------------------- MODULE StorageProofs ----------------------------
(***************************************************************************)
(* What holds of Storage for any node batches, any number of versions and  *)
(* any number of crashes at any point.                                     *)
(*                                                                         *)
(* That an answered commit is durable needs to know that the puts of the   *)
(* commit under way are in the database (WrittenThere).  That nobody is    *)
(* given an older version needs to know that versions are recorded without *)
(* a gap (Gapless), through crashes and through the replay from version 0  *)
(* of a database whose latest version cannot be found, and that the worker *)
(* builds on a recorded version.  That the latest version is the committed *)
(* one while nothing is being written holds until the first crash, as the  *)
(* database then has nothing of a later version (CleanInv).                *)
(***************************************************************************)
EXTENDS Storage, TLAPS

\* Exactly the versions up to m have nodes.
Gapless(m) == \A v \in 0 .. MaxVersion : nodes[v] > 0 <=> v <= m

\* The worker that waits for InitChain has the state it would load now.
BootVersion ==
  phase = "await_init" => version = IF LatestVersion = None THEN PreGenesis ELSE LatestVersion

WrittenThere == phase = "writing" => nodes[version + 1] >= written

BuildsOnRecorded ==
  \E m \in -1 .. MaxVersion : Gapless(m) /\ (phase \in {"running", "writing"} => version <= m)

IInv == TypeOK /\ BootVersion /\ WrittenThere /\ BuildsOnRecorded /\ AckedComplete

\* In a gapless database the last recorded version is the top one.
LEMMA LastIsTop ==
  ASSUME TypeOK, NEW m \in -1 .. MaxVersion, Gapless(m)
  PROVE  IF m = -1 THEN Recorded = {} /\ LatestVersion = None
         ELSE LastRecorded = m /\ LatestVersion \in {m, None}
<1> USE StorageAssumption
<1>1. CASE m = -1
  <2>1. Recorded = {} BY <1>1 DEF Recorded, Gapless, TypeOK
  <2> QED BY <1>1, <2>1 DEF LatestVersion
<1>2. CASE m # -1
  <2>1. m \in Recorded /\ \A w \in Recorded : w <= m /\ w \in Int
    BY <1>2 DEF Recorded, Gapless, TypeOK
  <2>2. \A x \in Recorded : (\A w \in Recorded : w <= x) => x = m BY <2>1, <1>2
  <2>3. LastRecorded = m BY <2>1, <2>2 DEF LastRecorded
  <2> QED BY <1>2, <2>1, <2>3 DEF LatestVersion
<1> QED BY <1>1, <1>2

\* Every action preserves the inductive invariant.
LEMMA IInvStep == IInv /\ [Next]_vars => IInv'
<1> SUFFICES ASSUME IInv, [Next]_vars PROVE IInv'
  OBVIOUS
<1> USE StorageAssumption
<1>0. PICK m \in -1 .. MaxVersion : Gapless(m) /\ (phase \in {"running", "writing"} => version <= m)
  BY DEF IInv, BuildsOnRecorded
<1>1. CASE Start
  <2>1. LatestVersion \in {m, None} BY <1>0, LastIsTop DEF IInv, None
  <2>2. LatestVersion' = LatestVersion /\ Gapless(m)'
    BY <1>0, <1>1 DEF Start, LatestVersion, LastRecorded, Recorded, Gapless
  <2>3. TypeOK' BY <1>1, <2>1 DEF Start, IInv, TypeOK, Phases, PreGenesis, None
  <2>4. BootVersion' BY <1>1, <2>2 DEF Start, BootVersion
  <2>5. BuildsOnRecorded'
    BY <1>1, <2>1, <2>2 DEF Start, BuildsOnRecorded, InfoHeight, PreGenesis, None
  <2> QED BY <1>1, <2>3, <2>4, <2>5 DEF Start, IInv, WrittenThere, AckedComplete, Complete
<1>2. CASE InitChain
  <2>1. UNCHANGED <<nodes, version, acked, crashes>> /\ written' = 0 BY <1>2 DEF InitChain
  <2>2. LatestVersion = None => version = -1
    BY <1>2 DEF InitChain, IInv, BootVersion, PreGenesis
  <2>3. TypeOK'
    BY <1>2, <2>1, <2>2 DEF InitChain, IInv, TypeOK, Phases
  <2>4. BuildsOnRecorded'
    <3>1. Gapless(m)' BY <1>0, <2>1 DEF Gapless
    <3>2. phase' = "writing" => version' = -1 BY <1>2, <2>1, <2>2 DEF InitChain
    <3>3. phase' # "running" BY <1>2 DEF InitChain
    <3> QED BY <3>1, <3>2, <3>3 DEF BuildsOnRecorded
  <2>5. WrittenThere' BY <1>2, <2>1, <2>2 DEF InitChain, IInv, TypeOK, WrittenThere
  <2> QED BY <1>2, <2>1, <2>3, <2>4, <2>5 DEF InitChain, IInv, BootVersion, AckedComplete, Complete
<1>3. CASE BeginCommit
  <2>1. TypeOK' BY <1>3 DEF BeginCommit, IInv, TypeOK, Phases
  <2>2. BuildsOnRecorded' BY <1>0, <1>3 DEF BeginCommit, BuildsOnRecorded, Gapless
  <2>3. WrittenThere' BY <1>3 DEF BeginCommit, IInv, TypeOK, WrittenThere
  <2> QED BY <1>3, <2>1, <2>2, <2>3 DEF BeginCommit, IInv, BootVersion, AckedComplete, Complete
<1>4. CASE PutNode
  <2>1. version \in Int /\ version + 1 \in 0 .. MaxVersion /\ version <= m
    BY <1>0, <1>4 DEF PutNode, IInv, TypeOK
  <2>2. \A v \in 0 .. MaxVersion :
          nodes'[v] = IF v = version + 1 /\ nodes[v] < written + 1 THEN written + 1 ELSE nodes[v]
    BY <1>4, <2>1 DEF PutNode, IInv, TypeOK
  <2>3. TypeOK'
    <3>1. nodes' \in [0 .. MaxVersion -> Nat] BY <1>4, <2>1 DEF PutNode, IInv, TypeOK
    <3>2. \A v \in 0 .. MaxVersion : nodes'[v] <= Len(Batches[v])
      BY <1>4, <2>1, <2>2 DEF PutNode, IInv, TypeOK
    <3> QED BY <1>4, <2>1, <3>1, <3>2 DEF PutNode, IInv, TypeOK
  <2>4. BuildsOnRecorded'
    <3> DEFINE top == IF version + 1 > m THEN version + 1 ELSE m
    <3>1. top \in -1 .. MaxVersion /\ version <= top BY <2>1
    <3>2. Gapless(top)' BY <1>0, <1>4, <2>1, <2>2 DEF Gapless, PutNode, IInv, TypeOK
    <3> QED BY <1>4, <3>1, <3>2 DEF PutNode, BuildsOnRecorded
  <2>5. WrittenThere' BY <1>4, <2>1, <2>2 DEF PutNode, WrittenThere, IInv, TypeOK
  <2>6. AckedComplete'
    BY <1>4, <2>1, <2>2 DEF PutNode, AckedComplete, Complete, IInv, TypeOK
  <2> QED BY <1>4, <2>3, <2>4, <2>5, <2>6 DEF PutNode, IInv, BootVersion
<1>5. CASE FinishCommit
  <2>1. /\ version + 1 \in 0 .. MaxVersion /\ version' = version + 1
        /\ nodes[version + 1] = Len(Batches[version + 1])
        /\ UNCHANGED nodes
    BY <1>5 DEF FinishCommit, IInv, TypeOK, WrittenThere
  <2>2. version + 1 <= m BY <1>0, <2>1 DEF Gapless
  <2>3. TypeOK'
    <3>1. phase' \in {"running", "commit_panicked"} BY <1>5 DEF FinishCommit
    <3>2. acked' \subseteq 0 .. MaxVersion BY <1>5, <2>1 DEF FinishCommit, IInv, TypeOK
    <3> QED BY <1>5, <2>1, <3>1, <3>2 DEF FinishCommit, IInv, TypeOK, Phases
  <2>4. BuildsOnRecorded' BY <1>0, <2>1, <2>2 DEF BuildsOnRecorded, Gapless
  <2>5. AckedComplete' BY <1>5, <2>1 DEF FinishCommit, AckedComplete, Complete, IInv
  <2> QED BY <1>5, <2>3, <2>4, <2>5 DEF FinishCommit, IInv, BootVersion, WrittenThere
<1>6. CASE Crash
  <2>1. TypeOK' BY <1>6 DEF Crash, IInv, TypeOK, Phases, PreGenesis
  <2>2. BuildsOnRecorded' BY <1>0, <1>6 DEF Crash, BuildsOnRecorded, Gapless
  <2> QED BY <1>6, <2>1, <2>2 DEF Crash, IInv, BootVersion, WrittenThere, AckedComplete, Complete
<1>7. CASE UNCHANGED vars
  <2>1. UNCHANGED <<nodes, phase, version, written, acked, crashes>> BY <1>7 DEF vars
  <2>2. UNCHANGED LatestVersion BY <2>1 DEF LatestVersion, LastRecorded, Recorded
  <2>3. TypeOK' BY <2>1 DEF IInv, TypeOK
  <2>4. BuildsOnRecorded' BY <1>0, <2>1 DEF BuildsOnRecorded, Gapless
  <2> QED BY <2>1, <2>2, <2>3, <2>4 DEF IInv, BootVersion, WrittenThere, AckedComplete, Complete
<1> QED BY <1>1, <1>2, <1>3, <1>4, <1>5, <1>6, <1>7 DEF Next

\* The inductive invariant holds at the start, and so always.
LEMMA IInvHolds == Spec => []IInv
<1>1. Init => IInv
  <2> SUFFICES ASSUME Init PROVE IInv
    OBVIOUS
  <2> USE StorageAssumption
  <2>1. TypeOK BY DEF Init, TypeOK, Phases, PreGenesis
  <2>2. BuildsOnRecorded
    <3>1. Gapless(-1) BY DEF Init, Gapless
    <3> QED BY <3>1 DEF Init, BuildsOnRecorded
  <2> QED BY <2>1, <2>2 DEF Init, IInv, BootVersion, WrittenThere, AckedComplete
<1> QED BY <1>1, IInvStep, PTL DEF Spec

\* The database, the worker's version and the commit under way keep their
\* types: write_node_batch never runs past a batch or past the version bound.
THEOREM StorageTypeCorrect == Spec => []TypeOK
<1>1. IInv => TypeOK BY DEF IInv
<1> QED BY <1>1, IInvHolds, PTL

\* A commit that was answered (Worker::commit returned) is durable, through
\* every later crash, torn batch and replay.
THEOREM AnsweredIsDurable == Spec => []AckedComplete
<1>1. IInv => AckedComplete BY DEF IInv
<1> QED BY <1>1, IInvHolds, PTL

\* The version latest_version finds is never older than an answered commit:
\* reading it off the last key of the database is right about the past.
THEOREM NeverBehind == Spec => []LatestNotBehind
<1>1. IInv => LatestNotBehind
  <2> SUFFICES ASSUME IInv, LatestVersion # None, NEW v \in acked PROVE v <= LatestVersion
    BY DEF LatestNotBehind
  <2> USE StorageAssumption
  <2>1. PICK m \in -1 .. MaxVersion : Gapless(m) BY DEF IInv, BuildsOnRecorded
  <2>2. m # -1 /\ LatestVersion = m BY <2>1, LastIsTop DEF IInv
  <2>3. v \in 0 .. MaxVersion /\ nodes[v] > 0 BY DEF IInv, TypeOK, AckedComplete, Complete
  <2> QED BY <2>1, <2>2, <2>3 DEF Gapless
<1> QED BY <1>1, IInvHolds, PTL

\* As long as the process has not died, only the next version can be partly
\* there, and no more of it than the commit under way has put.
CleanInv ==
  crashes = 0 =>
    /\ phase \in {"down", "await_init"} => Gapless(-1)
    /\ phase = "running" => version >= 0 /\ Gapless(version) /\ Complete(version)
    /\ phase = "writing" =>
         /\ nodes[version + 1] = written
         /\ \A v \in 0 .. MaxVersion : v # version + 1 => (nodes[v] > 0 <=> v <= version)

\* Every action preserves it, given the inductive invariant.
LEMMA CleanStep == IInv /\ CleanInv /\ [Next]_vars => CleanInv'
<1> SUFFICES ASSUME IInv, CleanInv, [Next]_vars, crashes' = 0 PROVE CleanInv'
  BY DEF CleanInv
<1> USE StorageAssumption
<1>1. TypeOK BY DEF IInv
<1>2. phase \in {"down", "await_init"} /\ crashes = 0 => LatestVersion = None
  BY <1>1, LastIsTop DEF CleanInv
<1>3. CASE Start
  <2>1. crashes = 0 /\ phase = "down" /\ nodes' = nodes BY <1>3 DEF Start
  <2>2. phase' = "await_init" BY <1>2, <1>3, <2>1 DEF Start, InfoHeight
  <2> QED BY <2>1, <2>2 DEF CleanInv, Gapless
<1>4. CASE InitChain
  <2>1. crashes = 0 /\ phase = "await_init" /\ nodes' = nodes /\ version' = version /\ written' = 0
    BY <1>4 DEF InitChain
  <2>2. LatestVersion = None /\ Gapless(-1) BY <1>2, <2>1 DEF CleanInv
  <2>3. version = -1 BY <2>1, <2>2 DEF IInv, BootVersion, PreGenesis
  <2>4. phase' = "writing" BY <1>4, <2>2 DEF InitChain
  <2>5. \A v \in 0 .. MaxVersion : nodes[v] = 0 BY <1>1, <2>2 DEF Gapless, TypeOK
  <2>6. nodes[0] = 0 /\ version + 1 = 0 BY <2>3, <2>5
  <2> QED BY <2>1, <2>3, <2>4, <2>5, <2>6 DEF CleanInv
<1>5. CASE BeginCommit
  <2>1. /\ crashes = 0 /\ phase = "running" /\ nodes' = nodes /\ version' = version /\ written' = 0
        /\ phase' = "writing" /\ version < MaxVersion
    BY <1>5 DEF BeginCommit
  <2>2. version >= 0 /\ Gapless(version) BY <2>1 DEF CleanInv
  <2>3. version + 1 \in 0 .. MaxVersion /\ ~(version + 1 <= version) BY <1>1, <2>1, <2>2 DEF TypeOK
  <2>4. nodes[version + 1] = 0 BY <1>1, <2>2, <2>3 DEF Gapless, TypeOK
  <2> QED BY <2>1, <2>2, <2>4 DEF CleanInv, Gapless
<1>6. CASE PutNode
  <2>1. /\ crashes = 0 /\ phase = "writing" /\ phase' = phase /\ version' = version /\ written' = written + 1
        /\ version + 1 \in 0 .. MaxVersion /\ written \in Nat
    BY <1>1, <1>6 DEF PutNode, TypeOK
  <2>2. \A v \in 0 .. MaxVersion :
          nodes'[v] = IF v = version + 1 /\ nodes[v] < written + 1 THEN written + 1 ELSE nodes[v]
    BY <1>1, <1>6, <2>1 DEF PutNode, TypeOK
  <2>3. nodes[version + 1] = written BY <2>1 DEF CleanInv
  <2>4. nodes'[version + 1] = written + 1 BY <2>1, <2>2, <2>3
  <2> QED BY <2>1, <2>2, <2>4 DEF CleanInv
<1>7. CASE FinishCommit
  <2>1. /\ crashes = 0 /\ phase = "writing" /\ nodes' = nodes /\ version' = version + 1
        /\ phase' \in {"running", "commit_panicked"} /\ version + 1 \in 0 .. MaxVersion
        /\ written = Len(Batches[version + 1])
    BY <1>1, <1>7 DEF FinishCommit, TypeOK
  <2>2. nodes[version + 1] = Len(Batches[version + 1]) /\ nodes[version + 1] > 0
    BY <2>1 DEF CleanInv
  <2>3. \A v \in 0 .. MaxVersion : v # version + 1 => (nodes[v] > 0 <=> v <= version)
    BY <2>1 DEF CleanInv
  <2>4. version \in Int BY <1>1 DEF TypeOK
  <2>5. \A v \in 0 .. MaxVersion : nodes[v] > 0 <=> v <= version + 1 BY <2>2, <2>3, <2>4
  <2>6. Gapless(version)' BY <2>1, <2>5 DEF Gapless
  <2>7. Complete(version)' BY <2>1, <2>2 DEF Complete
  <2> QED BY <2>1, <2>4, <2>6, <2>7 DEF CleanInv
<1>8. CASE Crash
  <2>1. crashes' = crashes + 1 /\ crashes \in Nat BY <1>1, <1>8 DEF Crash, TypeOK
  <2> QED BY <2>1
<1>9. CASE UNCHANGED vars
  <2>1. UNCHANGED <<nodes, phase, version, written, acked, crashes>> BY <1>9 DEF vars
  <2> QED BY <2>1 DEF CleanInv, Gapless, Complete
<1> QED BY <1>3, <1>4, <1>5, <1>6, <1>7, <1>8, <1>9 DEF Next

\* Until the first crash, a worker that runs has the latest version, and all
\* of it is in the database (Storage::latest_version after Worker::commit).
THEOREM LatestIsCommitted == Spec => []QuiescentLatest
<1>1. Init => CleanInv BY StorageAssumption DEF Init, CleanInv, Gapless
<1>2. IInv /\ CleanInv => QuiescentLatest
  <2> SUFFICES ASSUME IInv, CleanInv, crashes = 0, phase = "running"
               PROVE  LatestVersion = version /\ Complete(version)
    BY DEF QuiescentLatest
  <2> USE StorageAssumption
  <2>1. version >= 0 /\ Gapless(version) /\ Complete(version) BY DEF CleanInv
  <2>2. version \in -1 .. MaxVersion /\ TypeOK BY DEF IInv, TypeOK
  <2>3. LastRecorded = version BY <2>1, <2>2, LastIsTop
  <2>4. Recorded # {} /\ version \in 0 .. MaxVersion
    <3>1. version \in 0 .. MaxVersion /\ version <= version BY <2>1, <2>2
    <3>2. nodes[version] > 0 BY <2>1, <3>1 DEF Gapless
    <3> QED BY <3>1, <3>2 DEF Recorded
  <2>5. Batches[version][nodes[version]] = "leaf" BY <2>1, <2>4 DEF Complete
  <2> QED BY <2>1, <2>3, <2>4, <2>5 DEF LatestVersion
<1> QED BY <1>1, <1>2, IInvHolds, CleanStep, PTL DEF Spec
=============================================================================
