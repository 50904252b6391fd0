----------------------------- MODULE WalletProofs -----------------------------
(***************************************************************************)
(* Proofs about Wallet, for every genesis, set of requests, timeout and    *)
(* checkpoint interval, and every interleaving of commands that may die    *)
(* with a chain that may drop what they submit.                            *)
(***************************************************************************)
EXTENDS Wallet, Arithmetic, SequenceTheorems, TLAPS

-----------------------------------------------------------------------------
(* The chain                                                               *)

WalletNotes == NotesOf(NoteIds)
Blocks == [outputs : SUBSET WalletNotes, nullifiers : SUBSET WalletNotes]

\* What the first k blocks of a chain create and spend, and the wallet's part of it.
OutputsTo(c, k) == UNION {c[i].outputs : i \in 1 .. k}
NullifiersTo(c, k) == UNION {c[i].nullifiers : i \in 1 .. k}
ReceivedTo(c, k) == {n \in OutputsTo(c, k) : n.mine}
SpentTo(c, k) == ReceivedTo(c, k) \intersect NullifiersTo(c, k)

\* A note is created once, and spent once, in a later block than the one that
\* creates it.  Only this wallet's notes are spent.
ChainOK(c) ==
  /\ c \in Seq(Blocks) /\ c # << >>
  /\ \A i \in 1 .. Len(c) : IsFiniteSet(c[i].outputs)
  /\ \A i, j \in 1 .. Len(c) : i # j => /\ c[i].outputs \intersect c[j].outputs = {}
                                        /\ c[i].nullifiers \intersect c[j].nullifiers = {}
  /\ \A i \in 1 .. Len(c) : c[i].nullifiers \subseteq ReceivedTo(c, i - 1)

\* One more block.
LEMMA OneMore ==
  ASSUME NEW c, NEW k \in Nat
  PROVE  /\ OutputsTo(c, k + 1) = OutputsTo(c, k) \union c[k + 1].outputs
         /\ NullifiersTo(c, k + 1) = NullifiersTo(c, k) \union c[k + 1].nullifiers
         /\ OutputsTo(c, 0) = {} /\ NullifiersTo(c, 0) = {}
  <1> DEFINE m == k + 1
  <1>1. 1 .. m = 1 .. k \union {m} /\ 1 .. 0 = {} OBVIOUS
  <1> HIDE DEF m
  <1>2. OutputsTo(c, m) = OutputsTo(c, k) \union c[m].outputs BY <1>1 DEF OutputsTo
  <1>3. NullifiersTo(c, m) = NullifiersTo(c, k) \union c[m].nullifiers BY <1>1 DEF NullifiersTo
  <1>4. OutputsTo(c, 0) = {} /\ NullifiersTo(c, 0) = {} BY <1>1 DEF OutputsTo, NullifiersTo
  <1> QED BY <1>2, <1>3, <1>4 DEF m

\* What the first blocks say does not depend on the later ones.
LEMMA SamePrefix ==
  ASSUME NEW c, NEW d, NEW k, \A i \in 1 .. k : c[i] = d[i]
  PROVE  ReceivedTo(c, k) = ReceivedTo(d, k) /\ SpentTo(c, k) = SpentTo(d, k)
  <1>1. OutputsTo(c, k) = OutputsTo(d, k) BY DEF OutputsTo
  <1>2. NullifiersTo(c, k) = NullifiersTo(d, k) BY DEF NullifiersTo
  <1> QED BY <1>1, <1>2 DEF ReceivedTo, SpentTo

\* More blocks, more notes.
LEMMA ReceivedGrows ==
  ASSUME NEW c, NEW k \in Int, NEW l \in Int, k <= l
  PROVE  OutputsTo(c, k) \subseteq OutputsTo(c, l) /\ ReceivedTo(c, k) \subseteq ReceivedTo(c, l)
  <1>1. 1 .. k \subseteq 1 .. l OBVIOUS
  <1> QED BY <1>1 DEF ReceivedTo, OutputsTo

\* What block k + 1 adds to what the wallet has received and spent.
LEMMA NextBlock ==
  ASSUME NEW c, ChainOK(c), NEW k \in Nat, k + 1 <= Len(c)
  PROVE  LET b == c[k + 1]
             found == {n \in b.outputs : n.mine}
         IN /\ b \in Blocks /\ IsFiniteSet(b.outputs)
            /\ ReceivedTo(c, k + 1) = ReceivedTo(c, k) \union found
            /\ found \intersect ReceivedTo(c, k) = {}
            /\ b.nullifiers \subseteq ReceivedTo(c, k)
            /\ b.nullifiers \intersect SpentTo(c, k) = {}
            /\ SpentTo(c, k + 1) = SpentTo(c, k) \union b.nullifiers
  <1> DEFINE m == k + 1
             b == c[m]
             found == {n \in b.outputs : n.mine}
             R == ReceivedTo(c, k)
  <1>1. m \in 1 .. Len(c) /\ m - 1 = k /\ \A i \in 1 .. k : i \in 1 .. Len(c) /\ i # m
    <2>1. Len(c) \in Nat BY LenProperties DEF ChainOK
    <2> QED BY <2>1
  <1>2. /\ OutputsTo(c, m) = OutputsTo(c, k) \union b.outputs
        /\ NullifiersTo(c, m) = NullifiersTo(c, k) \union b.nullifiers
    BY OneMore
  <1> HIDE DEF m
  <1>3. b \in Blocks /\ IsFiniteSet(b.outputs) BY <1>1, ElementOfSeq DEF ChainOK
  <1>4. b.outputs \intersect OutputsTo(c, k) = {}
    <2>1. \A i \in 1 .. k : c[i].outputs \intersect b.outputs = {} BY <1>1 DEF ChainOK
    <2> QED BY <2>1 DEF OutputsTo
  <1>5. b.nullifiers \intersect NullifiersTo(c, k) = {}
    <2>1. \A i \in 1 .. k : c[i].nullifiers \intersect b.nullifiers = {} BY <1>1 DEF ChainOK
    <2> QED BY <2>1 DEF NullifiersTo
  <1>6. b.nullifiers \subseteq R BY <1>1 DEF ChainOK
  <1>7. NullifiersTo(c, k) \subseteq R
    <2> SUFFICES ASSUME NEW i \in 1 .. k PROVE c[i].nullifiers \subseteq R BY DEF NullifiersTo
    <2>1. c[i].nullifiers \subseteq ReceivedTo(c, i - 1) BY <1>1 DEF ChainOK
    <2>2. i - 1 \in Int /\ k \in Int /\ i - 1 <= k OBVIOUS
    <2>3. ReceivedTo(c, i - 1) \subseteq R BY <2>2, ReceivedGrows
    <2> QED BY <2>1, <2>3
  <1>8. ReceivedTo(c, m) = R \union found BY <1>2 DEF ReceivedTo
  <1>9. R \subseteq OutputsTo(c, k) BY DEF ReceivedTo
  <1>10. found \intersect R = {} BY <1>4, <1>9
  <1>11. SpentTo(c, m) = SpentTo(c, k) \union b.nullifiers
    BY <1>2, <1>6, <1>7, <1>8, <1>10 DEF SpentTo
  <1>12. b.nullifiers \intersect SpentTo(c, k) = {} BY <1>5 DEF SpentTo
  <1> QED BY <1>3, <1>6, <1>8, <1>10, <1>11, <1>12 DEF m

-----------------------------------------------------------------------------
(* One client state                                                        *)

Entry == [note : WalletNotes, timeout : Int]
ClientStates ==
  [last_block_height : Int, nullifier_map : SUBSET WalletNotes, unspent_set : SUBSET WalletNotes,
   submitted_spend_set : SUBSET Entry, submitted_change_set : SUBSET Entry,
   spent_set : SUBSET WalletNotes, witnessed : SUBSET WalletNotes]

\* The properties of a client state against the blocks it has scanned, with
\* what makes them inductive: its map of nullifiers is what it has received,
\* and a note has one submitted spend.
StateOK(c, s) ==
  /\ s \in ClientStates
  /\ s.last_block_height + 1 \in 0 .. Len(c)
  /\ s.nullifier_map = ReceivedTo(c, s.last_block_height + 1) /\ IsFiniteSet(s.nullifier_map)
  /\ s.spent_set = SpentTo(c, s.last_block_height + 1)
  /\ s.unspent_set \union Notes(s.submitted_spend_set) = s.nullifier_map \ s.spent_set
  /\ s.unspent_set \intersect Notes(s.submitted_spend_set) = {}
  /\ \A e, f \in s.submitted_spend_set : e.note = f.note => e = f
  /\ Notes(s.submitted_change_set) \intersect s.nullifier_map = {}
  /\ s.unspent_set \union Notes(s.submitted_spend_set) \subseteq s.witnessed

\* Removing the entries of some notes.
LEMMA NotesWithout ==
  ASSUME NEW E, NEW X PROVE Notes({e \in E : e.note \notin X}) = Notes(E) \ X
  BY DEF Notes

\* A new wallet has scanned nothing.
LEMMA NewStateOK ==
  ASSUME NEW c, ChainOK(c) PROVE StateOK(c, NewClientState)
  <1> DEFINE s == NewClientState
  <1>1. /\ s.last_block_height = -1 /\ s.nullifier_map = {} /\ s.unspent_set = {} /\ s.spent_set = {}
        /\ s.submitted_spend_set = {} /\ s.submitted_change_set = {} /\ s.witnessed = {}
    BY DEF NewClientState
  <1>2. s \in ClientStates BY DEF ClientStates, NewClientState
  <1>3. Len(c) \in Nat BY LenProperties DEF ChainOK
  <1>4. ReceivedTo(c, 0) = {} /\ SpentTo(c, 0) = {} BY OneMore DEF ReceivedTo, SpentTo
  <1>5. -1 + 1 = 0 OBVIOUS
  <1>6. Notes({}) = {} BY DEF Notes
  <1>7. IsFiniteSet({}) BY FS_EmptySet
  <1> HIDE DEF s
  <1>8. StateOK(c, s) BY <1>1, <1>2, <1>3, <1>4, <1>5, <1>6, <1>7 DEF StateOK
  <1> QED BY <1>8 DEF s

\* A longer chain changes nothing about what was scanned.
LEMMA LongerChain ==
  ASSUME NEW c, NEW d, NEW s, StateOK(c, s), Len(c) \in Nat, Len(d) \in Nat, Len(c) <= Len(d),
         \A i \in 1 .. Len(c) : c[i] = d[i]
  PROVE  StateOK(d, s)
  <1> DEFINE k == s.last_block_height + 1
  <1>1. k \in 0 .. Len(c) BY DEF StateOK
  <1>2. k \in 0 .. Len(d) /\ \A i \in 1 .. k : c[i] = d[i] BY <1>1
  <1> HIDE DEF k
  <1>3. ReceivedTo(c, k) = ReceivedTo(d, k) /\ SpentTo(c, k) = SpentTo(d, k) BY <1>2, SamePrefix
  <1> QED BY <1>2, <1>3 DEF StateOK, k

\* A registered spend is still waiting, or the chain has it.
Remembers(s, e) == e \in s.submitted_spend_set \/ e.note \in s.spent_set

\* What the first loop of scan_block does to each field.
LEMMA ReceiveFields ==
  ASSUME NEW s \in ClientStates, NEW found \in SUBSET WalletNotes
  PROVE  LET r == Receive(s, found)
         IN /\ r \in ClientStates /\ r.last_block_height = s.last_block_height
            /\ r.nullifier_map = s.nullifier_map \union found
            /\ r.witnessed = s.witnessed \union found
            /\ r.submitted_change_set = {e \in s.submitted_change_set : e.note \notin found}
            /\ r.unspent_set = s.unspent_set \union found
            /\ r.submitted_spend_set = s.submitted_spend_set /\ r.spent_set = s.spent_set
  BY DEF Receive, ClientStates

\* What the second loop does, when every nullifier is of a note that is
\* ready or submitted.
LEMMA NullifyFields ==
  ASSUME NEW s \in ClientStates, NEW nl \in SUBSET WalletNotes,
         nl \subseteq s.unspent_set \union Notes(s.submitted_spend_set),
         s.unspent_set \intersect Notes(s.submitted_spend_set) = {}
  PROVE  LET r == Nullify(s, nl)
         IN /\ r \in ClientStates /\ r.last_block_height = s.last_block_height
            /\ r.nullifier_map = s.nullifier_map
            /\ r.witnessed = s.witnessed \ nl
            /\ r.unspent_set = s.unspent_set \ nl
            /\ r.submitted_spend_set \subseteq s.submitted_spend_set
            /\ \A e \in s.submitted_spend_set : e.note \notin nl => e \in r.submitted_spend_set
            /\ Notes(r.submitted_spend_set) = Notes(s.submitted_spend_set) \ nl
            /\ r.submitted_change_set \subseteq s.submitted_change_set
            /\ r.spent_set = s.spent_set \union nl
  <1> DEFINE r == Nullify(s, nl)
             ready == s.unspent_set
             spend == Notes(s.submitted_spend_set)
             moved == nl \intersect (ready \union spend \union Notes(s.submitted_change_set))
             A == {e \in s.submitted_spend_set : e.note \notin nl \ ready}
             B == {e \in s.submitted_change_set : e.note \notin nl \ (ready \union spend)}
  <1>1. moved = nl OBVIOUS
  <1>2. r = [s EXCEPT !.unspent_set = @ \ nl, !.submitted_spend_set = A,
                      !.submitted_change_set = B, !.spent_set = @ \union nl, !.witnessed = @ \ nl]
    BY <1>1 DEF Nullify
  <1>3. A \in SUBSET Entry /\ B \in SUBSET Entry BY DEF ClientStates
  <1>4. A \subseteq s.submitted_spend_set /\ B \subseteq s.submitted_change_set OBVIOUS
  <1>5. \A e \in s.submitted_spend_set : e.note \notin nl => e \in A OBVIOUS
  <1>6. Notes(A) = spend \ (nl \ ready) BY NotesWithout
  <1>7. spend \ (nl \ ready) = spend \ nl OBVIOUS
  <1> HIDE DEF r, A, B
  <1>8. /\ r \in ClientStates /\ r.last_block_height = s.last_block_height
        /\ r.nullifier_map = s.nullifier_map /\ r.witnessed = s.witnessed \ nl
    BY <1>2, <1>3 DEF ClientStates
  <1>9. /\ r.unspent_set = s.unspent_set \ nl /\ r.spent_set = s.spent_set \union nl
        /\ r.submitted_spend_set = A /\ r.submitted_change_set = B
    BY <1>2, <1>3 DEF ClientStates
  <1> QED BY <1>4, <1>5, <1>6, <1>7, <1>8, <1>9 DEF r

\* scan_block: every note of the block is put where it belongs.
LEMMA ScanOK ==
  ASSUME NEW c, ChainOK(c), NEW s, StateOK(c, s), s.last_block_height + 2 <= Len(c)
  PROVE  LET t == ScanBlock(s, c[s.last_block_height + 2])
         IN /\ StateOK(c, t) /\ t.last_block_height = s.last_block_height + 1
            /\ \A e : Remembers(s, e) => Remembers(t, e)
  <1> DEFINE k == s.last_block_height + 1
             b == c[k + 1]
             found == {n \in b.outputs : n.mine}
             r == Receive(s, found)
             nl == b.nullifiers \intersect r.nullifier_map
             u == Nullify(r, nl)
             t == [u EXCEPT !.last_block_height = @ + 1]
  <1>1. s \in ClientStates /\ k \in Nat /\ k + 1 <= Len(c) /\ k + 1 = s.last_block_height + 2 /\ Len(c) \in Nat
    <2>1. s \in ClientStates /\ k \in 0 .. Len(c) BY DEF StateOK
    <2>2. s.last_block_height \in Int BY <2>1 DEF ClientStates
    <2>3. Len(c) \in Nat BY LenProperties DEF ChainOK
    <2> QED BY <2>1, <2>2, <2>3
  <1>2. t = ScanBlock(s, c[s.last_block_height + 2]) BY <1>1 DEF ScanBlock
  <1>3. /\ s.nullifier_map = ReceivedTo(c, k) /\ s.spent_set = SpentTo(c, k)
        /\ s.unspent_set \union Notes(s.submitted_spend_set) = s.nullifier_map \ s.spent_set
        /\ s.unspent_set \intersect Notes(s.submitted_spend_set) = {}
        /\ \A e, f \in s.submitted_spend_set : e.note = f.note => e = f
        /\ Notes(s.submitted_change_set) \intersect s.nullifier_map = {}
        /\ s.unspent_set \union Notes(s.submitted_spend_set) \subseteq s.witnessed
        /\ IsFiniteSet(s.nullifier_map)
    BY DEF StateOK
  <1>4. s.last_block_height \in Int /\ s.last_block_height = k - 1 BY <1>1 DEF ClientStates
  <1> HIDE DEF k
  <1>5. /\ b \in Blocks /\ IsFiniteSet(b.outputs)
        /\ ReceivedTo(c, k + 1) = ReceivedTo(c, k) \union found
        /\ found \intersect ReceivedTo(c, k) = {}
        /\ b.nullifiers \subseteq ReceivedTo(c, k)
        /\ b.nullifiers \intersect SpentTo(c, k) = {}
        /\ SpentTo(c, k + 1) = SpentTo(c, k) \union b.nullifiers
    BY <1>1, NextBlock
  <1>6. found \in SUBSET WalletNotes /\ found \subseteq b.outputs BY <1>5 DEF Blocks
  <1> HIDE DEF found
  <1>7. /\ r \in ClientStates /\ r.last_block_height = s.last_block_height
        /\ r.nullifier_map = s.nullifier_map \union found
        /\ r.witnessed = s.witnessed \union found
        /\ r.submitted_change_set = {e \in s.submitted_change_set : e.note \notin found}
        /\ r.unspent_set = s.unspent_set \union found
        /\ r.submitted_spend_set = s.submitted_spend_set /\ r.spent_set = s.spent_set
    BY <1>1, <1>6, ReceiveFields
  <1> HIDE DEF r
  <1>8. nl = b.nullifiers BY <1>3, <1>5, <1>7
  <1>9. nl \subseteq WalletNotes /\ nl \subseteq s.unspent_set \union Notes(s.submitted_spend_set)
    BY <1>3, <1>5, <1>8 DEF Blocks
  <1> HIDE DEF nl
  <1>10. r.unspent_set \intersect Notes(r.submitted_spend_set) = {} BY <1>3, <1>5, <1>7
  <1>11. /\ u \in ClientStates /\ u.last_block_height = r.last_block_height
         /\ u.nullifier_map = r.nullifier_map /\ u.witnessed = r.witnessed \ nl
         /\ u.unspent_set = r.unspent_set \ nl
         /\ u.submitted_spend_set \subseteq r.submitted_spend_set
         /\ \A e \in r.submitted_spend_set : e.note \notin nl => e \in u.submitted_spend_set
         /\ Notes(u.submitted_spend_set) = Notes(r.submitted_spend_set) \ nl
         /\ u.submitted_change_set \subseteq r.submitted_change_set
         /\ u.spent_set = r.spent_set \union nl
    BY <1>7, <1>9, <1>10, NullifyFields
  <1> HIDE DEF u
  <1>12. /\ t \in ClientStates /\ t.last_block_height = k /\ t.nullifier_map = u.nullifier_map
         /\ t.witnessed = u.witnessed /\ t.unspent_set = u.unspent_set
         /\ t.submitted_spend_set = u.submitted_spend_set
         /\ t.submitted_change_set = u.submitted_change_set /\ t.spent_set = u.spent_set
    BY <1>4, <1>7, <1>11, <1>1 DEF ClientStates
  <1> HIDE DEF t
  <1>13. t.last_block_height + 1 = k + 1 /\ t.last_block_height + 1 \in 0 .. Len(c) BY <1>1, <1>12
  <1>14. t.nullifier_map = ReceivedTo(c, k + 1) /\ IsFiniteSet(t.nullifier_map)
    <2>1. IsFiniteSet(found) BY <1>5, <1>6, FS_Subset
    <2>2. IsFiniteSet(s.nullifier_map \union found) BY <1>3, <2>1, FS_Union
    <2> QED BY <1>3, <1>5, <1>7, <1>11, <1>12, <2>2
  <1>15. t.spent_set = SpentTo(c, k + 1) BY <1>3, <1>5, <1>7, <1>8, <1>11, <1>12
  <1>16. Notes(t.submitted_change_set) \intersect t.nullifier_map = {}
    <2>1. Notes(r.submitted_change_set) = Notes(s.submitted_change_set) \ found BY <1>7, NotesWithout
    <2>2. Notes(t.submitted_change_set) \subseteq Notes(r.submitted_change_set) BY <1>11, <1>12 DEF Notes
    <2> QED BY <1>3, <1>7, <1>11, <1>12, <2>1, <2>2
  <1>17. t.unspent_set \union Notes(t.submitted_spend_set) = t.nullifier_map \ t.spent_set
    <2>1. t.unspent_set = (s.unspent_set \union found) \ nl BY <1>7, <1>11, <1>12
    <2>2. Notes(t.submitted_spend_set) = Notes(s.submitted_spend_set) \ nl BY <1>7, <1>11, <1>12
    <2>3. t.nullifier_map = s.nullifier_map \union found /\ t.spent_set = s.spent_set \union nl
      BY <1>7, <1>11, <1>12
    <2>4. found \intersect s.spent_set = {} BY <1>3, <1>5 DEF SpentTo
    <2> QED BY <1>3, <2>1, <2>2, <2>3, <2>4
  <1>18. /\ t.unspent_set \intersect Notes(t.submitted_spend_set) = {}
         /\ \A e, f \in t.submitted_spend_set : e.note = f.note => e = f
    BY <1>3, <1>7, <1>10, <1>11, <1>12
  <1>19. t.unspent_set \union Notes(t.submitted_spend_set) \subseteq t.witnessed
    BY <1>3, <1>7, <1>11, <1>12
  <1>20. \A e : Remembers(s, e) => Remembers(t, e) BY <1>7, <1>11, <1>12 DEF Remembers
  <1>21. StateOK(c, t) BY <1>12, <1>13, <1>14, <1>15, <1>16, <1>17, <1>18, <1>19 DEF StateOK
  <1>22. t.last_block_height = s.last_block_height + 1 BY <1>1, <1>4, <1>12
  <1> QED BY <1>2, <1>20, <1>21, <1>22

\* prune_timeouts: a spend that timed out is ready again unless the chain has it.
LEMMA PruneOK ==
  ASSUME NEW c, NEW s, StateOK(c, s)
  PROVE  LET t == PruneTimeouts(s)
         IN /\ StateOK(c, t) /\ t.last_block_height = s.last_block_height
            /\ \A e : Remembers(s, e) => Remembers(t, e) \/ clock > e.timeout
  <1> DEFINE t == PruneTimeouts(s)
             old == Expired(s.submitted_spend_set)
             ready == Notes(old) \ s.spent_set
             A == s.submitted_spend_set \ old
             B == s.submitted_change_set \ Expired(s.submitted_change_set)
  <1>1. /\ s \in ClientStates
        /\ s.unspent_set \union Notes(s.submitted_spend_set) = s.nullifier_map \ s.spent_set
        /\ s.unspent_set \intersect Notes(s.submitted_spend_set) = {}
        /\ \A e, f \in s.submitted_spend_set : e.note = f.note => e = f
        /\ Notes(s.submitted_change_set) \intersect s.nullifier_map = {}
        /\ s.unspent_set \union Notes(s.submitted_spend_set) \subseteq s.witnessed
    BY DEF StateOK
  <1>2. old \subseteq s.submitted_spend_set /\ \A e \in old : clock > e.timeout BY DEF Expired
  <1>3. t = [s EXCEPT !.unspent_set = @ \union ready, !.submitted_spend_set = A, !.submitted_change_set = B]
    BY DEF PruneTimeouts
  <1> HIDE DEF old
  <1>4. Notes(s.submitted_spend_set) = Notes(old) \union Notes(A) BY <1>2 DEF Notes
  <1>5. Notes(old) \intersect Notes(A) = {}
    <2>1. \A e \in old, f \in A : e.note # f.note BY <1>1, <1>2
    <2> HIDE DEF A
    <2> QED BY <2>1 DEF Notes
  <1>6. Notes(B) \subseteq Notes(s.submitted_change_set) BY DEF Notes
  <1>7. Notes(old) \subseteq WalletNotes BY <1>1, <1>2 DEF Notes, ClientStates, Entry
  <1>8. A \in SUBSET Entry /\ B \in SUBSET Entry /\ A \subseteq s.submitted_spend_set BY <1>1 DEF ClientStates
  <1>9. \A e : Remembers(s, e) => e \in A \/ e.note \in s.spent_set \/ clock > e.timeout
    BY <1>2 DEF Remembers
  <1> HIDE DEF t, A, B
  <1>10. /\ t \in ClientStates /\ t.last_block_height = s.last_block_height
         /\ t.nullifier_map = s.nullifier_map /\ t.witnessed = s.witnessed /\ t.spent_set = s.spent_set
    BY <1>1, <1>3, <1>7, <1>8 DEF ClientStates
  <1>11. /\ t.unspent_set = s.unspent_set \union ready /\ t.submitted_spend_set = A
         /\ t.submitted_change_set = B
    BY <1>1, <1>3 DEF ClientStates
  <1>12. ready = Notes(old) BY <1>1, <1>4
  <1> HIDE DEF ready
  <1>13. /\ t.unspent_set \union Notes(t.submitted_spend_set) = t.nullifier_map \ t.spent_set
         /\ t.unspent_set \intersect Notes(t.submitted_spend_set) = {}
         /\ t.unspent_set \union Notes(t.submitted_spend_set) \subseteq t.witnessed
    BY <1>1, <1>4, <1>5, <1>10, <1>11, <1>12
  <1>14. /\ \A e, f \in t.submitted_spend_set : e.note = f.note => e = f
         /\ Notes(t.submitted_change_set) \intersect t.nullifier_map = {}
    BY <1>1, <1>6, <1>8, <1>10, <1>11
  <1>15. StateOK(c, t) BY <1>10, <1>13, <1>14 DEF StateOK
  <1>16. \A e : Remembers(s, e) => Remembers(t, e) \/ clock > e.timeout
    BY <1>9, <1>10, <1>11 DEF Remembers
  <1> QED BY <1>10, <1>15, <1>16 DEF t

\* Notes that are ready are registered as spent, and change that is not on the
\* scanned chain as expected.
LEMMA RegisterOK ==
  ASSUME NEW c, NEW s, StateOK(c, s), clock \in Int, NEW spends, spends \subseteq s.unspent_set,
         NEW change \in SUBSET WalletNotes, change \intersect s.nullifier_map = {}
  PROVE  LET t == RegisterChange(RegisterSpend(s, spends), change)
         IN /\ StateOK(c, t) /\ t.last_block_height = s.last_block_height
            /\ \A e : Remembers(s, e) => Remembers(t, e)
  <1> DEFINE t == RegisterChange(RegisterSpend(s, spends), change)
             A == s.submitted_spend_set \union Entries(spends)
             B == s.submitted_change_set \union Entries(change)
  <1>1. /\ s \in ClientStates
        /\ s.unspent_set \union Notes(s.submitted_spend_set) = s.nullifier_map \ s.spent_set
        /\ s.unspent_set \intersect Notes(s.submitted_spend_set) = {}
        /\ \A e, f \in s.submitted_spend_set : e.note = f.note => e = f
        /\ Notes(s.submitted_change_set) \intersect s.nullifier_map = {}
        /\ s.unspent_set \union Notes(s.submitted_spend_set) \subseteq s.witnessed
    BY DEF StateOK
  <1>2. \A X : Notes(Entries(X)) = X
    <2> TAKE X
    <2>1. ASSUME NEW n \in X PROVE \E e \in Entries(X) : e.note = n
      <3> DEFINE e == [note |-> n, timeout |-> clock + SubmittedTimeout]
      <3>1. e \in Entries(X) BY DEF Entries
      <3>2. e.note = n OBVIOUS
      <3> HIDE DEF e
      <3> QED BY <3>1, <3>2
    <2>2. \A e \in Entries(X) : e.note \in X BY DEF Entries
    <2> QED BY <2>1, <2>2 DEF Notes
  <1>3. \A X, Y : Notes(X \union Y) = Notes(X) \union Notes(Y) BY DEF Notes
  <1>4. Notes(A) = Notes(s.submitted_spend_set) \union spends BY <1>2, <1>3
  <1>5. Notes(B) = Notes(s.submitted_change_set) \union change BY <1>2, <1>3
  <1>6. \A X \in SUBSET WalletNotes : Entries(X) \in SUBSET Entry
    <2>1. clock + SubmittedTimeout \in Int BY WalletAssumption
    <2> QED BY <2>1 DEF Entries, Entry
  <1>7. spends \in SUBSET WalletNotes BY <1>1 DEF ClientStates
  <1>8. A \in SUBSET Entry /\ B \in SUBSET Entry BY <1>1, <1>6, <1>7 DEF ClientStates
  <1>9. \A e, f \in A : e.note = f.note => e = f
    <2>1. \A e, f \in Entries(spends) : e.note = f.note => e = f BY DEF Entries
    <2>2. \A e \in Entries(spends), f \in s.submitted_spend_set : e.note # f.note
      <3>1. \A e \in Entries(spends) : e.note \in s.unspent_set BY DEF Entries
      <3>2. \A f \in s.submitted_spend_set : f.note \in Notes(s.submitted_spend_set) BY DEF Notes
      <3> QED BY <1>1, <3>1, <3>2
    <2> QED BY <1>1, <2>1, <2>2
  <1>10. t = [s EXCEPT !.unspent_set = @ \ spends, !.submitted_spend_set = A, !.submitted_change_set = B]
    BY <1>1 DEF RegisterChange, RegisterSpend, ClientStates
  <1>11. s.submitted_spend_set \subseteq A OBVIOUS
  <1> HIDE DEF t, A, B
  <1>12. /\ t \in ClientStates /\ t.last_block_height = s.last_block_height
         /\ t.nullifier_map = s.nullifier_map /\ t.witnessed = s.witnessed /\ t.spent_set = s.spent_set
    BY <1>1, <1>8, <1>10 DEF ClientStates
  <1>13. /\ t.unspent_set = s.unspent_set \ spends /\ t.submitted_spend_set = A
         /\ t.submitted_change_set = B
    BY <1>1, <1>10 DEF ClientStates
  <1>14. /\ t.unspent_set \union Notes(t.submitted_spend_set) = t.nullifier_map \ t.spent_set
         /\ t.unspent_set \intersect Notes(t.submitted_spend_set) = {}
         /\ t.unspent_set \union Notes(t.submitted_spend_set) \subseteq t.witnessed
    BY <1>1, <1>4, <1>12, <1>13
  <1>15. /\ \A e, f \in t.submitted_spend_set : e.note = f.note => e = f
         /\ Notes(t.submitted_change_set) \intersect t.nullifier_map = {}
    BY <1>1, <1>5, <1>9, <1>12, <1>13
  <1>16. StateOK(c, t) BY <1>12, <1>14, <1>15 DEF StateOK
  <1>17. \A e : Remembers(s, e) => Remembers(t, e) BY <1>11, <1>12, <1>13 DEF Remembers
  <1> QED BY <1>12, <1>16, <1>17 DEF t

-----------------------------------------------------------------------------
(* Amounts and new notes                                                   *)

\* Amount is a sum over one function of all notes.
LEMMA AmountIs ==
  ASSUME NEW S, IsFiniteSet(S), S \subseteq WalletNotes
  PROVE  Amount(S) = SumFunctionOnSet([n \in WalletNotes |-> n.amount], S) /\ Amount(S) \in Nat
  <1> DEFINE v == [n \in S |-> n.amount]
             w == [n \in WalletNotes |-> n.amount]
  <1>1. \A n \in WalletNotes : n.amount \in Nat BY DEF WalletNotes, NotesOf
  <1>2. \A n \in S : v[n] = w[n] /\ v[n] \in Nat BY <1>1
  <1>3. DOMAIN v = S OBVIOUS
  <1> HIDE DEF v, w
  <1>4. SumFunctionOnSet(v, S) = SumFunctionOnSet(w, S) BY <1>2, SumSame
  <1>5. SumFunctionOnSet(v, S) \in Nat BY <1>2, SumType
  <1> QED BY <1>3, <1>4, <1>5 DEF Amount, SumFunction, v, w

\* The amount of two disjoint sets of notes.
LEMMA AmountUnion ==
  ASSUME NEW S, NEW T, IsFiniteSet(S), IsFiniteSet(T), S \subseteq WalletNotes, T \subseteq WalletNotes,
         S \intersect T = {}
  PROVE  Amount(S \union T) = Amount(S) + Amount(T) /\ IsFiniteSet(S \union T)
  <1> DEFINE w == [n \in WalletNotes |-> n.amount]
  <1>1. \A n \in S \union T : w[n] \in Int BY DEF WalletNotes, NotesOf
  <1>2. IsFiniteSet(S \union T) /\ S \union T \subseteq WalletNotes BY FS_Union
  <1>3. /\ Amount(S) = SumFunctionOnSet(w, S) /\ Amount(T) = SumFunctionOnSet(w, T)
        /\ Amount(S \union T) = SumFunctionOnSet(w, S \union T)
    BY <1>2, AmountIs
  <1> HIDE DEF w
  <1>4. SumFunctionOnSet(w, S \union T) = SumFunctionOnSet(w, S) + SumFunctionOnSet(w, T)
    BY <1>1, SumUnion
  <1> QED BY <1>2, <1>3, <1>4

\* No notes, no value.
LEMMA AmountNone == Amount({}) = 0 /\ IsFiniteSet({})
  <1> DEFINE v == [n \in {} |-> n.amount]
  <1>1. DOMAIN v = {} OBVIOUS
  <1> HIDE DEF v
  <1>2. SumFunctionOnSet(v, {}) = 0 BY SumEmpty
  <1> QED BY <1>1, <1>2, FS_EmptySet DEF Amount, SumFunction, v

\* The amount of one note.
LEMMA AmountOne ==
  ASSUME NEW n \in WalletNotes PROVE Amount({n}) = n.amount /\ IsFiniteSet({n})
  <1> DEFINE w == [m \in WalletNotes |-> m.amount]
  <1>1. IsFiniteSet({n}) BY FS_Singleton
  <1>2. Amount({n}) = SumFunctionOnSet(w, {n}) BY <1>1, AmountIs
  <1>3. w[n] = n.amount /\ w[n] \in Nat BY DEF WalletNotes, NotesOf
  <1> HIDE DEF w
  <1>4. SumFunctionOnSet(w, {} \union {n}) = w[n] + SumFunctionOnSet(w, {})
    <2>1. IsFiniteSet({}) BY FS_EmptySet
    <2>2. n \notin {} /\ \A x \in {} \union {n} : w[x] \in Int BY <1>3
    <2> QED BY <2>1, <2>2, SumAdd
  <1>5. {} \union {n} = {n} OBVIOUS
  <1>6. SumFunctionOnSet(w, {}) = 0 BY SumEmpty
  <1> QED BY <1>1, <1>2, <1>3, <1>4, <1>5, <1>6

Roles == {"send", "self", "change", "sweep"}

\* The fields of a new note.
LEMMA NewNoteType ==
  ASSUME commands \in Nat, NEW role \in Roles, NEW d \in Denoms, NEW i \in Nat, NEW amount \in Nat,
         NEW mine \in BOOLEAN
  PROVE  LET n == NewNote(role, d, i, amount, mine)
         IN /\ n \in WalletNotes /\ n.id[1] = commands /\ n.id[2] = role /\ n.id[3] = d /\ n.id[4] = i
            /\ n.denom = d /\ n.amount = amount
  <1> DEFINE n == NewNote(role, d, i, amount, mine)
             id == <<commands, role, d, i>>
  <1>1. n.id = id /\ n.denom = d /\ n.amount = amount /\ n.mine = mine BY DEF NewNote
  <1>2. id \in NoteIds BY DEF NoteIds, Roles
  <1>3. id[1] = commands /\ id[2] = role /\ id[3] = d /\ id[4] = i OBVIOUS
  <1>4. n \in WalletNotes
    <2> HIDE DEF id
    <2>1. n = [id |-> id, denom |-> d, amount |-> amount, mine |-> mine] BY DEF NewNote, id
    <2> HIDE DEF n
    <2> QED BY <1>2, <2>1 DEF WalletNotes, NotesOf
  <1> HIDE DEF id, n
  <1> QED BY <1>1, <1>3, <1>4 DEF n

\* At most one note of a role and denomination, of a given amount.
AtMostOne(S, role, d, amount) ==
  /\ S \subseteq WalletNotes /\ IsFiniteSet(S) /\ Amount(S) = amount
  /\ \A n \in S : n.id[1] = commands /\ n.id[2] = role /\ n.id[3] = d

\* One new note.
LEMMA OneNote ==
  ASSUME commands \in Nat, NEW role \in Roles, NEW d \in Denoms, NEW i \in Nat, NEW amount \in Nat,
         NEW mine \in BOOLEAN
  PROVE  AtMostOne({NewNote(role, d, i, amount, mine)}, role, d, amount)
  <1> DEFINE n == NewNote(role, d, i, amount, mine)
  <1>1. n \in WalletNotes /\ n.id[1] = commands /\ n.id[2] = role /\ n.id[3] = d /\ n.amount = amount
    BY NewNoteType
  <1> HIDE DEF n
  <1>2. Amount({n}) = amount /\ IsFiniteSet({n}) BY <1>1, AmountOne
  <1>3. AtMostOne({n}, role, d, amount) BY <1>1, <1>2 DEF AtMostOne
  <1> QED BY <1>3 DEF n

\* No note.
LEMMA NoNote == ASSUME NEW role, NEW d PROVE AtMostOne({}, role, d, 0)
  BY AmountNone DEF AtMostOne

-----------------------------------------------------------------------------
(* The transaction of a request                                            *)

\* The notes drawn cover what the request needs.
Covers(r, spends) ==
  /\ spends \subseteq WalletNotes /\ IsFiniteSet(spends)
  /\ \A d \in Denoms : Amount(OfDenom(spends, d)) >= Needs(r)[d]

\* The fields of a request.
LEMMA RequestType ==
  ASSUME NEW r \in Requests
  PROVE  /\ r.kind \in {"send", "delegate", "undelegate", "definition"}
         /\ r.fee \in Nat /\ \A d \in Denoms : r.amount[d] \in Nat /\ Needs(r)[d] \in Nat
         /\ Stake \in Denoms /\ DelegationToken \in Denoms /\ Stake # DelegationToken
  <1>1. /\ r.kind \in {"send", "delegate", "undelegate", "definition"} /\ r.fee \in Nat
        /\ r.amount \in [Denoms -> Nat] /\ Stake # DelegationToken
    BY WalletAssumption
  <1>2. Stake \in Denoms /\ DelegationToken \in Denoms BY DEF Denoms
  <1>3. \A d \in Denoms : r.amount[d] \in Nat BY <1>1
  <1>4. \A d \in Denoms : Needs(r)[d] \in Nat BY <1>1, <1>2, <1>3 DEF Needs
  <1> QED BY <1>1, <1>2, <1>3, <1>4

\* A delegation and an undelegation yield natural amounts, at every rate.
LEMMA ActionAmounts ==
  ASSUME NEW x \in Nat PROVE DelegationAmount(Rate, x) \in Nat /\ UnbondedAmount(Rate, x) \in Nat
  <1> DEFINE e == Rate.validator_exchange_rate
  <1>1. e \in Nat \ {0} BY WalletAssumption DEF RateData
  <1>2. Scale \in Nat \ {0} BY RatesAssumption DEF Scale
  <1> HIDE DEF e
  <1>3. x * Scale \in Nat /\ x * e \in Nat BY <1>1, <1>2
  <1>4. (x * Scale) \div e \in Nat /\ (x * e) \div Scale \in Nat BY <1>1, <1>2, <1>3, DivType
  <1> QED BY <1>4 DEF DelegationAmount, UnbondedAmount, e

\* What a transaction sends, gets from its action and gets back as change.
SentAmount(r, d) == IF r.kind = "send" THEN r.amount[d] ELSE 0
SelfAmount(r, d) ==
  IF r.kind = "delegate" /\ d = DelegationToken THEN DelegationAmount(Rate, r.amount[Stake])
  ELSE IF r.kind = "undelegate" /\ d = Stake THEN UnbondedAmount(Rate, r.amount[DelegationToken]) - r.fee
  ELSE 0

\* A send has one output to the recipient of each denomination it names.
LEMMA SentOne ==
  ASSUME commands \in Nat, NEW r \in Requests, NEW d \in Denoms
  PROVE  AtMostOne(OfDenom(Sent(r), d), "send", d, SentAmount(r, d))
  <1>1. r.amount[d] \in Nat BY RequestType
  <1> DEFINE n(x) == NewNote("send", x, 0, r.amount[x], FALSE)
  <1>2. \A x : n(x).denom = x BY DEF NewNote
  <1>3. "send" \in Roles /\ 0 \in Nat /\ FALSE \in BOOLEAN BY DEF Roles
  <1>4. AtMostOne({n(d)}, "send", d, r.amount[d]) BY <1>1, <1>3, OneNote
  <1>5. AtMostOne({}, "send", d, 0) BY NoNote
  <1>6. Sent(r) = IF r.kind # "send" THEN {} ELSE {n(x) : x \in {x \in Denoms : r.amount[x] > 0}} BY DEF Sent
  <1> HIDE DEF n
  <1>7. CASE r.kind # "send" \/ r.amount[d] = 0
    <2>1. OfDenom(Sent(r), d) = {} BY <1>2, <1>6, <1>7 DEF OfDenom
    <2> QED BY <1>5, <1>7, <2>1 DEF SentAmount
  <1>8. CASE r.kind = "send" /\ r.amount[d] > 0
    <2>1. OfDenom(Sent(r), d) = {n(d)} BY <1>2, <1>6, <1>8 DEF OfDenom
    <2> QED BY <1>4, <1>8, <2>1 DEF SentAmount
  <1> QED BY <1>1, <1>7, <1>8

\* A delegation and an undelegation have one output to this wallet.
LEMMA SelfOne ==
  ASSUME commands \in Nat, NEW r \in Requests, CanPayFee(r), NEW d \in Denoms
  PROVE  AtMostOne(OfDenom(ToSelf(r), d), "self", d, SelfAmount(r, d))
  <1> DEFINE D == DelegationAmount(Rate, r.amount[Stake])
             U == UnbondedAmount(Rate, r.amount[DelegationToken])
             m == NewNote("self", DelegationToken, 0, D, TRUE)
             n == NewNote("self", Stake, 0, U - r.fee, TRUE)
  <1>1. /\ r.amount[Stake] \in Nat /\ r.amount[DelegationToken] \in Nat /\ r.fee \in Nat
        /\ Stake # DelegationToken /\ Stake \in Denoms /\ DelegationToken \in Denoms
    BY RequestType
  <1>2. D \in Nat /\ U \in Nat BY <1>1, ActionAmounts
  <1>3. r.kind = "undelegate" => U - r.fee \in Nat BY <1>1, <1>2 DEF CanPayFee
  <1>4. "self" \in Roles /\ 0 \in Nat /\ TRUE \in BOOLEAN BY DEF Roles
  <1>5. m.denom = DelegationToken /\ n.denom = Stake BY DEF NewNote
  <1>6. ToSelf(r) = CASE r.kind = "delegate" -> {m} [] r.kind = "undelegate" -> {n} [] OTHER -> {}
    BY DEF ToSelf
  <1> HIDE DEF D, U
  <1>7. AtMostOne({m}, "self", DelegationToken, D) BY <1>1, <1>2, <1>4, OneNote
  <1>8. r.kind = "undelegate" => AtMostOne({n}, "self", Stake, U - r.fee) BY <1>1, <1>3, <1>4, OneNote
  <1>9. AtMostOne({}, "self", d, 0) BY NoNote
  <1> HIDE DEF m, n
  <1>10. CASE r.kind = "delegate" /\ d = DelegationToken
    <2>1. OfDenom(ToSelf(r), d) = {m} BY <1>5, <1>6, <1>10 DEF OfDenom
    <2> QED BY <1>7, <1>10, <2>1 DEF SelfAmount, D
  <1>11. CASE r.kind = "undelegate" /\ d = Stake
    <2>1. OfDenom(ToSelf(r), d) = {n} BY <1>5, <1>6, <1>11 DEF OfDenom
    <2> QED BY <1>8, <1>11, <2>1 DEF SelfAmount, U
  <1>12. CASE ~(r.kind = "delegate" /\ d = DelegationToken) /\ ~(r.kind = "undelegate" /\ d = Stake)
    <2>1. OfDenom(ToSelf(r), d) = {} BY <1>5, <1>6, <1>12 DEF OfDenom
    <2> QED BY <1>9, <1>12, <2>1 DEF SelfAmount
  <1> QED BY <1>10, <1>11, <1>12

\* There is change exactly when the notes drawn exceed the need.
LEMMA ChangeOne ==
  ASSUME commands \in Nat, NEW r \in Requests, NEW spends, Covers(r, spends), NEW d \in Denoms
  PROVE  /\ AtMostOne(OfDenom(Change(r, spends), d), "change", d, Amount(OfDenom(spends, d)) - Needs(r)[d])
         /\ Amount(OfDenom(spends, d)) \in Nat
  <1> DEFINE A(x) == Amount(OfDenom(spends, x))
             N(x) == Needs(r)[x]
             n(x) == NewNote("change", x, 0, A(x) - N(x), TRUE)
  <1>1. A(d) \in Nat
    <2>1. OfDenom(spends, d) \subseteq spends BY DEF OfDenom
    <2>2. IsFiniteSet(OfDenom(spends, d)) BY <2>1, FS_Subset DEF Covers
    <2> QED BY <2>1, <2>2, AmountIs DEF Covers
  <1>2. N(d) \in Nat BY RequestType
  <1>3. A(d) >= N(d) BY DEF Covers
  <1>4. \A x : n(x).denom = x BY DEF NewNote
  <1>5. "change" \in Roles /\ 0 \in Nat /\ TRUE \in BOOLEAN BY DEF Roles
  <1>6. Change(r, spends) = {n(x) : x \in {x \in Denoms : A(x) > N(x)}} BY DEF Change
  <1> HIDE DEF A, N
  <1>7. A(d) - N(d) \in Nat BY <1>1, <1>2, <1>3
  <1>8. AtMostOne({n(d)}, "change", d, A(d) - N(d)) BY <1>5, <1>7, OneNote
  <1>9. AtMostOne({}, "change", d, 0) BY NoNote
  <1> HIDE DEF n
  <1>10. CASE A(d) > N(d)
    <2>1. OfDenom(Change(r, spends), d) = {n(d)} BY <1>4, <1>6, <1>10 DEF OfDenom
    <2> QED BY <1>1, <1>8, <2>1 DEF A, N
  <1>11. CASE A(d) = N(d)
    <2>1. ~(A(d) > N(d)) BY <1>1, <1>2, <1>11
    <2>2. OfDenom(Change(r, spends), d) = {} BY <1>4, <1>6, <2>1 DEF OfDenom
    <2>3. A(d) - N(d) = 0 BY <1>1, <1>11
    <2> QED BY <1>1, <1>9, <2>2, <2>3 DEF A, N
  <1> QED BY <1>1, <1>2, <1>3, <1>10, <1>11

\* The outputs of one denomination: one note of each role.
LEMMA OutputsOfDenom ==
  ASSUME commands \in Nat, NEW r \in Requests, CanPayFee(r), NEW spends, Covers(r, spends), NEW d \in Denoms
  PROVE  LET out == OfDenom(Transaction(r, spends).outputs, d)
         IN /\ out \subseteq WalletNotes /\ IsFiniteSet(out)
            /\ \A n \in out : n.id[1] = commands /\ n.id[2] \in Roles
            /\ Amount(out) = SentAmount(r, d) + SelfAmount(r, d)
                               + (Amount(OfDenom(spends, d)) - Needs(r)[d])
  <1> DEFINE S == OfDenom(Sent(r), d)
             F == OfDenom(ToSelf(r), d)
             C == OfDenom(Change(r, spends), d)
             out == OfDenom(Transaction(r, spends).outputs, d)
             left == Amount(OfDenom(spends, d)) - Needs(r)[d]
             s == SentAmount(r, d)
             f == SelfAmount(r, d)
  <1>1. out = (S \union F) \union C BY DEF OfDenom, Transaction
  <1>2. AtMostOne(S, "send", d, s) BY SentOne
  <1>3. AtMostOne(F, "self", d, f) BY SelfOne
  <1>4. AtMostOne(C, "change", d, left) BY ChangeOne
  <1> HIDE DEF S, F, C, out, left, s, f
  <1>5. S \intersect F = {} /\ (S \union F) \intersect C = {} BY <1>2, <1>3, <1>4 DEF AtMostOne
  <1>6. /\ S \subseteq WalletNotes /\ IsFiniteSet(S) /\ Amount(S) = s
        /\ F \subseteq WalletNotes /\ IsFiniteSet(F) /\ Amount(F) = f
        /\ C \subseteq WalletNotes /\ IsFiniteSet(C) /\ Amount(C) = left
    BY <1>2, <1>3, <1>4 DEF AtMostOne
  <1>7. Amount(S \union F) = s + f /\ IsFiniteSet(S \union F) BY <1>5, <1>6, AmountUnion
  <1>8. S \union F \subseteq WalletNotes BY <1>6
  <1>9. Amount(out) = s + f + left /\ IsFiniteSet(out) BY <1>1, <1>5, <1>6, <1>7, <1>8, AmountUnion
  <1>10. \A n \in out : n.id[1] = commands /\ n.id[2] \in Roles
    BY <1>1, <1>2, <1>3, <1>4 DEF AtMostOne, Roles
  <1>11. out \subseteq WalletNotes BY <1>1, <1>6
  <1> QED BY <1>9, <1>10, <1>11 DEF out, left, s, f

\* What a request spends, and what its action adds, is what it sends, gets and pays.
LEMMA NeedsCover ==
  ASSUME NEW r \in Requests, NEW d \in Denoms
  PROVE  Needs(r)[d] + ActionValue(r)[d]
           = SentAmount(r, d) + SelfAmount(r, d) + IF d = Stake THEN r.fee ELSE 0
  <1> DEFINE D == DelegationAmount(Rate, r.amount[Stake])
             U == UnbondedAmount(Rate, r.amount[DelegationToken])
             a == r.amount[Stake]
             b == r.amount[DelegationToken]
             f == r.fee
  <1>1. /\ r.kind \in {"send", "delegate", "undelegate", "definition"}
        /\ a \in Nat /\ b \in Nat /\ f \in Nat
        /\ Stake # DelegationToken /\ Stake \in Denoms /\ DelegationToken \in Denoms
    BY RequestType
  <1>2. D \in Nat /\ U \in Nat BY <1>1, ActionAmounts
  <1>3. d = Stake \/ d = DelegationToken BY DEF Denoms
  <1>4. Needs(r)[d] =
     CASE r.kind = "send"       -> r.amount[d] + IF d = Stake THEN f ELSE 0
       [] r.kind = "delegate"   -> IF d = Stake THEN a + f ELSE 0
       [] r.kind = "undelegate" -> IF d = DelegationToken THEN r.amount[d] ELSE 0
       [] r.kind = "definition" -> IF d = Stake THEN f ELSE 0
    BY DEF Needs
  <1>5. ActionValue(r)[d] =
     CASE r.kind = "delegate"   -> IF d = Stake THEN -a ELSE D
       [] r.kind = "undelegate" -> IF d = Stake THEN U ELSE -b
       [] OTHER -> 0
    BY DEF ActionValue
  <1>6. SentAmount(r, d) = IF r.kind = "send" THEN r.amount[d] ELSE 0 BY DEF SentAmount
  <1>7. SelfAmount(r, d) = IF r.kind = "delegate" /\ d = DelegationToken THEN D
                           ELSE IF r.kind = "undelegate" /\ d = Stake THEN U - f ELSE 0
    BY DEF SelfAmount
  <1>8. r.amount[d] = IF d = Stake THEN a ELSE b BY <1>1, <1>3
  <1> HIDE DEF D, U, a, b, f
  <1>9. CASE r.kind = "send" BY <1>1, <1>2, <1>3, <1>4, <1>5, <1>6, <1>7, <1>8, <1>9 DEF f
  <1>10. CASE r.kind = "delegate" BY <1>1, <1>2, <1>3, <1>4, <1>5, <1>6, <1>7, <1>8, <1>10 DEF f
  <1>11. CASE r.kind = "undelegate" BY <1>1, <1>2, <1>3, <1>4, <1>5, <1>6, <1>7, <1>8, <1>11 DEF f
  <1>12. CASE r.kind = "definition" BY <1>1, <1>2, <1>3, <1>4, <1>5, <1>6, <1>7, <1>8, <1>12 DEF f
  <1> QED BY <1>1, <1>9, <1>10, <1>11, <1>12

\* All the amounts are integers.
LEMMA AmountsAreIntegers ==
  ASSUME NEW r \in Requests, NEW d \in Denoms
  PROVE  /\ SentAmount(r, d) \in Int /\ SelfAmount(r, d) \in Int /\ ActionValue(r)[d] \in Int
         /\ Needs(r)[d] \in Int /\ r.fee \in Int
  <1>1. /\ r.kind \in {"send", "delegate", "undelegate", "definition"}
        /\ r.amount[Stake] \in Nat /\ r.amount[DelegationToken] \in Nat /\ r.amount[d] \in Nat
        /\ Needs(r)[d] \in Nat /\ r.fee \in Nat
    BY RequestType
  <1>2. DelegationAmount(Rate, r.amount[Stake]) \in Nat /\ UnbondedAmount(Rate, r.amount[DelegationToken]) \in Nat
    BY <1>1, ActionAmounts
  <1>3. SentAmount(r, d) \in Int BY <1>1 DEF SentAmount
  <1>4. SelfAmount(r, d) \in Int BY <1>1, <1>2 DEF SelfAmount
  <1>5. ActionValue(r)[d] \in Int BY <1>1, <1>2 DEF ActionValue
  <1> QED BY <1>1, <1>3, <1>4, <1>5

\* The transactions of this wallet: well-formed outputs that carry the number
\* of the command that made them, and no value made or lost.
Txs == [spends : SUBSET WalletNotes, outputs : SUBSET WalletNotes, fee : Nat, action : [Denoms -> Int]]
Made(tx, k) ==
  /\ tx \in Txs /\ IsFiniteSet(tx.outputs)
  /\ \A n \in tx.outputs : n.id[1] = k /\ n.id[2] \in Roles
Balanced(tx) == ValueBalance(tx) = [d \in Denoms |-> 0]

\* build_send, build_delegate, build_undelegate and build_validator_definition balance.
LEMMA TransactionOK ==
  ASSUME commands \in Nat, NEW r \in Requests, CanPayFee(r), NEW spends, Covers(r, spends)
  PROVE  LET tx == Transaction(r, spends)
         IN /\ Made(tx, commands) /\ Balanced(tx) /\ tx.spends = spends
            /\ ToSelf(r) \union Change(r, spends) \subseteq tx.outputs
  <1> DEFINE tx == Transaction(r, spends)
             out(d) == OfDenom(tx.outputs, d)
  <1>1. /\ tx.spends = spends /\ tx.fee = r.fee /\ tx.action = ActionValue(r)
        /\ tx.outputs = Sent(r) \union ToSelf(r) \union Change(r, spends)
    BY DEF Transaction
  <1>2. \A n \in tx.outputs : n.denom \in Denoms
    <2>1. \A n \in Sent(r) : n.denom \in Denoms BY DEF Sent, NewNote
    <2>2. \A n \in ToSelf(r) : n.denom \in Denoms BY DEF ToSelf, NewNote, Denoms
    <2>3. \A n \in Change(r, spends) : n.denom \in Denoms BY DEF Change, NewNote
    <2> QED BY <1>1, <2>1, <2>2, <2>3
  <1>3. \A d \in Denoms : /\ out(d) \subseteq WalletNotes /\ IsFiniteSet(out(d))
                          /\ \A n \in out(d) : n.id[1] = commands /\ n.id[2] \in Roles
                          /\ Amount(out(d)) = SentAmount(r, d) + SelfAmount(r, d)
                               + (Amount(OfDenom(spends, d)) - Needs(r)[d])
    BY OutputsOfDenom
  <1> HIDE DEF tx
  <1>4. tx.outputs = out(Stake) \union out(DelegationToken) BY <1>2 DEF OfDenom, Denoms
  <1> HIDE DEF out
  <1>5. Stake \in Denoms /\ DelegationToken \in Denoms BY DEF Denoms
  <1>6. Made(tx, commands)
    <2>1. IsFiniteSet(tx.outputs) BY <1>3, <1>4, <1>5, FS_Union
    <2>2. tx.outputs \subseteq WalletNotes BY <1>3, <1>4, <1>5
    <2>3. r.fee \in Nat BY RequestType
    <2>4. spends \subseteq WalletNotes BY DEF Covers
    <2>5. ActionValue(r) \in [Denoms -> Int]
      <3>1. \A d \in Denoms : ActionValue(r)[d] \in Int BY AmountsAreIntegers
      <3>2. ActionValue(r) = [d \in Denoms |-> ActionValue(r)[d]] BY DEF ActionValue
      <3> QED BY <3>1, <3>2
    <2>6. tx = [spends |-> tx.spends, outputs |-> tx.outputs, fee |-> tx.fee, action |-> tx.action]
      BY DEF tx, Transaction
    <2>7. tx \in Txs BY <1>1, <2>2, <2>3, <2>4, <2>5, <2>6 DEF Txs
    <2> QED BY <1>3, <1>4, <1>5, <2>1, <2>7 DEF Made
  <1>7. ASSUME NEW d \in Denoms
        PROVE  Amount(OfDenom(tx.spends, d)) - Amount(OfDenom(tx.outputs, d))
                      + tx.action[d] - (IF d = Stake THEN tx.fee ELSE 0) = 0
    <2> DEFINE A == Amount(OfDenom(spends, d))
               o == Amount(out(d))
               s == SentAmount(r, d)
               f == SelfAmount(r, d)
               n == Needs(r)[d]
               a == ActionValue(r)[d]
               fee == IF d = Stake THEN r.fee ELSE 0
    <2>1. A \in Nat BY ChangeOne
    <2>2. s \in Int /\ f \in Int /\ n \in Int /\ a \in Int /\ fee \in Int BY AmountsAreIntegers
    <2>3. n + a = s + f + fee BY NeedsCover
    <2>4. o = s + f + (A - n) BY <1>3
    <2>5. Amount(OfDenom(tx.outputs, d)) = o BY DEF out
    <2> HIDE DEF A, o, s, f, n, a, fee
    <2>6. A - o + a - fee = 0 BY <2>1, <2>2, <2>3, <2>4
    <2> QED BY <1>1, <2>5, <2>6 DEF A, a, fee
  <1>8. Balanced(tx) BY <1>7, Zenon DEF Balanced, ValueBalance
  <1> QED BY <1>1, <1>6, <1>8 DEF tx

\* notes_to_spend draws from the ready notes of a denomination, and enough.
LEMMA DrawnNotes ==
  ASSUME NEW s, NEW d, NEW amount \in Nat, NEW S \in NotesToSpend(s, d, amount)
  PROVE  S \subseteq OfDenom(s.unspent_set, d) /\ Amount(S) >= amount
  BY DEF NotesToSpend

\* So are the notes of a request, which covers what it needs.
LEMMA DrawnEnough ==
  ASSUME NEW s, NEW r \in Requests, NEW d \in Denoms, NEW S \in Drawn(s, r, d)
  PROVE  S \subseteq OfDenom(s.unspent_set, d) /\ Amount(S) >= Needs(r)[d]
  <1>1. Needs(r)[d] \in Nat BY RequestType
  <1>2. CASE Draws(r, d)
    <2>1. S \in NotesToSpend(s, d, Needs(r)[d]) BY <1>2 DEF Drawn
    <2> QED BY <1>1, <2>1, DrawnNotes
  <1>3. CASE ~Draws(r, d)
    <2>1. S = {} BY <1>3 DEF Drawn
    <2>2. Amount({}) = 0 BY AmountNone
    <2>3. Needs(r)[d] = 0 BY <1>1, <1>3 DEF Draws
    <2> QED BY <2>1, <2>2, <2>3
  <1> QED BY <1>2, <1>3

\* The ready notes of a client state are finitely many, and not spent.
LEMMA ReadyNotes ==
  ASSUME NEW c, NEW s, StateOK(c, s)
  PROVE  /\ s.unspent_set \subseteq WalletNotes /\ IsFiniteSet(s.unspent_set)
         /\ s.unspent_set \subseteq ReceivedTo(c, s.last_block_height + 1)
         /\ \A e : Remembers(s, e) => e.note \notin s.unspent_set
  <1>1. /\ s \in ClientStates /\ IsFiniteSet(s.nullifier_map)
        /\ s.nullifier_map = ReceivedTo(c, s.last_block_height + 1)
        /\ s.unspent_set \union Notes(s.submitted_spend_set) = s.nullifier_map \ s.spent_set
        /\ s.unspent_set \intersect Notes(s.submitted_spend_set) = {}
    BY DEF StateOK
  <1>2. s.unspent_set \subseteq s.nullifier_map BY <1>1
  <1>3. IsFiniteSet(s.unspent_set) BY <1>1, <1>2, FS_Subset
  <1>4. \A e : Remembers(s, e) => e.note \notin s.unspent_set
    <2>1. \A e \in s.submitted_spend_set : e.note \in Notes(s.submitted_spend_set) BY DEF Notes
    <2> QED BY <1>1, <2>1 DEF Remembers
  <1>5. s.unspent_set \subseteq WalletNotes BY <1>1 DEF ClientStates
  <1> QED BY <1>1, <1>2, <1>3, <1>4, <1>5

\* What is drawn for a request covers it.
LEMMA DrawnCover ==
  ASSUME NEW c, NEW s, StateOK(c, s), NEW r \in Requests,
         NEW stake \in Drawn(s, r, Stake), NEW tokens \in Drawn(s, r, DelegationToken)
  PROVE  Covers(r, stake \union tokens) /\ stake \union tokens \subseteq s.unspent_set
  <1> DEFINE spends == stake \union tokens
  <1>1. /\ Stake \in Denoms /\ DelegationToken \in Denoms /\ Stake # DelegationToken
    BY RequestType
  <1>2. /\ stake \subseteq OfDenom(s.unspent_set, Stake) /\ Amount(stake) >= Needs(r)[Stake]
        /\ tokens \subseteq OfDenom(s.unspent_set, DelegationToken)
        /\ Amount(tokens) >= Needs(r)[DelegationToken]
    BY <1>1, DrawnEnough
  <1>3. spends \subseteq s.unspent_set BY <1>2 DEF OfDenom
  <1>4. s.unspent_set \subseteq WalletNotes /\ IsFiniteSet(s.unspent_set) BY ReadyNotes
  <1>5. IsFiniteSet(spends) BY <1>3, <1>4, FS_Subset
  <1>6. OfDenom(spends, Stake) = stake /\ OfDenom(spends, DelegationToken) = tokens
    BY <1>1, <1>2 DEF OfDenom
  <1>7. \A d \in Denoms : d = Stake \/ d = DelegationToken BY DEF Denoms
  <1> HIDE DEF spends
  <1>8. Covers(r, spends) BY <1>2, <1>3, <1>4, <1>5, <1>6, <1>7 DEF Covers
  <1> QED BY <1>3, <1>8 DEF spends

-----------------------------------------------------------------------------
(* The transactions of a sweep                                             *)

\* SetToSeq lists a finite set.
LEMMA SetToSeqOf ==
  ASSUME NEW S, IsFiniteSet(S)
  PROVE  SetToSeq(S) \in [1 .. Cardinality(S) -> S] /\ Cardinality(S) \in Nat
  <1>1. Cardinality(S) \in Nat /\ ExistsBijection(1 .. Cardinality(S), S) BY FS_CardinalityType
  <1>2. \E f \in [1 .. Cardinality(S) -> S] : IsInjective(f)
    BY <1>1 DEF ExistsBijection, Bijection, Injection
  <1>3. SetToSeq(S) \in [1 .. Cardinality(S) -> S] BY <1>2 DEF SetToSeq
  <1> QED BY <1>1, <1>3

\* A sweep of notes of one denomination has one output, with their amount.
LEMMA SweepTransactionOK ==
  ASSUME commands \in Nat, NEW d \in Denoms, NEW i \in Nat, NEW g, g \subseteq WalletNotes, IsFiniteSet(g),
         \A n \in g : n.denom = d
  PROVE  LET tx == SweepTransaction(g, d, i)
         IN /\ Made(tx, commands) /\ Balanced(tx) /\ tx.spends = g
            /\ \A n \in tx.outputs : n.id[3] = d /\ n.id[4] = i
  <1> DEFINE tx == SweepTransaction(g, d, i)
             a == Amount(g)
             m == NewNote("sweep", d, i, a, TRUE)
             zero == [x \in Denoms |-> 0]
  <1>1. a \in Nat BY AmountIs
  <1>2. "sweep" \in Roles /\ TRUE \in BOOLEAN BY DEF Roles
  <1> HIDE DEF a
  <1>3. /\ m \in WalletNotes /\ m.id[1] = commands /\ m.id[2] = "sweep" /\ m.id[3] = d /\ m.id[4] = i
        /\ m.denom = d /\ m.amount = a
    <2>1. ASSUME NEW role \in Roles, NEW x \in Nat, NEW b \in BOOLEAN
          PROVE  LET n == NewNote(role, d, i, x, b)
                 IN /\ n \in WalletNotes /\ n.id[1] = commands /\ n.id[2] = role /\ n.id[3] = d /\ n.id[4] = i
                    /\ n.denom = d /\ n.amount = x
      BY NewNoteType
    <2> QED BY <1>1, <1>2, <2>1
  <1>4. tx = [spends |-> g, outputs |-> {m}, fee |-> 0, action |-> zero] BY DEF SweepTransaction, a
  <1>5. tx.spends = g /\ tx.outputs = {m} /\ tx.fee = 0 /\ tx.action = zero BY <1>4
  <1> HIDE DEF m, tx
  <1>6. Amount({m}) = Amount(g) /\ IsFiniteSet({m}) BY <1>3, AmountOne DEF a
  <1>7. zero \in [Denoms -> Int] OBVIOUS
  <1>8. tx \in Txs
    <2> HIDE DEF zero
    <2> QED BY <1>3, <1>4, <1>7 DEF Txs
  <1>9. Made(tx, commands) BY <1>2, <1>3, <1>5, <1>6, <1>8 DEF Made
  <1>10. ASSUME NEW x \in Denoms
         PROVE  Amount(OfDenom(tx.spends, x)) - Amount(OfDenom(tx.outputs, x))
                  + tx.action[x] - (IF x = Stake THEN tx.fee ELSE 0) = 0
    <2>1. tx.action[x] = 0 /\ (IF x = Stake THEN tx.fee ELSE 0) = 0 BY <1>5
    <2>2. Amount(OfDenom(tx.spends, x)) = Amount(OfDenom(tx.outputs, x)) /\ Amount(OfDenom(tx.spends, x)) \in Nat
      <3>1. CASE x = d
        <4>1. OfDenom(tx.spends, x) = g /\ OfDenom(tx.outputs, x) = {m} BY <1>3, <1>5, <3>1 DEF OfDenom
        <4> QED BY <1>1, <1>6, <4>1 DEF a
      <3>2. CASE x # d
        <4>1. OfDenom(tx.spends, x) = {} /\ OfDenom(tx.outputs, x) = {} BY <1>3, <1>5, <3>2 DEF OfDenom
        <4> QED BY <4>1, AmountNone
      <3> QED BY <3>1, <3>2
    <2> QED BY <2>1, <2>2
  <1>11. Balanced(tx) BY <1>10, Zenon DEF Balanced, ValueBalance
  <1> QED BY <1>3, <1>5, <1>9, <1>11 DEF tx

\* The sweeps of one denomination spend ready notes, and their outputs differ by index.
LEMMA SweepTransactionsOK ==
  ASSUME commands \in Nat, NEW c, NEW s, StateOK(c, s), NEW d \in Denoms,
         NEW groups \in SweepGroups(OfDenom(s.unspent_set, d))
  PROVE  LET q == SweepTransactions(d, groups)
         IN /\ q \in Seq(Txs)
            /\ \A i \in 1 .. Len(q) :
                 /\ Made(q[i], commands) /\ Balanced(q[i]) /\ q[i].spends \subseteq s.unspent_set
                 /\ \A n \in q[i].outputs : n.id[3] = d /\ n.id[4] = i
  <1> DEFINE q == SweepTransactions(d, groups)
             ready == OfDenom(s.unspent_set, d)
             G == SetToSeq(groups)
             k == Cardinality(groups)
  <1>1. s.unspent_set \subseteq WalletNotes /\ IsFiniteSet(s.unspent_set) BY ReadyNotes
  <1>2. ready \subseteq s.unspent_set /\ \A n \in ready : n.denom = d BY DEF OfDenom
  <1>3. IsFiniteSet(ready) BY <1>1, <1>2, FS_Subset
  <1>4. groups \subseteq SUBSET ready BY DEF SweepGroups, kSubset
  <1> HIDE DEF ready
  <1>5. IsFiniteSet(groups) BY <1>3, <1>4, FS_SUBSET, FS_Subset
  <1>6. G \in [1 .. k -> groups] /\ k \in Nat BY <1>5, SetToSeqOf
  <1>7. q = [i \in DOMAIN G |-> SweepTransaction(G[i], d, i)] BY DEF SweepTransactions
  <1> HIDE DEF G, k, q
  <1>8. DOMAIN q = 1 .. k /\ \A i \in 1 .. k : q[i] = SweepTransaction(G[i], d, i) BY <1>6, <1>7
  <1>9. ASSUME NEW i \in 1 .. k
        PROVE  /\ Made(q[i], commands) /\ Balanced(q[i]) /\ q[i].spends \subseteq s.unspent_set
               /\ \A n \in q[i].outputs : n.id[3] = d /\ n.id[4] = i
    <2> DEFINE g == G[i]
    <2>1. g \subseteq ready BY <1>4, <1>6
    <2>2. g \subseteq WalletNotes /\ g \subseteq s.unspent_set /\ \A n \in g : n.denom = d BY <1>1, <1>2, <2>1
    <2>3. IsFiniteSet(g) BY <1>3, <2>1, FS_Subset
    <2>4. i \in Nat BY <1>6
    <2>5. q[i] = SweepTransaction(g, d, i) BY <1>8
    <2> HIDE DEF g
    <2> DEFINE tx == SweepTransaction(g, d, i)
    <2>6. Made(tx, commands) /\ Balanced(tx) /\ tx.spends = g /\ \A n \in tx.outputs : n.id[3] = d /\ n.id[4] = i
      BY <2>2, <2>3, <2>4, SweepTransactionOK
    <2> HIDE DEF tx
    <2>7. q[i] = tx BY <2>5 DEF tx
    <2> QED BY <2>2, <2>6, <2>7
  <1>10. q \in [1 .. k -> Txs]
    <2>1. \A i \in 1 .. k : q[i] \in Txs BY <1>9 DEF Made
    <2>2. q = [i \in 1 .. k |-> q[i]] BY <1>7, <1>8
    <2> QED BY <2>1, <2>2
  <1>11. q \in Seq(Txs) BY <1>6, <1>10, IsASeq
  <1>12. Len(q) = k BY <1>6, <1>8, <1>11, LenProperties
  <1> QED BY <1>9, <1>11, <1>12 DEF q

-----------------------------------------------------------------------------
(* The chain, the mempool and the transactions a command has built         *)

PoolOutputs(p) == UNION {tx.outputs : tx \in p}
PoolSpends(p) == UNION {tx.spends : tx \in p}
AllOutputs(c) == OutputsTo(c, Len(c))
AllReceived(c) == ReceivedTo(c, Len(c))

\* What is on the chain are notes.
LEMMA ChainNotes ==
  ASSUME NEW c, ChainOK(c) PROVE AllOutputs(c) \subseteq WalletNotes
  <1>1. \A b \in Blocks : b.outputs \subseteq WalletNotes BY DEF Blocks
  <1>2. c \in Seq(Blocks) BY DEF ChainOK
  <1>3. \A i \in 1 .. Len(c) : c[i] \in Blocks BY <1>2, ElementOfSeq
  <1> QED BY <1>1, <1>3 DEF AllOutputs, OutputsTo

\* The chain c takes one more block.
LEMMA AppendBlock ==
  ASSUME NEW c, ChainOK(c), NEW b \in Blocks, IsFiniteSet(b.outputs),
         b.outputs \intersect AllOutputs(c) = {},
         b.nullifiers \intersect NullifiersTo(c, Len(c)) = {}, b.nullifiers \subseteq AllReceived(c)
  PROVE  LET d == Append(c, b)
         IN /\ ChainOK(d) /\ Len(d) = Len(c) + 1 /\ \A i \in 1 .. Len(c) : d[i] = c[i]
            /\ AllOutputs(d) = AllOutputs(c) \union b.outputs
            /\ AllReceived(c) \subseteq AllReceived(d)
  <1> DEFINE d == Append(c, b)
             L == Len(c)
             m == L + 1
  <1>1. c \in Seq(Blocks) /\ L \in Nat BY LenProperties DEF ChainOK
  <1>2. d \in Seq(Blocks) /\ d # << >> /\ Len(d) = m /\ (\A i \in 1 .. L : d[i] = c[i]) /\ d[m] = b
    BY <1>1, AppendProperties
  <1>3. \A i \in 1 .. m : i = m \/ i \in 1 .. L BY <1>1
  <1>4. m \notin 1 .. L /\ m \in Nat /\ m - 1 = L /\ L \in Int /\ m \in Int /\ L <= m BY <1>1
  <1>5. OutputsTo(d, m) = OutputsTo(d, L) \union d[m].outputs BY <1>1, OneMore
  <1>6. \A k \in 0 .. L : OutputsTo(c, k) = OutputsTo(d, k) /\ ReceivedTo(c, k) = ReceivedTo(d, k)
    <2> SUFFICES ASSUME NEW k \in 0 .. L
                 PROVE  OutputsTo(c, k) = OutputsTo(d, k) /\ ReceivedTo(c, k) = ReceivedTo(d, k)
      OBVIOUS
    <2>1. \A i \in 1 .. k : c[i] = d[i] BY <1>1, <1>2
    <2>2. OutputsTo(c, k) = OutputsTo(d, k) BY <2>1 DEF OutputsTo
    <2> QED BY <2>2 DEF ReceivedTo
  <1>7. L \in 0 .. L /\ \A i \in 1 .. L : i - 1 \in 0 .. L BY <1>1
  <1> HIDE DEF d, L, m
  <1>8. \A i \in 1 .. L : /\ b.outputs \intersect c[i].outputs = {}
                          /\ b.nullifiers \intersect c[i].nullifiers = {}
    BY DEF AllOutputs, OutputsTo, NullifiersTo, L
  <1>9. ASSUME NEW i \in 1 .. m, NEW j \in 1 .. m, i # j
        PROVE  d[i].outputs \intersect d[j].outputs = {} /\ d[i].nullifiers \intersect d[j].nullifiers = {}
    <2>1. CASE i = m
      <3>1. d[i] = b /\ d[j] = c[j] /\ j \in 1 .. L BY <1>2, <1>3, <1>9, <2>1
      <3> QED BY <1>8, <3>1
    <2>2. CASE j = m
      <3>1. d[j] = b /\ d[i] = c[i] /\ i \in 1 .. L BY <1>2, <1>3, <1>9, <2>2
      <3> QED BY <1>8, <3>1
    <2>3. CASE i # m /\ j # m
      <3>1. d[j] = c[j] /\ d[i] = c[i] /\ i \in 1 .. L /\ j \in 1 .. L BY <1>2, <1>3, <2>3
      <3> QED BY <1>9, <3>1 DEF ChainOK, L
    <2> QED BY <2>1, <2>2, <2>3
  <1>10. ASSUME NEW i \in 1 .. m
         PROVE  IsFiniteSet(d[i].outputs) /\ d[i].nullifiers \subseteq ReceivedTo(d, i - 1)
    <2>1. CASE i = m BY <1>2, <1>4, <1>6, <1>7, <2>1 DEF AllReceived, L
    <2>2. CASE i # m
      <3>1. d[i] = c[i] /\ i \in 1 .. L BY <1>2, <1>3, <2>2
      <3>2. IsFiniteSet(c[i].outputs) /\ c[i].nullifiers \subseteq ReceivedTo(c, i - 1) BY <3>1 DEF ChainOK, L
      <3>3. ReceivedTo(c, i - 1) = ReceivedTo(d, i - 1) BY <1>6, <1>7, <3>1
      <3> QED BY <3>1, <3>2, <3>3
    <2> QED BY <2>1, <2>2
  <1>11. ChainOK(d) BY <1>2, <1>9, <1>10 DEF ChainOK
  <1>12. AllOutputs(d) = AllOutputs(c) \union b.outputs BY <1>2, <1>5, <1>6, <1>7 DEF AllOutputs, L
  <1>13. AllReceived(c) \subseteq AllReceived(d)
    <2>1. ReceivedTo(d, L) \subseteq ReceivedTo(d, m) BY <1>4, ReceivedGrows
    <2>2. AllReceived(c) = ReceivedTo(d, L) BY <1>6, <1>7 DEF AllReceived, L
    <2> QED BY <1>2, <2>1, <2>2 DEF AllReceived
  <1> QED BY <1>2, <1>11, <1>12, <1>13 DEF d, L, m

\* No two transactions in the mempool or still to be submitted have an output
\* in common, and none has an output that is on the chain.
Unique(c, p, q, k) ==
  /\ PoolOutputs(p) \intersect AllOutputs(c) = {}
  /\ \A s, t \in p : s # t => s.outputs \intersect t.outputs = {}
  /\ \A i \in (k + 1) .. Len(q) : q[i].outputs \intersect (AllOutputs(c) \union PoolOutputs(p)) = {}
  /\ \A i, j \in 1 .. Len(q) : i # j => q[i].outputs \intersect q[j].outputs = {}

\* The wallet's notes carry the number of a command up to m, a payment the
\* number of its block.
Numbered(c, p, m) ==
  /\ \A n \in AllOutputs(c) \union PoolOutputs(p) : n.id[2] \in Roles => n.id[1] <= m
  /\ \A n \in AllOutputs(c) : n.id[2] = "payment" => n.id[1] < Len(c)

PoolOK(c, p) ==
  /\ \A tx \in p : /\ tx \in Txs /\ tx.spends \subseteq AllReceived(c)
                   /\ \A n \in tx.outputs : n.id[2] \in Roles
  /\ IsFiniteSet(PoolOutputs(p))

OutboxOK(c, q, k, n) ==
  /\ q \in Seq(Txs) /\ k \in 0 .. Len(q)
  /\ \A i \in 1 .. Len(q) : Made(q[i], n) /\ Balanced(q[i]) /\ q[i].spends \subseteq AllReceived(c)

\* The chain c, the mempool p, and the outbox q of command n, of which k are
\* submitted; m is the last command with an output outside of its outbox.
World(c, p, q, k, n, m) ==
  /\ ChainOK(c) /\ PoolOK(c, p) /\ OutboxOK(c, q, k, n) /\ Unique(c, p, q, k) /\ Numbered(c, p, m)

\* The command ends.
LEMMA OutboxGone ==
  ASSUME NEW c, NEW p, NEW q, NEW k, NEW n \in Nat, NEW m \in {n - 1, n}, World(c, p, q, k, n, m)
  PROVE  World(c, p, << >>, 0, n, n)
  <1>1. << >> \in Seq(Txs) /\ Len(<< >>) = 0 OBVIOUS
  <1>2. 0 \in 0 .. 0 /\ 1 .. 0 = {} /\ (0 + 1) .. 0 = {} OBVIOUS
  <1>3. OutboxOK(c, << >>, 0, n) BY <1>1, <1>2 DEF OutboxOK
  <1>4. Unique(c, p, << >>, 0) BY <1>1, <1>2 DEF World, Unique
  <1>5. Numbered(c, p, n)
    <2>1. ChainOK(c) /\ PoolOK(c, p) /\ Numbered(c, p, m) BY DEF World
    <2>2. \A x \in AllOutputs(c) \union PoolOutputs(p) : x \in WalletNotes
      <3>1. \A tx \in p : tx.outputs \subseteq WalletNotes BY <2>1 DEF PoolOK, Txs
      <3>2. AllOutputs(c) \subseteq WalletNotes BY <2>1, ChainNotes
      <3> QED BY <3>1, <3>2 DEF PoolOutputs
    <2>3. \A x \in WalletNotes : x.id[1] \in Nat BY DEF WalletNotes, NotesOf, NoteIds
    <2>4. \A x \in AllOutputs(c) \union PoolOutputs(p) : x.id[1] <= m => x.id[1] <= n BY <2>2, <2>3
    <2> QED BY <2>1, <2>4 DEF Numbered
  <1> QED BY <1>3, <1>4, <1>5 DEF World

\* The next command starts: its number is new.
LEMMA NumberTaken ==
  ASSUME NEW c, NEW p, NEW n \in Nat, World(c, p, << >>, 0, n, n)
  PROVE  World(c, p, << >>, 0, n + 1, n)
  <1>1. OutboxOK(c, << >>, 0, n + 1)
    <2>1. Len(<< >>) = 0 /\ 1 .. 0 = {} OBVIOUS
    <2> QED BY <2>1 DEF World, OutboxOK
  <1> QED BY <1>1 DEF World

\* The transactions a command builds have outputs that exist nowhere.
LEMMA OutboxFilled ==
  ASSUME NEW c, NEW p, NEW n \in Nat, World(c, p, << >>, 0, n, n - 1), NEW q, OutboxOK(c, q, 0, n),
         \A i, j \in 1 .. Len(q) : i # j => q[i].outputs \intersect q[j].outputs = {}
  PROVE  World(c, p, q, 0, n, n)
  <1>1. n \in {n - 1, n} /\ n - 1 \in {n - 1, n} OBVIOUS
  <1>2. World(c, p, << >>, 0, n, n) BY <1>1, OutboxGone
  <1>3. ASSUME NEW i \in (0 + 1) .. Len(q)
        PROVE  q[i].outputs \intersect (AllOutputs(c) \union PoolOutputs(p)) = {}
    <2>1. i \in 1 .. Len(q) OBVIOUS
    <2>2. \A x \in q[i].outputs : x.id[1] = n /\ x.id[2] \in Roles BY <2>1 DEF OutboxOK, Made
    <2>3. \A x \in AllOutputs(c) \union PoolOutputs(p) : x.id[2] \in Roles => x.id[1] <= n - 1
      BY DEF World, Numbered
    <2>4. ~(n <= n - 1) OBVIOUS
    <2> QED BY <2>2, <2>3, <2>4
  <1>4. Unique(c, p, q, 0) BY <1>3 DEF World, Unique
  <1> QED BY <1>2, <1>4 DEF World

\* One of them is submitted, and accepted or not.
LEMMA OneSubmitted ==
  ASSUME NEW c, NEW p, NEW q, NEW k \in Nat, NEW n \in Nat, k < Len(q), World(c, p, q, k, n, n)
  PROVE  World(c, p \union {q[k + 1]}, q, k + 1, n, n) /\ World(c, p, q, k + 1, n, n)
  <1> DEFINE l == k + 1
             tx == q[l]
             r == p \union {tx}
             L == Len(q)
  <1>1. L \in Nat BY LenProperties DEF World, OutboxOK
  <1>2. l \in 0 .. L /\ l \in 1 .. L /\ l \in l .. L BY <1>1
  <1>3. \A i \in (l + 1) .. L : i \in l .. L /\ i \in 1 .. L /\ i # l BY <1>1
  <1>4. \A i \in l .. L : q[i].outputs \intersect (AllOutputs(c) \union PoolOutputs(p)) = {}
    BY DEF World, Unique
  <1> HIDE DEF l, tx, L
  <1>5. OutboxOK(c, q, l, n) BY <1>2 DEF World, OutboxOK, L
  <1>6. Unique(c, p, q, l)
    <2>1. \A i \in (l + 1) .. Len(q) : q[i].outputs \intersect (AllOutputs(c) \union PoolOutputs(p)) = {}
      BY <1>3, <1>4 DEF L
    <2> QED BY <2>1 DEF World, Unique
  <1>7. tx.outputs \intersect (AllOutputs(c) \union PoolOutputs(p)) = {} BY <1>2, <1>4 DEF tx
  <1>8. Made(tx, n) /\ tx.spends \subseteq AllReceived(c) BY <1>2 DEF World, OutboxOK, L, tx
  <1>9. PoolOutputs(r) = PoolOutputs(p) \union tx.outputs BY DEF PoolOutputs
  <1>10. PoolOK(c, r)
    <2>1. IsFiniteSet(PoolOutputs(r)) BY <1>8, <1>9, FS_Union DEF World, PoolOK, Made
    <2>2. tx \in Txs /\ \A x \in tx.outputs : x.id[2] \in Roles BY <1>8 DEF Made
    <2> QED BY <1>8, <2>1, <2>2 DEF World, PoolOK
  <1>11. Unique(c, r, q, l)
    <2>1. PoolOutputs(r) \intersect AllOutputs(c) = {} BY <1>6, <1>7, <1>9 DEF Unique
    <2>2. \A s \in p : s.outputs \subseteq PoolOutputs(p) BY DEF PoolOutputs
    <2>3. \A s, t \in r : s # t => s.outputs \intersect t.outputs = {} BY <1>6, <1>7, <2>2 DEF Unique
    <2>4. ASSUME NEW i \in (l + 1) .. Len(q)
          PROVE  q[i].outputs \intersect (AllOutputs(c) \union PoolOutputs(r)) = {}
      <3>1. q[i].outputs \intersect tx.outputs = {} BY <1>2, <1>3 DEF World, Unique, L, tx
      <3>2. q[i].outputs \intersect (AllOutputs(c) \union PoolOutputs(p)) = {} BY <1>6 DEF Unique
      <3> QED BY <1>9, <3>1, <3>2
    <2> HIDE DEF r
    <2> QED BY <1>6, <2>1, <2>3, <2>4 DEF Unique
  <1>12. Numbered(c, r, n)
    <2>1. \A x \in tx.outputs : x.id[1] = n BY <1>8 DEF Made
    <2>2. n <= n OBVIOUS
    <2> QED BY <1>9, <2>1, <2>2 DEF World, Numbered
  <1> QED BY <1>5, <1>6, <1>10, <1>11, <1>12 DEF World, l, tx

\* A payment by somebody else, in the block after chain c.
IsPay(x, c) == x \in WalletNotes /\ x.id[1] = Len(c) /\ x.id[2] = "payment"

\* A block takes some of the mempool and perhaps a payment.
LEMMA BlockMade ==
  ASSUME NEW c, NEW p, NEW q, NEW k, NEW n, NEW m, World(c, p, q, k, n, m), NEW txs \in SUBSET p,
         NEW x, IsPay(x, c), NEW paid \in {{}, {x}},
         \A tx \in txs : tx.spends \intersect NullifiersTo(c, Len(c)) = {}
  PROVE  LET d == Append(c, [outputs |-> paid \union PoolOutputs(txs), nullifiers |-> PoolSpends(txs)])
         IN World(d, p \ txs, q, k, n, m) /\ Len(d) = Len(c) + 1 /\ \A i \in 1 .. Len(c) : d[i] = c[i]
  <1> DEFINE b == [outputs |-> paid \union PoolOutputs(txs), nullifiers |-> PoolSpends(txs)]
             d == Append(c, b)
             r == p \ txs
  <1>1. b.outputs = paid \union PoolOutputs(txs) /\ b.nullifiers = PoolSpends(txs) OBVIOUS
  <1>2. ChainOK(c) /\ PoolOK(c, p) /\ OutboxOK(c, q, k, n) /\ Unique(c, p, q, k) /\ Numbered(c, p, m)
    BY DEF World
  <1>3. Len(c) \in Nat BY <1>2, LenProperties DEF ChainOK
  <1>4. /\ PoolOutputs(txs) \subseteq PoolOutputs(p) /\ PoolOutputs(r) \subseteq PoolOutputs(p)
        /\ \A s \in p : s.outputs \subseteq PoolOutputs(p)
    BY DEF PoolOutputs
  <1>5. PoolOutputs(r) \intersect PoolOutputs(txs) = {}
    <2>1. \A s \in r, t \in txs : s.outputs \intersect t.outputs = {} BY <1>2 DEF Unique
    <2> QED BY <2>1 DEF PoolOutputs
  <1>6. \A tx \in p : tx.outputs \subseteq WalletNotes /\ tx.spends \subseteq WalletNotes
    BY <1>2 DEF PoolOK, Txs
  <1>7. b \in Blocks
    <2>1. paid \union PoolOutputs(txs) \subseteq WalletNotes BY <1>6 DEF PoolOutputs, IsPay
    <2>2. PoolSpends(txs) \subseteq WalletNotes BY <1>6 DEF PoolSpends
    <2> QED BY <2>1, <2>2 DEF Blocks
  <1> HIDE DEF b, d, r
  <1>8. IsFiniteSet(b.outputs)
    <2>1. IsFiniteSet(paid) BY FS_Singleton, FS_EmptySet
    <2>2. IsFiniteSet(PoolOutputs(txs)) BY <1>2, <1>4, FS_Subset DEF PoolOK
    <2> DEFINE P == PoolOutputs(txs)
    <2> HIDE DEF P
    <2>3. IsFiniteSet(P) BY <2>2 DEF P
    <2>4. IsFiniteSet(paid \union P) BY <2>1, <2>3, FS_Union
    <2> QED BY <1>1, <2>4 DEF P
  <1>9. \A y \in paid : y \notin AllOutputs(c)
    <2>1. \A y \in AllOutputs(c) : y.id[2] = "payment" => y.id[1] < Len(c) BY <1>2 DEF Numbered
    <2>2. ~(Len(c) < Len(c)) BY <1>3
    <2> QED BY <2>1, <2>2 DEF IsPay
  <1>10. b.outputs \intersect AllOutputs(c) = {} BY <1>1, <1>2, <1>4, <1>9 DEF Unique
  <1>11. b.nullifiers \intersect NullifiersTo(c, Len(c)) = {} BY <1>1 DEF PoolSpends
  <1>12. b.nullifiers \subseteq AllReceived(c) BY <1>1, <1>2 DEF PoolSpends, PoolOK
  <1>13. /\ ChainOK(d) /\ Len(d) = Len(c) + 1 /\ \A i \in 1 .. Len(c) : d[i] = c[i]
         /\ AllOutputs(d) = AllOutputs(c) \union b.outputs /\ AllReceived(c) \subseteq AllReceived(d)
    BY <1>2, <1>7, <1>8, <1>10, <1>11, <1>12, AppendBlock DEF d
  <1>14. PoolOK(d, r)
    <2>1. IsFiniteSet(PoolOutputs(r)) BY <1>2, <1>4, FS_Subset DEF PoolOK
    <2> QED BY <1>2, <1>13, <2>1 DEF PoolOK, r
  <1>15. OutboxOK(d, q, k, n) BY <1>2, <1>13 DEF OutboxOK
  <1>16. \A y : y.id[2] \in Roles => y \notin paid BY DEF IsPay, Roles
  <1>17. \A y \in PoolOutputs(p) : y.id[2] \in Roles BY <1>2 DEF PoolOK, PoolOutputs
  <1>18. Unique(d, r, q, k)
    <2>1. PoolOutputs(r) \intersect AllOutputs(d) = {}
      BY <1>1, <1>2, <1>4, <1>5, <1>13, <1>16, <1>17 DEF Unique
    <2>2. \A s, t \in r : s # t => s.outputs \intersect t.outputs = {} BY <1>2 DEF Unique, r
    <2>3. ASSUME NEW i \in (k + 1) .. Len(q)
          PROVE  q[i].outputs \intersect (AllOutputs(d) \union PoolOutputs(r)) = {}
      <3>1. i \in 1 .. Len(q)
        <4>1. k \in Nat /\ Len(q) \in Nat BY <1>2, LenProperties DEF OutboxOK
        <4> QED BY <4>1
      <3>2. \A y \in q[i].outputs : y \notin paid BY <1>2, <1>16, <3>1 DEF OutboxOK, Made
      <3>3. q[i].outputs \intersect (AllOutputs(c) \union PoolOutputs(p)) = {} BY <1>2 DEF Unique
      <3> QED BY <1>1, <1>4, <1>13, <3>2, <3>3
    <2> QED BY <1>2, <2>1, <2>2, <2>3 DEF Unique
  <1>19. Numbered(d, r, m)
    <2>1. ASSUME NEW y \in AllOutputs(d) \union PoolOutputs(r), y.id[2] \in Roles PROVE y.id[1] <= m
      <3>1. y \in AllOutputs(c) \union PoolOutputs(p) BY <1>1, <1>4, <1>13, <1>16, <2>1
      <3> QED BY <1>2, <2>1, <3>1 DEF Numbered
    <2>2. ASSUME NEW y \in AllOutputs(d), y.id[2] = "payment" PROVE y.id[1] < Len(d)
      <3>1. CASE y \in AllOutputs(c)
        <4>1. y.id[1] < Len(c) BY <1>2, <2>2, <3>1 DEF Numbered
        <4>2. y \in WalletNotes BY <1>2, <3>1, ChainNotes
        <4>3. y.id[1] \in Nat BY <4>2 DEF WalletNotes, NotesOf, NoteIds
        <4> QED BY <1>3, <1>13, <4>1, <4>3
      <3>2. CASE y \in paid
        <4>1. y.id[1] = Len(c) BY <3>2 DEF IsPay
        <4> QED BY <1>3, <1>13, <4>1
      <3>3. y \notin PoolOutputs(txs) BY <1>4, <1>17, <2>2 DEF Roles
      <3> QED BY <1>1, <1>13, <3>1, <3>2, <3>3
    <2> QED BY <2>1, <2>2 DEF Numbered
  <1>20. World(d, r, q, k, n, m) BY <1>13, <1>14, <1>15, <1>18, <1>19 DEF World
  <1> QED BY <1>13, <1>20 DEF d, b, r

\* The mempool forgets a transaction.
LEMMA OneDropped ==
  ASSUME NEW c, NEW p, NEW q, NEW k, NEW n, NEW m, World(c, p, q, k, n, m), NEW tx
  PROVE  World(c, p \ {tx}, q, k, n, m)
  <1> DEFINE r == p \ {tx}
  <1>1. PoolOutputs(r) \subseteq PoolOutputs(p) BY DEF PoolOutputs
  <1>2. r \subseteq p OBVIOUS
  <1>3. IsFiniteSet(PoolOutputs(r)) BY <1>1, FS_Subset DEF World, PoolOK
  <1> HIDE DEF r
  <1>4. PoolOK(c, r) BY <1>2, <1>3 DEF World, PoolOK
  <1>5. Unique(c, r, q, k) BY <1>1, <1>2 DEF World, Unique
  <1>6. Numbered(c, r, m) BY <1>1 DEF World, Numbered
  <1>7. World(c, r, q, k, n, m) BY <1>4, <1>5, <1>6 DEF World
  <1> QED BY <1>7 DEF r

-----------------------------------------------------------------------------
(* The inductive invariant                                                 *)

Steps == {"idle", "loaded", "syncing", "synced", "built", "accepted", "sweeping"}
Preparing == {"loaded", "syncing", "synced"}

\* The last command whose notes are outside of its memory.
Counted == IF step \in Preparing THEN commands - 1 ELSE commands

WorldInv ==
  /\ step \in Steps /\ commands \in Nat /\ clock \in Nat
  /\ World(chain, mempool, outbox, sent, commands, Counted)
  /\ step \in Preparing \union {"idle"} => outbox = << >> /\ sent = 0
  /\ step = "built" => Len(outbox) = 1 /\ sent = 0

StatesInv ==
  /\ StateOK(chain, file) /\ StateOK(chain, mem)
  /\ end_height \in Int /\ end_height < Len(chain)

\* What was registered and saved is remembered until it times out, by the file
\* and by every command that has loaded it.
RegisteredInv ==
  /\ registered \subseteq Entry
  /\ \A e \in registered : /\ Remembers(file, e) \/ clock > e.timeout
                           /\ step # "idle" => Remembers(mem, e) \/ clock > e.timeout
  /\ NoSecondAttempt

WalletInv == WorldInv /\ StatesInv /\ RegisteredInv

\* The ready notes of a client state are on the chain.
LEMMA ReadyOnChain ==
  ASSUME NEW c, NEW s, ChainOK(c), StateOK(c, s)
  PROVE  s.unspent_set \subseteq AllReceived(c) /\ s.nullifier_map \subseteq AllOutputs(c)
  <1> DEFINE k == s.last_block_height + 1
             L == Len(c)
  <1>1. L \in Nat BY LenProperties DEF ChainOK
  <1>2. k \in 0 .. L BY DEF StateOK
  <1> HIDE DEF k, L
  <1>3. k \in Int /\ L \in Int /\ k <= L BY <1>1, <1>2
  <1>4. ReceivedTo(c, k) \subseteq ReceivedTo(c, L) BY <1>3, ReceivedGrows
  <1>5. s.unspent_set \subseteq ReceivedTo(c, k) BY ReadyNotes DEF k
  <1>6. s.nullifier_map = ReceivedTo(c, k) BY DEF StateOK, k
  <1> QED BY <1>4, <1>5, <1>6 DEF AllReceived, AllOutputs, L, ReceivedTo

\* A command builds one transaction and registers it.
LEMMA BuildStep ==
  ASSUME WorldInv, StatesInv, NEW r \in Requests, Build(r)
  PROVE  /\ World(chain, mempool, outbox', 0, commands, commands) /\ Len(outbox') = 1
         /\ StateOK(chain, mem') /\ \A e : Remembers(mem, e) => Remembers(mem', e)
         /\ \A e : Remembers(mem, e) => \A i \in 1 .. Len(outbox') : e.note \notin outbox'[i].spends
  <1>1. PICK stake \in Drawn(mem, r, Stake), tokens \in Drawn(mem, r, DelegationToken) :
          /\ outbox' = <<Transaction(r, stake \union tokens)>>
          /\ mem' = RegisterChange(RegisterSpend(mem, stake \union tokens),
                                   ToSelf(r) \union Change(r, stake \union tokens))
    BY DEF Build
  <1> DEFINE spends == stake \union tokens
             tx == Transaction(r, spends)
             change == ToSelf(r) \union Change(r, spends)
  <1>2. outbox' = <<tx>> /\ mem' = RegisterChange(RegisterSpend(mem, spends), change) BY <1>1
  <1>3. commands \in Nat /\ CanPayFee(r) /\ StateOK(chain, mem) /\ clock \in Int
    BY DEF WorldInv, StatesInv, Build
  <1>4. Covers(r, spends) /\ spends \subseteq mem.unspent_set BY <1>3, DrawnCover
  <1> HIDE DEF spends
  <1>5. Made(tx, commands) /\ Balanced(tx) /\ tx.spends = spends /\ change \subseteq tx.outputs
    BY <1>3, <1>4, TransactionOK
  <1> HIDE DEF tx, change
  <1>6. World(chain, mempool, << >>, 0, commands, commands - 1) /\ ChainOK(chain)
    BY DEF WorldInv, Build, Counted, Preparing, World
  <1>7. mem.unspent_set \subseteq AllReceived(chain) /\ mem.nullifier_map \subseteq AllOutputs(chain)
    BY <1>3, <1>6, ReadyOnChain
  <1> DEFINE q == <<tx>>
  <1>8. tx \in Txs BY <1>5 DEF Made
  <1>9. q \in Seq(Txs) /\ Len(q) = 1 /\ q[1] = tx BY <1>8
  <1>10. \A i \in 1 .. 1 : i = 1 OBVIOUS
  <1> HIDE DEF q
  <1>11. OutboxOK(chain, q, 0, commands)
    <2>1. 0 \in 0 .. 1 OBVIOUS
    <2> QED BY <1>4, <1>5, <1>7, <1>9, <1>10, <2>1 DEF OutboxOK
  <1>12. World(chain, mempool, q, 0, commands, commands)
    BY <1>3, <1>6, <1>9, <1>10, <1>11, OutboxFilled
  <1>13. tx.outputs \intersect AllOutputs(chain) = {}
    <2>1. 1 \in (0 + 1) .. 1 OBVIOUS
    <2> QED BY <1>9, <1>12, <2>1 DEF World, Unique
  <1>14. change \in SUBSET WalletNotes BY <1>5, <1>8 DEF Txs
  <1>15. change \intersect mem.nullifier_map = {} BY <1>5, <1>7, <1>13
  <1>16. StateOK(chain, mem') /\ \A e : Remembers(mem, e) => Remembers(mem', e)
    BY <1>2, <1>3, <1>4, <1>14, <1>15, RegisterOK
  <1>17. \A e : Remembers(mem, e) => e.note \notin spends BY <1>3, <1>4, ReadyNotes
  <1>18. outbox' = q BY <1>2 DEF q
  <1>19. \A e : Remembers(mem, e) => \A i \in 1 .. Len(outbox') : e.note \notin outbox'[i].spends
    BY <1>5, <1>9, <1>10, <1>17, <1>18
  <1> QED BY <1>9, <1>12, <1>16, <1>18, <1>19

\* A sweep builds several.
LEMMA SweepStep ==
  ASSUME WorldInv, StatesInv, BuildSweep
  PROVE  /\ World(chain, mempool, outbox', 0, commands, commands)
         /\ \A e : Remembers(mem, e) => \A i \in 1 .. Len(outbox') : e.note \notin outbox'[i].spends
  <1>1. PICK stake \in SweepGroups(OfDenom(mem.unspent_set, Stake)),
             tokens \in SweepGroups(OfDenom(mem.unspent_set, DelegationToken)) :
          outbox' = SweepTransactions(Stake, stake) \o SweepTransactions(DelegationToken, tokens)
    BY DEF BuildSweep
  <1> DEFINE f == SweepTransactions(Stake, stake)
             g == SweepTransactions(DelegationToken, tokens)
             q == f \o g
  <1>2. commands \in Nat /\ StateOK(chain, mem) BY DEF WorldInv, StatesInv
  <1>3. Stake \in Denoms /\ DelegationToken \in Denoms /\ Stake # DelegationToken
    BY WalletAssumption DEF Denoms
  <1>4. /\ f \in Seq(Txs)
        /\ \A i \in 1 .. Len(f) :
             /\ Made(f[i], commands) /\ Balanced(f[i]) /\ f[i].spends \subseteq mem.unspent_set
             /\ \A n \in f[i].outputs : n.id[3] = Stake /\ n.id[4] = i
    BY <1>2, <1>3, SweepTransactionsOK
  <1>5. /\ g \in Seq(Txs)
        /\ \A i \in 1 .. Len(g) :
             /\ Made(g[i], commands) /\ Balanced(g[i]) /\ g[i].spends \subseteq mem.unspent_set
             /\ \A n \in g[i].outputs : n.id[3] = DelegationToken /\ n.id[4] = i
    BY <1>2, <1>3, SweepTransactionsOK
  <1> HIDE DEF f, g
  <1> DEFINE a == Len(f)
             z == Len(g)
  <1>6. a \in Nat /\ z \in Nat BY <1>4, <1>5, LenProperties
  <1>7. /\ q \in Seq(Txs) /\ Len(q) = a + z
        /\ \A i \in 1 .. a + z : q[i] = IF i <= a THEN f[i] ELSE g[i - a]
    BY <1>4, <1>5, ConcatProperties
  <1> HIDE DEF a, z, q
  <1>8. ASSUME NEW i \in 1 .. Len(q)
        PROVE  \/ i \in 1 .. a /\ q[i] = f[i]
               \/ i - a \in 1 .. z /\ q[i] = g[i - a]
    <2>1. i \in Int /\ i >= 1 /\ i <= a + z BY <1>6, <1>7
    <2>2. CASE i <= a BY <1>6, <1>7, <2>1, <2>2
    <2>3. CASE ~(i <= a)
      <3>1. i - a \in 1 .. z BY <1>6, <2>1, <2>3
      <3> QED BY <1>6, <1>7, <2>3, <3>1
    <2> QED BY <2>2, <2>3
  <1>9. \A i \in 1 .. Len(q) :
          Made(q[i], commands) /\ Balanced(q[i]) /\ q[i].spends \subseteq mem.unspent_set
    BY <1>4, <1>5, <1>8 DEF a, z
  <1>10. ASSUME NEW i \in 1 .. Len(q), NEW j \in 1 .. Len(q), i # j
         PROVE  q[i].outputs \intersect q[j].outputs = {}
    <2> SUFFICES ASSUME NEW n, n \in q[i].outputs, n \in q[j].outputs PROVE FALSE OBVIOUS
    <2>1. i \in Int /\ j \in Int /\ a \in Int BY <1>6, <1>7
    <2>2. CASE i \in 1 .. a /\ q[i] = f[i]
      <3>1. n.id[3] = Stake /\ n.id[4] = i BY <1>4, <2>2 DEF a
      <3>2. CASE j \in 1 .. a /\ q[j] = f[j]
        <4>1. n.id[4] = j BY <1>4, <3>2 DEF a
        <4> QED BY <1>10, <3>1, <4>1
      <3>3. CASE j - a \in 1 .. z /\ q[j] = g[j - a]
        <4>1. n.id[3] = DelegationToken BY <1>5, <3>3 DEF z
        <4> QED BY <1>3, <3>1, <4>1
      <3> QED BY <1>8, <3>2, <3>3
    <2>3. CASE i - a \in 1 .. z /\ q[i] = g[i - a]
      <3>1. n.id[3] = DelegationToken /\ n.id[4] = i - a BY <1>5, <2>3 DEF z
      <3>2. CASE j \in 1 .. a /\ q[j] = f[j]
        <4>1. n.id[3] = Stake BY <1>4, <3>2 DEF a
        <4> QED BY <1>3, <3>1, <4>1
      <3>3. CASE j - a \in 1 .. z /\ q[j] = g[j - a]
        <4>1. n.id[4] = j - a BY <1>5, <3>3 DEF z
        <4>2. i - a = j - a BY <3>1, <4>1
        <4>3. i = j BY <2>1, <4>2
        <4> QED BY <1>10, <4>3
      <3> QED BY <1>8, <3>2, <3>3
    <2> QED BY <1>8, <2>2, <2>3
  <1>11. World(chain, mempool, << >>, 0, commands, commands - 1) /\ ChainOK(chain)
    BY DEF WorldInv, BuildSweep, Counted, Preparing, World
  <1>12. mem.unspent_set \subseteq AllReceived(chain) BY <1>2, <1>11, ReadyOnChain
  <1>13. OutboxOK(chain, q, 0, commands)
    <2>1. 0 \in 0 .. Len(q) BY <1>6, <1>7
    <2> QED BY <1>7, <1>9, <1>12, <2>1 DEF OutboxOK
  <1>14. World(chain, mempool, q, 0, commands, commands)
    BY <1>2, <1>10, <1>11, <1>13, OutboxFilled
  <1>15. outbox' = q BY <1>1 DEF q, f, g
  <1>16. \A e : Remembers(mem, e) => e.note \notin mem.unspent_set BY <1>2, ReadyNotes
  <1> QED BY <1>9, <1>14, <1>15, <1>16

\* The genesis block alone.
LEMMA GenesisOK ==
  LET c == <<[outputs |-> GenesisNotes, nullifiers |-> {}]>>
  IN ChainOK(c) /\ World(c, {}, << >>, 0, 0, 0) /\ Len(c) = 1
  <1> DEFINE b == [outputs |-> GenesisNotes, nullifiers |-> {}]
             c == <<b>>
  <1>1. b.outputs = GenesisNotes /\ b.nullifiers = {} OBVIOUS
  <1>2. /\ IsFiniteSet(GenesisNotes) /\ GenesisNotes \subseteq WalletNotes
        /\ \A n \in GenesisNotes : n.id[2] = "genesis"
    BY WalletAssumption DEF WalletNotes
  <1>3. b \in Blocks BY <1>2 DEF Blocks
  <1> HIDE DEF b
  <1>4. c \in Seq(Blocks) /\ c # << >> /\ Len(c) = 1 /\ c[1] = b BY <1>3
  <1>5. (\A i \in 1 .. 1 : i = 1) /\ 1 \in 1 .. 1 OBVIOUS
  <1> HIDE DEF c
  <1>6. ChainOK(c) BY <1>1, <1>2, <1>4, <1>5 DEF ChainOK
  <1>7. AllOutputs(c) = GenesisNotes BY <1>1, <1>4, <1>5 DEF AllOutputs, OutputsTo
  <1>8. PoolOutputs({}) = {} BY DEF PoolOutputs
  <1>9. PoolOK(c, {}) BY <1>8, FS_EmptySet DEF PoolOK
  <1>10. Len(<< >>) = 0 /\ << >> \in Seq(Txs) /\ 1 .. 0 = {} /\ (0 + 1) .. 0 = {} /\ 0 \in 0 .. 0 OBVIOUS
  <1>11. OutboxOK(c, << >>, 0, 0) BY <1>10 DEF OutboxOK
  <1>12. Unique(c, {}, << >>, 0) BY <1>8, <1>10 DEF Unique
  <1>13. Numbered(c, {}, 0) BY <1>2, <1>7, <1>8 DEF Numbered, Roles
  <1>14. World(c, {}, << >>, 0, 0, 0) BY <1>6, <1>9, <1>11, <1>12, <1>13 DEF World
  <1> QED BY <1>4, <1>6, <1>14 DEF c, b

\* The payment in the next block has the number of that block.
LEMMA PayIsPay == ASSUME ChainOK(chain) PROVE IsPay(Pay, chain)
  <1> DEFINE L == Len(chain)
             id == <<L, "payment", Stake, 0>>
  <1>1. L \in Nat BY LenProperties DEF ChainOK
  <1>2. Height + 1 = L BY <1>1 DEF Height
  <1> HIDE DEF L
  <1>3. id \in NoteIds /\ id[1] = L /\ id[2] = "payment" BY <1>1 DEF NoteIds, Denoms
  <1>4. Pay = [id |-> id, denom |-> Stake, amount |-> Payment, mine |-> TRUE] BY <1>2 DEF Pay
  <1> HIDE DEF id
  <1>5. Pay \in WalletNotes BY <1>3, <1>4, WalletAssumption DEF WalletNotes, NotesOf, Denoms
  <1>6. Pay.id = id BY <1>4
  <1> QED BY <1>3, <1>5, <1>6 DEF IsPay, L

\* The first state.
LEMMA WalletInit == ASSUME Init PROVE WalletInv
  <1>1. ChainOK(chain) /\ World(chain, {}, << >>, 0, 0, 0) /\ Len(chain) = 1 BY GenesisOK DEF Init
  <1>2. WorldInv
    <2>1. step = "idle" /\ commands = 0 /\ clock = 0 /\ mempool = {} /\ outbox = << >> /\ sent = 0 BY DEF Init
    <2>2. Counted = 0 BY <2>1 DEF Counted, Preparing
    <2> QED BY <1>1, <2>1, <2>2 DEF WorldInv, Steps
  <1>3. StatesInv
    <2>1. file = NewClientState /\ mem = NewClientState /\ end_height = 0 BY DEF Init
    <2>2. StateOK(chain, NewClientState) BY <1>1, NewStateOK
    <2> QED BY <1>1, <2>1, <2>2 DEF StatesInv
  <1>4. RegisteredInv BY DEF Init, RegisteredInv, NoSecondAttempt
  <1> QED BY <1>2, <1>3, <1>4 DEF WalletInv

\* When a command ends, the world is as its submissions left it.
LEMMA EndsWorld ==
  ASSUME WorldInv, Ends, NEW q, NEW k, NEW m \in {commands - 1, commands},
         World(chain, mempool', q, k, commands, m)
  PROVE  WorldInv'
  <1>1. /\ chain' = chain /\ commands' = commands /\ clock' = clock /\ outbox' = << >> /\ sent' = 0
        /\ step' = "idle" /\ commands \in Nat /\ clock \in Nat
    BY DEF Ends, WorldInv
  <1>2. World(chain, mempool', << >>, 0, commands, commands) BY <1>1, OutboxGone
  <1>3. Counted' = commands BY <1>1 DEF Counted, Preparing
  <1>4. World(chain, mempool, outbox, sent, commands, Counted)' BY <1>1, <1>2, <1>3
  <1> QED BY <1>1, <1>4 DEF WorldInv, Steps

\* The chain, the mempool and the outbox, action by action.
LEMMA WorldStep == ASSUME WalletInv, [Next]_vars PROVE WorldInv'
  <1> DEFINE w(p, q, k) == World(chain, p, q, k, commands, commands)
  <1>1. /\ step \in Steps /\ commands \in Nat /\ clock \in Nat /\ WorldInv /\ StatesInv
        /\ World(chain, mempool, outbox, sent, commands, Counted)
        /\ step \in Preparing \union {"idle"} => outbox = << >> /\ sent = 0
        /\ step = "built" => Len(outbox) = 1 /\ sent = 0
    BY DEF WalletInv, WorldInv
  <1>2. Counted \in {commands - 1, commands} /\ (step \notin Preparing => Counted = commands)
    BY DEF Counted
  <1>3. /\ ChainOK(chain) /\ OutboxOK(chain, outbox, sent, commands) /\ Len(outbox) \in Nat
        /\ sent \in 0 .. Len(outbox)
    BY <1>1, LenProperties DEF World, OutboxOK
  <1> HIDE DEF w
  <1>4. CASE Load
    <2>1. /\ chain' = chain /\ mempool' = mempool /\ clock' = clock /\ outbox' = << >> /\ sent' = 0
          /\ step' = "loaded" /\ commands' = commands + 1 /\ outbox = << >> /\ sent = 0
          /\ Counted = commands
      BY <1>1, <1>2, <1>4 DEF Load, chain_vars, Preparing
    <2>2. World(chain, mempool, << >>, 0, commands + 1, commands) BY <1>1, <2>1, NumberTaken
    <2>3. Counted' = commands BY <1>1, <2>1 DEF Counted, Preparing
    <2>4. World(chain, mempool, outbox, sent, commands, Counted)' BY <2>1, <2>2, <2>3
    <2> QED BY <1>1, <2>1, <2>4 DEF WorldInv, Steps
  <1>5. ASSUME step \in Preparing, step' \in Preparing, UNCHANGED <<chain_vars, outbox, sent, commands>>
        PROVE  WorldInv'
    <2>1. Counted' = Counted BY <1>5 DEF Counted
    <2>2. World(chain, mempool, outbox, sent, commands, Counted)' BY <1>1, <1>5, <2>1 DEF chain_vars
    <2> QED BY <1>1, <1>5, <2>2 DEF WorldInv, Steps, Preparing, chain_vars
  <1>6. CASE RequestBlocks BY <1>5, <1>6 DEF RequestBlocks, Preparing
  <1>7. CASE ScanNext BY <1>5, <1>7 DEF ScanNext, Preparing
  <1>8. CASE FinishSync BY <1>5, <1>8 DEF FinishSync, Preparing
  <1>9. ASSUME NEW r \in Requests, Build(r) PROVE WorldInv'
    <2>1. World(chain, mempool, outbox', 0, commands, commands) /\ Len(outbox') = 1 BY <1>1, <1>9, BuildStep
    <2>2. /\ chain' = chain /\ mempool' = mempool /\ clock' = clock /\ sent' = 0 /\ step' = "built"
          /\ commands' = commands
      BY <1>9 DEF Build, chain_vars
    <2>3. Counted' = commands BY <2>2 DEF Counted, Preparing
    <2>4. World(chain, mempool, outbox, sent, commands, Counted)' BY <2>1, <2>2, <2>3
    <2> QED BY <1>1, <2>1, <2>2, <2>4 DEF WorldInv, Steps, Preparing
  <1>10. CASE BuildSweep
    <2>1. World(chain, mempool, outbox', 0, commands, commands) BY <1>1, <1>10, SweepStep
    <2>2. /\ chain' = chain /\ mempool' = mempool /\ clock' = clock /\ sent' = 0 /\ step' = "sweeping"
          /\ commands' = commands
      BY <1>10 DEF BuildSweep, chain_vars
    <2>3. Counted' = commands BY <2>2 DEF Counted, Preparing
    <2>4. World(chain, mempool, outbox, sent, commands, Counted)' BY <2>1, <2>2, <2>3
    <2> QED BY <1>1, <2>2, <2>4 DEF WorldInv, Steps, Preparing
  <1>11. step \in {"built", "sweeping"} /\ sent < Len(outbox) =>
           /\ w(mempool \union {outbox[sent + 1]}, outbox, sent + 1)
           /\ w(mempool, outbox, sent + 1)
    <2>1. step \in {"built", "sweeping"} => Counted = commands BY <1>2 DEF Preparing
    <2>2. sent \in Nat BY <1>3
    <2> QED BY <1>1, <2>1, <2>2, OneSubmitted DEF w
  <1>12. CASE Submit
    <2>1. /\ chain' = chain /\ clock' = clock /\ sent' = 1 /\ step' = "accepted" /\ outbox' = outbox
          /\ commands' = commands /\ mempool' = mempool \union {outbox[1]} /\ step = "built"
      BY <1>12 DEF Submit
    <2>2. sent < Len(outbox) /\ sent + 1 = 1 BY <1>1, <2>1
    <2>3. w(mempool', outbox, 1) BY <1>11, <2>1, <2>2
    <2>4. Counted' = commands BY <2>1 DEF Counted, Preparing
    <2>5. World(chain, mempool, outbox, sent, commands, Counted)' BY <2>1, <2>3, <2>4 DEF w
    <2> QED BY <1>1, <2>1, <2>5 DEF WorldInv, Steps, Preparing
  <1>13. CASE SubmitFails
    <2>1. /\ Ends /\ step = "built"
          /\ mempool' = mempool \/ mempool' = mempool \union {outbox[1]}
      BY <1>13 DEF SubmitFails
    <2>2. sent < Len(outbox) /\ sent + 1 = 1 BY <1>1, <2>1
    <2>3. w(mempool', outbox, 1) BY <1>11, <2>1, <2>2
    <2> QED BY <1>1, <2>1, <2>3, EndsWorld DEF w
  <1>14. ASSUME Ends, mempool' = mempool PROVE WorldInv'
    BY <1>1, <1>2, <1>14, EndsWorld
  <1>15. CASE Save BY <1>14, <1>15 DEF Save
  <1>16. CASE FinishSweep BY <1>14, <1>16 DEF FinishSweep
  <1>17. CASE Exit BY <1>14, <1>17 DEF Exit
  <1>18. CASE SubmitSweep
    <2>1. /\ chain' = chain /\ clock' = clock /\ sent' = sent + 1 /\ step' = step /\ outbox' = outbox
          /\ commands' = commands /\ step = "sweeping" /\ sent < Len(outbox)
          /\ mempool' = mempool \/ mempool' = mempool \union {outbox[sent + 1]}
      BY <1>18 DEF SubmitSweep
    <2>2. w(mempool', outbox, sent + 1) BY <1>11, <2>1
    <2>3. Counted' = commands BY <2>1 DEF Counted, Preparing
    <2>4. World(chain, mempool, outbox, sent, commands, Counted)' BY <2>1, <2>2, <2>3 DEF w
    <2> QED BY <1>1, <2>1, <2>4 DEF WorldInv, Steps, Preparing
  <1>19. ASSUME World(chain, mempool, outbox, sent, commands, Counted)', clock' \in Nat,
                UNCHANGED <<step, outbox, sent, commands>>
         PROVE  WorldInv'
    BY <1>1, <1>19 DEF WorldInv
  <1>20. ASSUME NEW txs \in SUBSET mempool, NEW paid \in {{}, {Pay}}, MakeBlock(txs, paid) PROVE WorldInv'
    <2>1. Counted' = Counted /\ UNCHANGED <<step, outbox, sent, commands>> /\ clock' = clock
      BY <1>20 DEF MakeBlock, command_vars, Counted
    <2>2. chain' = Append(chain, [outputs |-> paid \union PoolOutputs(txs), nullifiers |-> PoolSpends(txs)])
      BY <1>20 DEF MakeBlock, PoolOutputs, PoolSpends
    <2>3. OnChain = NullifiersTo(chain, Len(chain))
      <3>1. DOMAIN chain = 1 .. Len(chain) BY <1>3, LenProperties DEF ChainOK
      <3> QED BY <3>1 DEF OnChain, NullifiersTo
    <2>4. IsPay(Pay, chain) BY <1>3, PayIsPay
    <2>5. \A tx \in txs : tx.spends \intersect NullifiersTo(chain, Len(chain)) = {}
      BY <1>20, <2>3 DEF MakeBlock
    <2>6. mempool' = mempool \ txs BY <1>20 DEF MakeBlock
    <2> DEFINE x == Pay
    <2> HIDE DEF x
    <2>7. IsPay(x, chain) /\ paid \in {{}, {x}} BY <1>20, <2>4 DEF x
    <2>8. World(chain', mempool \ txs, outbox, sent, commands, Counted)
      <3> DEFINE d == Append(chain, [outputs |-> paid \union PoolOutputs(txs), nullifiers |-> PoolSpends(txs)])
                 m == Counted
      <3> HIDE DEF m
      <3>1. World(chain, mempool, outbox, sent, commands, m) BY <1>1 DEF m
      <3>2. World(d, mempool \ txs, outbox, sent, commands, m) BY <2>5, <2>7, <3>1, BlockMade
      <3>3. chain' = d BY <2>2
      <3> HIDE DEF d
      <3> QED BY <3>2, <3>3 DEF m
    <2>9. World(chain, mempool, outbox, sent, commands, Counted)' BY <2>1, <2>6, <2>8
    <2> QED BY <1>1, <1>19, <2>1, <2>9
  <1>21. ASSUME NEW tx \in mempool, DropTx(tx) PROVE WorldInv'
    <2>1. /\ chain' = chain /\ mempool' = mempool \ {tx} /\ clock' = clock /\ Counted' = Counted
          /\ UNCHANGED <<step, outbox, sent, commands>>
      BY <1>21 DEF DropTx, command_vars, Counted
    <2>2. World(chain, mempool \ {tx}, outbox, sent, commands, Counted) BY <1>1, OneDropped
    <2>3. World(chain, mempool, outbox, sent, commands, Counted)' BY <2>1, <2>2
    <2> QED BY <1>1, <1>19, <2>1, <2>3
  <1>22. CASE Tick
    <2>1. /\ chain' = chain /\ mempool' = mempool /\ clock' = clock + 1 /\ Counted' = Counted
          /\ UNCHANGED <<step, outbox, sent, commands>>
      BY <1>22 DEF Tick, command_vars, Counted
    <2>2. World(chain, mempool, outbox, sent, commands, Counted)' BY <1>1, <2>1
    <2>3. clock' \in Nat BY <1>1, <2>1
    <2> QED BY <1>19, <2>1, <2>2, <2>3
  <1>23. CASE UNCHANGED vars
    <2>1. UNCHANGED <<chain, mempool, clock, step, outbox, sent, commands>> /\ Counted' = Counted
      BY <1>23 DEF vars, chain_vars, command_vars, Counted
    <2>2. World(chain, mempool, outbox, sent, commands, Counted)' BY <1>1, <2>1
    <2> QED BY <1>1, <1>19, <2>1, <2>2
  <1> QED BY <1>4, <1>6, <1>7, <1>8, <1>9, <1>10, <1>12, <1>13, <1>15, <1>16, <1>17, <1>18, <1>20, <1>21,
             <1>22, <1>23 DEF Next

\* A sequence over a set is one over a larger set.
LEMMA SeqLarger == ASSUME NEW S, NEW T, NEW q \in Seq(S), S \subseteq T PROVE q \in Seq(T)
  OBVIOUS

\* The two client states, action by action.
LEMMA StatesStep == ASSUME WalletInv, [Next]_vars PROVE StatesInv'
  <1>1. /\ StateOK(chain, file) /\ StateOK(chain, mem) /\ end_height \in Int /\ end_height < Len(chain)
        /\ WorldInv /\ StatesInv /\ clock \in Int
    BY DEF WalletInv, StatesInv, WorldInv
  <1>2. ChainOK(chain) BY <1>1 DEF WorldInv, World
  <1>3. Len(chain) \in Nat /\ Len(chain) > 0 BY <1>2, LenProperties, EmptySeq DEF ChainOK
  <1>4. StateOK(chain, NewClientState) BY <1>2, NewStateOK
  <1>5. ASSUME Ends, file' \in {file, mem} PROVE StatesInv'
    <2>1. chain' = chain /\ mem' = NewClientState /\ end_height' = 0 BY <1>5 DEF Ends
    <2> QED BY <1>1, <1>3, <1>4, <1>5, <2>1 DEF StatesInv
  <1>6. ASSUME UNCHANGED <<chain, file, mem, end_height>> PROVE StatesInv'
    BY <1>1, <1>6 DEF StatesInv
  <1>7. ASSUME StateOK(chain, mem'), UNCHANGED <<chain, end_height>>, file' \in {file, mem'}
        PROVE  StatesInv'
    BY <1>1, <1>7 DEF StatesInv
  <1>8. CASE Load
    <2>1. StateOK(chain, PruneTimeouts(file)) BY <1>1, PruneOK
    <2> QED BY <1>7, <1>8, <2>1 DEF Load, chain_vars
  <1>9. CASE RequestBlocks
    <2>1. chain' = chain /\ file' = file /\ mem' = mem /\ end_height' = Len(chain) - 1
      BY <1>9 DEF RequestBlocks, chain_vars, Height
    <2>2. end_height' \in Int /\ end_height' < Len(chain) BY <1>3, <2>1
    <2> QED BY <1>1, <2>1, <2>2 DEF StatesInv
  <1>10. CASE ScanNext
    <2>1. /\ mem' = ScanBlock(mem, chain[mem.last_block_height + 2]) /\ UNCHANGED <<chain, end_height>>
          /\ file' \in {file, mem'} /\ mem.last_block_height + 1 < end_height
      BY <1>10 DEF ScanNext, chain_vars
    <2>2. mem.last_block_height \in Int BY <1>1 DEF StateOK, ClientStates
    <2>3. mem.last_block_height + 2 <= Len(chain) BY <1>1, <1>3, <2>1, <2>2
    <2>4. StateOK(chain, mem') BY <1>1, <1>2, <2>1, <2>3, ScanOK
    <2> QED BY <1>7, <2>1, <2>4
  <1>11. CASE FinishSync
    <2>1. StateOK(chain, PruneTimeouts(mem)) BY <1>1, PruneOK
    <2> QED BY <1>7, <1>11, <2>1 DEF FinishSync, chain_vars
  <1>12. ASSUME NEW r \in Requests, Build(r) PROVE StatesInv'
    <2>1. StateOK(chain, mem') BY <1>1, <1>12, BuildStep
    <2> QED BY <1>7, <1>12, <2>1 DEF Build, chain_vars
  <1>13. CASE Submit BY <1>6, <1>13 DEF Submit
  <1>14. CASE SubmitFails BY <1>5, <1>14 DEF SubmitFails
  <1>15. CASE Save BY <1>5, <1>15 DEF Save
  <1>16. CASE BuildSweep BY <1>6, <1>16 DEF BuildSweep, chain_vars
  <1>17. CASE SubmitSweep BY <1>6, <1>17 DEF SubmitSweep
  <1>18. CASE FinishSweep BY <1>5, <1>18 DEF FinishSweep
  <1>19. CASE Exit BY <1>5, <1>19 DEF Exit
  <1>20. ASSUME NEW txs \in SUBSET mempool, NEW paid \in {{}, {Pay}}, MakeBlock(txs, paid) PROVE StatesInv'
    <2>1. UNCHANGED <<file, mem, end_height>> BY <1>20 DEF MakeBlock, command_vars
    <2> DEFINE b == [outputs |-> paid \union UNION {tx.outputs : tx \in txs},
                     nullifiers |-> UNION {tx.spends : tx \in txs}]
    <2>2. chain' = Append(chain, b) BY <1>20 DEF MakeBlock
    <2>3. ChainOK(chain') BY WorldStep DEF WorldInv, World
    <2>4. /\ Len(chain') = Len(chain) + 1
          /\ \A i \in 1 .. Len(chain) : chain'[i] = chain[i]
      <3> HIDE DEF b
      <3>1. chain \in Seq(Blocks) BY <1>2 DEF ChainOK
      <3>2. chain \in Seq(Blocks \union {b}) /\ b \in Blocks \union {b}
        BY <3>1, SeqLarger
      <3> QED BY <2>2, <3>2, AppendProperties
    <2> HIDE DEF b
    <2>5. Len(chain') \in Nat /\ Len(chain) <= Len(chain') BY <1>3, <2>4
    <2>6. StateOK(chain', file) /\ StateOK(chain', mem) BY <1>1, <1>3, <2>4, <2>5, LongerChain
    <2>7. end_height < Len(chain') BY <1>1, <1>3, <2>4
    <2> QED BY <1>1, <2>1, <2>6, <2>7 DEF StatesInv
  <1>21. ASSUME NEW tx \in mempool, DropTx(tx) PROVE StatesInv' BY <1>6, <1>21 DEF DropTx, command_vars
  <1>22. CASE Tick BY <1>6, <1>22 DEF Tick, command_vars
  <1>23. CASE UNCHANGED vars BY <1>6, <1>23 DEF vars, chain_vars, command_vars
  <1> QED BY <1>8, <1>9, <1>10, <1>11, <1>12, <1>13, <1>14, <1>15, <1>16, <1>17, <1>18, <1>19, <1>20, <1>21,
             <1>22, <1>23 DEF Next

\* What is registered, action by action.
LEMMA RegisteredStep == ASSUME WalletInv, [Next]_vars PROVE RegisteredInv'
  <1> DEFINE Kept(s, e) == Remembers(s, e) \/ clock > e.timeout
  <1>1. /\ StateOK(chain, file) /\ StateOK(chain, mem) /\ WorldInv /\ StatesInv /\ clock \in Int
        /\ ChainOK(chain) /\ step \in Steps
    BY DEF WalletInv, StatesInv, WorldInv, World
  <1>2. /\ registered \subseteq Entry /\ \A e \in registered : Kept(file, e) /\ (step # "idle" => Kept(mem, e))
        /\ \A i \in DOMAIN outbox, e \in registered : e.note \in outbox[i].spends => clock > e.timeout
    BY DEF WalletInv, RegisteredInv, NoSecondAttempt
  <1> HIDE DEF Kept
  <1>3. ASSUME Ends, file' \in {file, mem}, step # "idle", registered' = registered PROVE RegisteredInv'
    <2>1. clock' = clock /\ step' = "idle" /\ outbox' = << >> BY <1>3 DEF Ends
    <2>2. DOMAIN << >> = {} OBVIOUS
    <2>3. \A e \in registered : Remembers(file', e) \/ clock > e.timeout BY <1>2, <1>3 DEF Kept
    <2> QED BY <1>2, <1>3, <2>1, <2>2, <2>3 DEF RegisteredInv, NoSecondAttempt
  <1>4. ASSUME UNCHANGED <<clock, file, mem, registered, outbox>>, step # "idle" PROVE RegisteredInv'
    BY <1>2, <1>4 DEF RegisteredInv, NoSecondAttempt, Kept
  <1>5. ASSUME UNCHANGED <<clock, registered, outbox>>, \A e \in registered : Kept(mem', e),
               file' \in {file, mem'}
        PROVE  RegisteredInv'
    <2>1. \A e \in registered : Kept(file', e) BY <1>2, <1>5
    <2> QED BY <1>2, <1>5, <2>1 DEF RegisteredInv, NoSecondAttempt, Kept
  <1>6. \A e : Kept(file, e) => Kept(PruneTimeouts(file), e) BY <1>1, PruneOK DEF Kept
  <1>7. \A e : Kept(mem, e) => Kept(PruneTimeouts(mem), e) BY <1>1, PruneOK DEF Kept
  <1>8. CASE Load BY <1>2, <1>5, <1>6, <1>8 DEF Load, chain_vars
  <1>9. CASE RequestBlocks BY <1>4, <1>9 DEF RequestBlocks, chain_vars
  <1>10. CASE ScanNext
    <2>1. /\ mem' = ScanBlock(mem, chain[mem.last_block_height + 2]) /\ file' \in {file, mem'}
          /\ UNCHANGED <<clock, registered, outbox>>
          /\ mem.last_block_height + 1 < end_height /\ step = "syncing"
      BY <1>10 DEF ScanNext, chain_vars
    <2>2. mem.last_block_height \in Int /\ end_height \in Int /\ end_height < Len(chain) /\ Len(chain) \in Nat
      BY <1>1, LenProperties DEF StateOK, ClientStates, StatesInv, ChainOK
    <2>3. mem.last_block_height + 2 <= Len(chain) BY <2>1, <2>2
    <2>4. \A e : Remembers(mem, e) => Remembers(mem', e) BY <1>1, <2>1, <2>3, ScanOK
    <2> QED BY <1>2, <1>5, <2>1, <2>4 DEF Kept
  <1>11. CASE FinishSync
    <2>1. \A e \in registered : Kept(mem', e) BY <1>2, <1>7, <1>11 DEF FinishSync
    <2> QED BY <1>5, <1>11, <2>1 DEF FinishSync, chain_vars
  <1>12. ASSUME step = "synced", UNCHANGED <<clock, file, registered>>, outbox' \in Seq(Txs),
                \A e : Remembers(mem, e) => Remembers(mem', e),
                \A e : Remembers(mem, e) => \A i \in 1 .. Len(outbox') : e.note \notin outbox'[i].spends
         PROVE  RegisteredInv'
    <2>1. DOMAIN outbox' = 1 .. Len(outbox') BY <1>12, LenProperties
    <2>2. \A e \in registered : Remembers(mem, e) \/ clock > e.timeout BY <1>2, <1>12 DEF Kept
    <2>3. \A e \in registered : Remembers(file, e) \/ clock > e.timeout BY <1>2 DEF Kept
    <2>4. \A i \in DOMAIN outbox', e \in registered : e.note \in outbox'[i].spends => clock > e.timeout
      BY <1>12, <2>1, <2>2
    <2>5. NoSecondAttempt' BY <1>12, <2>4 DEF NoSecondAttempt
    <2> QED BY <1>2, <1>12, <2>2, <2>3, <2>5 DEF RegisteredInv
  <1>13. ASSUME NEW r \in Requests, Build(r) PROVE RegisteredInv'
    <2>1. /\ World(chain, mempool, outbox', 0, commands, commands)
          /\ \A e : Remembers(mem, e) => Remembers(mem', e)
          /\ \A e : Remembers(mem, e) => \A i \in 1 .. Len(outbox') : e.note \notin outbox'[i].spends
      BY <1>1, <1>13, BuildStep
    <2>2. outbox' \in Seq(Txs) BY <2>1 DEF World, OutboxOK
    <2> QED BY <1>12, <1>13, <2>1, <2>2 DEF Build, chain_vars
  <1>14. CASE BuildSweep
    <2>1. /\ World(chain, mempool, outbox', 0, commands, commands)
          /\ \A e : Remembers(mem, e) => \A i \in 1 .. Len(outbox') : e.note \notin outbox'[i].spends
      BY <1>1, <1>14, SweepStep
    <2>2. outbox' \in Seq(Txs) BY <2>1 DEF World, OutboxOK
    <2>3. mem' = mem BY <1>14 DEF BuildSweep
    <2> QED BY <1>12, <1>14, <2>1, <2>2, <2>3 DEF BuildSweep, chain_vars
  <1>15. CASE Submit BY <1>4, <1>15 DEF Submit
  <1>16. CASE SubmitFails BY <1>3, <1>16 DEF SubmitFails
  <1>17. CASE Save
    <2>1. /\ clock' = clock /\ step' = "idle" /\ outbox' = << >> /\ file' = mem
          /\ registered' = registered \union mem.submitted_spend_set /\ step # "idle"
      BY <1>17 DEF Save, Ends
    <2>2. DOMAIN << >> = {} OBVIOUS
    <2>3. mem.submitted_spend_set \subseteq Entry BY <1>1 DEF StateOK, ClientStates
    <2>4. \A e \in registered' : Remembers(file', e) \/ clock > e.timeout
      BY <1>2, <2>1 DEF Kept, Remembers
    <2> QED BY <1>2, <2>1, <2>2, <2>3, <2>4 DEF RegisteredInv, NoSecondAttempt
  <1>18. CASE SubmitSweep BY <1>4, <1>18 DEF SubmitSweep
  <1>19. CASE FinishSweep BY <1>3, <1>19 DEF FinishSweep
  <1>20. CASE Exit BY <1>3, <1>20 DEF Exit
  <1>21. ASSUME UNCHANGED <<clock, file, mem, registered, outbox, step>> PROVE RegisteredInv'
    BY <1>2, <1>21 DEF RegisteredInv, NoSecondAttempt, Kept
  <1>22. ASSUME NEW txs \in SUBSET mempool, NEW paid \in {{}, {Pay}}, MakeBlock(txs, paid)
         PROVE  RegisteredInv'
    BY <1>21, <1>22 DEF MakeBlock, command_vars
  <1>23. ASSUME NEW tx \in mempool, DropTx(tx) PROVE RegisteredInv' BY <1>21, <1>23 DEF DropTx, command_vars
  <1>24. CASE Tick
    <2>1. clock' = clock + 1 /\ UNCHANGED <<file, mem, registered, outbox, step>>
      BY <1>24 DEF Tick, command_vars
    <2>2. \A e \in registered : e.timeout \in Int BY <1>2 DEF Entry
    <2>3. \A e \in registered : clock > e.timeout => clock' > e.timeout BY <1>1, <2>1, <2>2
    <2> QED BY <1>2, <2>1, <2>3 DEF RegisteredInv, NoSecondAttempt, Kept
  <1>25. CASE UNCHANGED vars BY <1>21, <1>25 DEF vars, chain_vars, command_vars
  <1> QED BY <1>8, <1>9, <1>10, <1>11, <1>13, <1>14, <1>15, <1>16, <1>17, <1>18, <1>19, <1>20, <1>22, <1>23,
             <1>24, <1>25 DEF Next

-----------------------------------------------------------------------------
(* Theorems                                                                *)

\* The invariant holds in every reachable state.
THEOREM WalletInvariant == Spec => []WalletInv
  <1>1. Init => WalletInv BY WalletInit
  <1>2. WalletInv /\ [Next]_vars => WalletInv' BY WorldStep, StatesStep, RegisteredStep DEF WalletInv
  <1> QED BY <1>1, <1>2, PTL DEF Spec

\* No note is lost or resurrected by timeouts, lost answers and crashes
\* (scan_block, register_spend, prune_timeouts).
THEOREM NotesStayAccounted == Spec => []NotesAccounted
  <1>1. ASSUME WalletInv PROVE NotesAccounted
    <2> SUFFICES ASSUME NEW s \in {file, mem}
                 PROVE  /\ s.spent_set = Spent(s)
                        /\ s.unspent_set \union Notes(s.submitted_spend_set) = Received(s) \ Spent(s)
                        /\ s.unspent_set \intersect Notes(s.submitted_spend_set) = {}
      BY DEF NotesAccounted
    <2>1. StateOK(chain, s) BY <1>1 DEF WalletInv, StatesInv
    <2>2. Received(s) = ReceivedTo(chain, s.last_block_height + 1)
      BY DEF Received, ReceivedTo, OutputsTo, Scanned
    <2>3. Spent(s) = SpentTo(chain, s.last_block_height + 1)
      BY <2>2 DEF Spent, SpentTo, NullifiersTo, Scanned
    <2> QED BY <2>1, <2>2, <2>3 DEF StateOK
  <1> QED BY <1>1, WalletInvariant, PTL

\* Change is expected or received, never both (register_change, scan_block).
THEOREM ChangeIsCountedOnce == Spec => []ChangeCountedOnce
  <1>1. ASSUME WalletInv PROVE ChangeCountedOnce
    <2> SUFFICES ASSUME NEW s \in {file, mem} PROVE Notes(s.submitted_change_set) \intersect Received(s) = {}
      BY DEF ChangeCountedOnce
    <2>1. StateOK(chain, s) BY <1>1 DEF WalletInv, StatesInv
    <2>2. Received(s) = ReceivedTo(chain, s.last_block_height + 1)
      BY DEF Received, ReceivedTo, OutputsTo, Scanned
    <2> QED BY <2>1, <2>2 DEF StateOK
  <1> QED BY <1>1, WalletInvariant, PTL

\* add_spend finds the path of every note that is ready or may become so.
THEOREM SpendableKeepPath == Spec => []SpendableHavePath
  <1>1. ASSUME WalletInv PROVE SpendableHavePath
    BY <1>1 DEF WalletInv, StatesInv, StateOK, SpendableHavePath
  <1> QED BY <1>1, WalletInvariant, PTL

\* Every transaction that a command builds balances, at every rate (Builder::finalize).
THEOREM BuiltTransactionsBalance == Spec => []BuildsBalance
  <1>1. ASSUME WalletInv PROVE BuildsBalance
    <2>1. OutboxOK(chain, outbox, sent, commands) BY <1>1 DEF WalletInv, WorldInv, World
    <2>2. DOMAIN outbox = 1 .. Len(outbox) BY <2>1, LenProperties DEF OutboxOK
    <2> QED BY <2>1, <2>2 DEF OutboxOK, Balanced, BuildsBalance
  <1> QED BY <1>1, WalletInvariant, PTL

\* A spend that was registered and saved is not attempted again before it
\* times out, in whatever order commands run, die and the chain answers.
THEOREM SpendsAreAttemptedOnce == Spec => []NoSecondAttempt
  <1>1. ASSUME WalletInv PROVE NoSecondAttempt BY <1>1 DEF WalletInv, RegisteredInv
  <1> QED BY <1>1, WalletInvariant, PTL
==============================================================================
