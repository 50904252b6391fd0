------------------------- MODULE UptimeTrackerProofs -------------------------
(***************************************************************************)
(* The stored ring buffer implements the sliding window, for every window  *)
(* length and every number of blocks, and counts its misses.               *)
(***************************************************************************)
EXTENDS UptimeTracker, Arithmetic, TLAPS

\* The stored tracker is the encoding of a tracker over the window.
TrackerType == \E u \in UptimeOver(WindowLen) : stored = Encode(u)

\* The byte buffer has room for the window.
LEMMA BufferHolds == BufferLen(WindowLen) \in Nat /\ BufferLen(WindowLen) >= WindowLen
  <1> DEFINE n == WindowLen + ByteBits - 1
             q == n \div ByteBits
  <1>1. n \in Nat BY TrackerAssumption
  <1>2. q \in Int /\ n < ByteBits * q + ByteBits
    <2> HIDE DEF n
    <2> QED BY <1>1, TrackerAssumption, DivBounds
  <1>3. q \in Nat
    <2> HIDE DEF n
    <2> QED BY <1>1, TrackerAssumption, DivType
  <1> DEFINE p == q * ByteBits
  <1>4. p \in Nat /\ n < p + ByteBits
    <2> HIDE DEF q, n
    <2> QED BY <1>2, <1>3, TrackerAssumption DEF p
  <1>5. BufferLen(WindowLen) = p BY DEF BufferLen
  <1> HIDE DEF p
  <1> QED BY <1>4, <1>5, TrackerAssumption

\* Truncating to the window length takes away what encoding added.
LEMMA DecodeEncode ==
  ASSUME NEW u \in UptimeOver(WindowLen) PROVE Decode(Encode(u)) = u
  <1> DEFINE b == BufferLen(WindowLen)
  <1>1. b \in Nat /\ b >= WindowLen BY BufferHolds
  <1> HIDE DEF b
  <1>2. \A i \in 0 .. WindowLen - 1 : i \in 0 .. b - 1 BY <1>1, TrackerAssumption
  <1>3. \A i \in 0 .. WindowLen - 1 : Encode(u).bitvec[i] = u.signatures[i]
    <2>1. Encode(u).bitvec = [i \in 0 .. b - 1 |-> IF i < WindowLen THEN u.signatures[i] ELSE TRUE]
      BY DEF Encode, b
    <2>2. \A i \in 0 .. WindowLen - 1 : i < WindowLen BY TrackerAssumption
    <2> QED BY <1>2, <2>1, <2>2, Zenon
  <1>4. u.signatures = [i \in 0 .. WindowLen - 1 |-> u.signatures[i]] BY DEF UptimeOver
  <1>5. Decode(Encode(u)).signatures = u.signatures
    BY <1>3, <1>4 DEF Decode, Encode
  <1>6. Decode(Encode(u)).as_of_block_height = u.as_of_block_height BY DEF Decode, Encode
  <1>7. u = [as_of_block_height |-> u.as_of_block_height, signatures |-> u.signatures] BY DEF UptimeOver
  <1>8. Decode(Encode(u)) = [as_of_block_height |-> Decode(Encode(u)).as_of_block_height,
                             signatures |-> Decode(Encode(u)).signatures]
    BY DEF Decode
  <1> QED BY <1>5, <1>6, <1>7, <1>8

\* Marking the next block shifts the window by one.
LEMMA MarkShifts ==
  ASSUME NEW u \in UptimeOver(WindowLen), NEW signed \in BOOLEAN,
         NEW h, IsNextHeight(u, h), NEW i \in 1 .. WindowLen
  PROVE  Oldest(MarkHeightAsSigned(u, h, signed, WindowLen))[i] =
           IF i = WindowLen THEN signed ELSE Oldest(u)[i + 1]
  <1> DEFINE W == WindowLen
             a == u.as_of_block_height
             m == MarkHeightAsSigned(u, h, signed, WindowLen)
  <1>1. W \in Nat \ {0} /\ a \in Nat BY TrackerAssumption DEF UptimeOver
  <1>2. h = a + 1 /\ h \in Nat BY <1>1 DEF IsNextHeight
  <1>3. u.signatures \in [0 .. W - 1 -> BOOLEAN] BY DEF UptimeOver
  <1>4. m.as_of_block_height = h BY DEF MarkHeightAsSigned
  <1>5. m.signatures = [u.signatures EXCEPT ![h % W] = signed] BY DEF MarkHeightAsSigned
  <1>6. Oldest(m)[i] = m.signatures[(h + i) % W] BY <1>4 DEF Oldest
  <1>7. h % W \in 0 .. W - 1 /\ (h + i) % W \in 0 .. W - 1
    <2>1. h + i \in Nat BY <1>1, <1>2
    <2> QED BY <1>1, <1>2, <2>1, ModRange
  <1>8. CASE i = W
    <2>1. (h + i) % W = h % W BY <1>1, <1>2, <1>8, ModTurn
    <2>2. m.signatures[h % W] = signed BY <1>3, <1>5, <1>7
    <2> QED BY <1>6, <1>8, <2>1, <2>2
  <1>9. CASE i # W
    <2>1. i \in 1 .. W - 1 /\ i + 1 \in 1 .. W BY <1>1, <1>9
    <2>2. (h + i) % W # h % W BY <1>1, <1>2, <2>1, ModDistinct
    <2>3. m.signatures[(h + i) % W] = u.signatures[(h + i) % W] BY <1>3, <1>5, <1>7, <2>2
    <2>4. h + i = a + (i + 1) BY <1>1, <1>2
    <2>5. Oldest(u)[i + 1] = u.signatures[(a + (i + 1)) % W] BY <2>1 DEF Oldest
    <2> QED BY <1>6, <1>9, <2>3, <2>4, <2>5
  <1> QED BY <1>8, <1>9

\* A marked tracker is a tracker.
LEMMA MarkType ==
  ASSUME NEW u \in UptimeOver(WindowLen), NEW signed \in BOOLEAN, NEW h, IsNextHeight(u, h)
  PROVE  MarkHeightAsSigned(u, h, signed, WindowLen) \in UptimeOver(WindowLen)
  <1>1. h \in Nat BY DEF UptimeOver, IsNextHeight
  <1>2. h % WindowLen \in 0 .. WindowLen - 1 BY <1>1, TrackerAssumption, ModRange
  <1>3. [u.signatures EXCEPT ![h % WindowLen] = signed] \in [0 .. WindowLen - 1 -> BOOLEAN]
    BY <1>2 DEF UptimeOver
  <1> QED BY <1>1, <1>3 DEF UptimeOver, MarkHeightAsSigned

\* A new tracker, stored and read back, is a window in which every block was signed.
LEMMA TrackerInit == Init => TrackerType /\ Window!Init
  <1> SUFFICES ASSUME Init PROVE TrackerType /\ Window!Init OBVIOUS
  <1> DEFINE u == NewUptime(InitialHeight, WindowLen)
  <1>1. u \in UptimeOver(WindowLen) BY TrackerAssumption DEF NewUptime, UptimeOver
  <1>2. stored = Encode(u) BY DEF Init
  <1>3. Decode(stored) = u BY <1>1, <1>2, DecodeEncode
  <1>4. \A i \in 1 .. WindowLen : (InitialHeight + i) % WindowLen \in 0 .. WindowLen - 1
    BY TrackerAssumption, ModRange
  <1>5. Decode(stored).as_of_block_height = InitialHeight BY <1>3 DEF NewUptime
  <1>6. Oldest(Decode(stored)) = [i \in 1 .. WindowLen |-> TRUE]
    <2>1. u.as_of_block_height = InitialHeight /\ u.signatures = [i \in 0 .. WindowLen - 1 |-> TRUE]
      BY DEF NewUptime
    <2>2. \A i \in 1 .. WindowLen : u.signatures[(u.as_of_block_height + i) % WindowLen] = TRUE
      BY <1>4, <2>1
    <2> HIDE DEF u
    <2> QED BY <1>3, <2>2 DEF Oldest
  <1> QED BY <1>1, <1>2, <1>5, <1>6 DEF Init, TrackerType, Window!Init

\* Every step of the stored tracker is a step of the window.
LEMMA TrackerStep ==
  ASSUME TrackerType, [Next]_vars
  PROVE  TrackerType' /\ [Window!Next]_<<vote, Decode(stored).as_of_block_height, Oldest(Decode(stored))>>
  <1>1. CASE UNCHANGED vars
    <2>0. UNCHANGED stored /\ UNCHANGED vote BY <1>1 DEF vars
    <2>1. TrackerType' BY <2>0 DEF TrackerType, Encode
    <2>2. Decode(stored)' = Decode(stored) BY <2>0 DEF Decode
    <2>3. Oldest(Decode(stored))' = Oldest(Decode(stored)) BY <2>2 DEF Oldest
    <2> QED BY <2>0, <2>1, <2>2, <2>3
  <1>2. CASE Next
    <2>1. PICK h \in 0 .. MaxHeight, signed \in BOOLEAN : Track(h, signed) BY <1>2 DEF Next
    <2>2. PICK u \in UptimeOver(WindowLen) : stored = Encode(u) BY DEF TrackerType
    <2> DEFINE m == MarkHeightAsSigned(u, h, signed, WindowLen)
    <2>3. Decode(stored) = u BY <2>2, DecodeEncode
    <2>4. IsNextHeight(u, h) /\ stored' = Encode(m) /\ vote' = signed BY <2>1, <2>3 DEF Track
    <2>5. m \in UptimeOver(WindowLen) BY <2>4, MarkType
    <2>6. Decode(stored)' = m
      <3>1. Decode(stored') = m BY <2>4, <2>5, DecodeEncode
      <3> QED BY <3>1 DEF Decode
    <2>7. Decode(stored)'.as_of_block_height = Decode(stored).as_of_block_height + 1
      BY <2>3, <2>4, <2>6 DEF IsNextHeight, MarkHeightAsSigned
    <2>8. \A i \in 1 .. WindowLen :
            Oldest(m)[i] = IF i = WindowLen THEN signed ELSE Oldest(u)[i + 1]
      BY <2>4, MarkShifts
    <2>9. Oldest(m) = [i \in 1 .. WindowLen |-> IF i = WindowLen THEN signed ELSE Oldest(u)[i + 1]]
      BY <2>8 DEF Oldest
    <2>10. Oldest(Decode(stored))' = Oldest(m) BY <2>6 DEF Oldest
    <2>11. Window!Record(signed) BY <2>3, <2>4, <2>7, <2>9, <2>10 DEF Window!Record
    <2>12. TrackerType' BY <2>4, <2>5 DEF TrackerType, Encode
    <2> QED BY <2>11, <2>12 DEF Window!Next
  <1> QED BY <1>1, <1>2

\* The tracker implements the sliding window it stands for, whatever the
\* window length and the byte size: the bit for a block is overwritten exactly
\* WindowLen blocks later, and the round trip through the protobuf loses nothing.
THEOREM TrackerImplementsWindow == Spec => ImplementsWindow
  <1>1. Init => TrackerType /\ Window!Init BY TrackerInit
  <1>2. TrackerType /\ [Next]_vars
          => TrackerType' /\ [Window!Next]_<<vote, Decode(stored).as_of_block_height, Oldest(Decode(stored))>>
    BY TrackerStep
  <1> QED BY <1>1, <1>2, PTL DEF Spec, ImplementsWindow, Window!Spec

\* Reading the ring from the oldest block on visits every bit once.
LEMMA RingIsVisitedOnce ==
  ASSUME NEW h \in Nat
  PROVE  [i \in 1 .. WindowLen |-> (h + i) % WindowLen] \in Bijection(1 .. WindowLen, 0 .. WindowLen - 1)
  <1> DEFINE W == WindowLen
             A == 1 .. W
             B == 0 .. W - 1
             f == [i \in A |-> (h + i) % W]
  <1>1. W \in Nat \ {0} BY TrackerAssumption
  <1>2. \A i \in A : (h + i) % W \in B
    <2>1. \A i \in A : h + i \in Nat BY <1>1
    <2> QED BY <1>1, <2>1, ModRange
  <1>3. f \in [A -> B] BY <1>2
  <1>4. ASSUME NEW i \in A, NEW j \in A, i < j PROVE f[i] # f[j]
    <2> DEFINE g == h + i
               k == j - i
    <2>1. g \in Nat /\ k \in 1 .. W - 1 /\ g + k = h + j BY <1>1, <1>4
    <2> HIDE DEF g, k
    <2>2. (g + k) % W # g % W BY <1>1, <2>1, ModDistinct
    <2>3. f[i] = g % W /\ f[j] = (g + k) % W BY <2>1 DEF g
    <2> QED BY <2>2, <2>3
  <1>5. \A i, j \in A : f[i] = f[j] => i = j
    <2>1. \A i, j \in A : i = j \/ i < j \/ j < i BY <1>1
    <2> HIDE DEF f
    <2> QED BY <1>4, <2>1
  <1> HIDE DEF f
  <1>6. f \in Injection(A, B) BY <1>3, <1>5 DEF Injection, IsInjective
  <1>7. IsFiniteSet(A) /\ Cardinality(A) = W
    <2>1. 1 \in Int /\ W \in Int /\ ~(1 > W) /\ W - 1 + 1 = W BY <1>1
    <2> QED BY <2>1, FS_Interval
  <1>8. IsFiniteSet(B) /\ Cardinality(B) = W
    <2> DEFINE v == W - 1
    <2>1. 0 \in Int /\ v \in Int /\ ~(0 > v) /\ v - 0 + 1 = W BY <1>1
    <2>2. IsFiniteSet(0 .. v) /\ Cardinality(0 .. v) = W
      <3> HIDE DEF v
      <3> QED BY <2>1, FS_Interval
    <2> QED BY <2>2
  <1> HIDE DEF A, B
  <1>9. f \in Surjection(A, B) BY <1>6, <1>7, <1>8, FS_Injection
  <1> QED BY <1>6, <1>9 DEF Bijection, f, A, B

\* num_missed_blocks counts the misses of the window, each once, and no
\* padding: whatever the window length and the byte size.
THEOREM MissesAreCounted == Spec => []CountsTheWindow
  <1>1. ASSUME TrackerType PROVE CountsTheWindow
    <2>1. PICK u \in UptimeOver(WindowLen) : stored = Encode(u) BY <1>1 DEF TrackerType
    <2>2. Decode(stored) = u BY <2>1, DecodeEncode
    <2> DEFINE W == WindowLen
               h == u.as_of_block_height
               f == [i \in 1 .. W |-> (h + i) % W]
               S == {i \in 1 .. W : ~Oldest(u)[i]}
               T == {j \in 0 .. W - 1 : ~u.signatures[j]}
               g == [i \in S |-> f[i]]
    <2>3. h \in Nat /\ DOMAIN u.signatures = 0 .. W - 1 BY DEF UptimeOver
    <2>4. f \in Bijection(1 .. W, 0 .. W - 1) BY <2>3, RingIsVisitedOnce
    <2>5. \A i \in 1 .. W : Oldest(u)[i] = u.signatures[f[i]] BY DEF Oldest
    <2>6. NumMissedBlocks(u) = Cardinality(T) BY <2>3 DEF NumMissedBlocks
    <2> HIDE DEF f, h
    <2>7. /\ \A i \in 1 .. W : f[i] \in 0 .. W - 1
          /\ \A i, j \in 1 .. W : f[i] = f[j] => i = j
          /\ \A j \in 0 .. W - 1 : \E i \in 1 .. W : f[i] = j
      BY <2>4 DEF Bijection, Injection, Surjection, IsInjective
    <2>8. g \in Bijection(S, T)
      <3>1. \A i \in S : g[i] = f[i] /\ g[i] \in T BY <2>5, <2>7
      <3>2. DOMAIN g = S /\ g \in [S -> T] BY <3>1
      <3>3. \A j \in T : \E i \in S : g[i] = j
        <4> SUFFICES ASSUME NEW j \in T PROVE \E i \in S : g[i] = j OBVIOUS
        <4>1. PICK i \in 1 .. W : f[i] = j BY <2>7
        <4>2. i \in S BY <2>5, <4>1
        <4> QED BY <3>1, <4>1, <4>2
      <3>4. \A i, j \in S : g[i] = g[j] => i = j BY <2>7, <3>1
      <3> HIDE DEF g, S, T
      <3> QED BY <3>2, <3>3, <3>4 DEF Bijection, Injection, Surjection, IsInjective
    <2>9. IsFiniteSet(S)
      <3>1. 1 \in Int /\ W \in Int BY TrackerAssumption
      <3>2. IsFiniteSet(1 .. W) BY <3>1, FS_Interval
      <3> QED BY <3>2, FS_Subset
    <2> HIDE DEF S, T, g
    <2>10. Cardinality(T) = Cardinality(S) BY <2>8, <2>9, FS_Bijection DEF ExistsBijection
    <2> QED BY <2>2, <2>6, <2>10 DEF CountsTheWindow, S
  <1>2. Init => TrackerType BY TrackerInit
  <1>3. TrackerType /\ [Next]_vars => TrackerType' BY TrackerStep
  <1> QED BY <1>1, <1>2, <1>3, PTL DEF Spec
=============================================================================
