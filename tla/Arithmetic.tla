------------------------------ MODULE Arithmetic ------------------------------
(***************************************************************************)
(* Division and remainder, as the proofs about epochs, rates and ring      *)
(* buffers need them; induction; and sums over finite sets.                *)
(*                                                                         *)
(* The provers are first-order, so induction is stated for sets and not    *)
(* for predicates: from the theorem that every nonempty set has a minimal  *)
(* element in a well-founded order (WFMin).                                *)
(***************************************************************************)
EXTENDS Integers, FiniteSets, Functions, FiniteSetTheorems, TLAPS

\* Division and remainder of the code's unsigned integers.
LEMMA DivType == ASSUME NEW n \in Nat, NEW d \in Nat \ {0} PROVE n \div d \in Nat
  BY SMT

\* A remainder is a natural number.
LEMMA ModType == ASSUME NEW n \in Int, NEW d \in Nat \ {0} PROVE n % d \in Nat
  BY SMT

\* The quotient is the only number between these bounds ...
LEMMA DivUnique ==
  ASSUME NEW n \in Int, NEW d \in Nat \ {0}, NEW q \in Int, d * q <= n, n < d * q + d
  PROVE  n \div d = q
  BY SMT

\* ... and lies between them.
LEMMA DivBounds ==
  ASSUME NEW n \in Int, NEW d \in Nat \ {0}
  PROVE  n \div d \in Int /\ d * (n \div d) <= n /\ n < d * (n \div d) + d
  BY SMT

\* A number is its quotient and its remainder.
LEMMA DivMod ==
  ASSUME NEW n \in Int, NEW d \in Nat \ {0}
  PROVE  n % d \in Int /\ n = d * (n \div d) + (n % d)
  BY SMT

\* A remainder is smaller than the divisor.
LEMMA ModRange ==
  ASSUME NEW n \in Nat, NEW d \in Nat \ {0} PROVE n % d \in 0 .. d - 1
  BY SMT

\* Products by a positive number keep the order.
LEMMA ScaleCancel ==
  ASSUME NEW a \in Int, NEW b \in Int, NEW d \in Nat \ {0}, d * a < d * b + d
  PROVE  a <= b
  BY SMT

\* A full turn of a ring buffer of d entries ends where it began ...
LEMMA ModTurn ==
  ASSUME NEW n \in Nat, NEW d \in Nat \ {0} PROVE (n + d) % d = n % d
  <1> DEFINE q == n \div d
             r == n % d
             q2 == (n + d) \div d
             r2 == (n + d) % d
             p == d * q
  <1>1. q \in Int /\ p <= n /\ n < p + d BY DivBounds
  <1>2. r \in Int /\ r2 \in Int /\ n = p + r /\ n + d = d * q2 + r2 BY DivMod
  <1>3. p \in Int BY <1>1
  <1>4. d * (q + 1) = p + d BY <1>1
  <1>5. q2 = q + 1
    <2>1. q + 1 \in Int /\ d * (q + 1) <= n + d /\ n + d < d * (q + 1) + d
      <3> HIDE DEF p, q
      <3> QED BY <1>1, <1>3, <1>4
    <2> HIDE DEF q
    <2> QED BY <2>1, DivUnique
  <1>6. n + d = (p + d) + r2 BY <1>2, <1>4, <1>5
  <1> HIDE DEF p, r, r2
  <1>7. r2 = r BY <1>2, <1>3, <1>6
  <1> QED BY <1>7 DEF r, r2

\* ... and a shorter way does not.
LEMMA ModDistinct ==
  ASSUME NEW n \in Nat, NEW d \in Nat \ {0}, NEW i \in 1 .. d - 1 PROVE (n + i) % d # n % d
  <1> SUFFICES ASSUME (n + i) % d = n % d PROVE FALSE OBVIOUS
  <1> DEFINE q == n \div d
             q2 == (n + i) \div d
             r == n % d
  <1>1. q \in Int /\ q2 \in Int /\ r \in Int BY DivBounds, DivMod
  <1>2. n = d * q + r /\ n + i = d * q2 + r BY DivMod
  <1> HIDE DEF q, q2, r
  <1>3. i = d * (q2 - q)
    <2>1. d * (q2 - q) = d * q2 - d * q BY <1>1
    <2> DEFINE x == d * q
               y == d * q2
    <2>2. x \in Int /\ y \in Int BY <1>1
    <2>3. n = x + r /\ n + i = y + r BY <1>2
    <2> HIDE DEF x, y
    <2>4. i = y - x BY <1>1, <2>2, <2>3
    <2> QED BY <2>1, <2>4 DEF x, y
  <1>4. CASE q2 - q <= 0
    <2>1. d * (q2 - q) <= 0 BY <1>1, <1>4
    <2> QED BY <1>3, <2>1
  <1>5. CASE q2 - q >= 1
    <2>1. d * (q2 - q) >= d BY <1>1, <1>5
    <2> QED BY <1>3, <2>1
  <1> QED BY <1>1, <1>4, <1>5

-----------------------------------------------------------------------------
(* Induction                                                               *)

\* Every nonempty set of naturals has a least element.
LEMMA NatMin ==
  ASSUME NEW T, T \subseteq Nat, T # {}
  PROVE  \E x \in T : \A y \in T : x <= y
  <1> DEFINE R == {p \in Nat \X Nat : p[1] < p[2]}
  <1>1. IsWellFoundedOn(R, Nat) BY NatLessThanWellFounded DEF OpToRel
  <1>2. \A x, y \in Nat : y < x => <<y, x>> \in R
    <2> TAKE x, y \in Nat
    <2> DEFINE p == <<y, x>>
    <2>1. p \in Nat \X Nat /\ p[1] = y /\ p[2] = x OBVIOUS
    <2> HIDE DEF p
    <2>2. y < x => p \in R BY <2>1
    <2> QED BY <2>2 DEF p
  <1> HIDE DEF R
  <1>3. PICK x \in T : \A y \in T : ~(<<y, x>> \in R) BY <1>1, WFMin
  <1>4. ASSUME NEW y \in T PROVE x <= y
    <2>1. ~(<<y, x>> \in R) BY <1>3
    <2>2. ~(y < x) BY <2>1, <1>2
    <2> QED BY <2>2
  <1> QED BY <1>4

\* Induction, for a set in place of a predicate.
LEMMA NatSetInduction ==
  ASSUME NEW S, 0 \in S, \A n \in Nat : n \in S => n + 1 \in S
  PROVE  \A n \in Nat : n \in S
  <1> SUFFICES ASSUME Nat \ S # {} PROVE FALSE OBVIOUS
  <1>1. PICK x \in Nat \ S : \A y \in Nat \ S : x <= y BY NatMin
  <1>2. x - 1 \in Nat BY <1>1
  <1>3. x - 1 \in S BY <1>1, <1>2
  <1> QED BY <1>2, <1>3

\* Induction on finite sets: a family that has the empty set and, with a set, the
\* set with one more element, has every finite set.
LEMMA FiniteSetInduction ==
  ASSUME NEW S, IsFiniteSet(S), NEW F, {} \in F,
         \A T \in SUBSET S, x \in S : T \in F /\ x \notin T => T \union {x} \in F
  PROVE  S \in F
  <1> DEFINE N == {n \in Nat : \A T \in SUBSET S : Cardinality(T) = n => T \in F}
  <1>1. \A T \in SUBSET S : IsFiniteSet(T) /\ Cardinality(T) \in Nat BY FS_Subset, FS_CardinalityType
  <1>2. 0 \in N BY <1>1, FS_EmptySet
  <1>3. ASSUME NEW n \in Nat, n \in N PROVE n + 1 \in N
    <2> SUFFICES ASSUME NEW T \in SUBSET S, Cardinality(T) = n + 1 PROVE T \in F OBVIOUS
    <2>1. T # {} BY <1>1, FS_EmptySet
    <2>2. PICK x : x \in T BY <2>1
    <2>3. Cardinality(T \ {x}) = n
      <3>1. IsFiniteSet(T) BY <1>1
      <3>2. Cardinality(T \ {x}) = Cardinality(T) - 1 BY <2>2, <3>1, FS_RemoveElement
      <3> QED BY <3>2
    <2>4. T \ {x} \in F BY <1>3, <2>3
    <2>5. (T \ {x}) \union {x} = T BY <2>2
    <2> QED BY <2>2, <2>4, <2>5
  <1> HIDE DEF N
  <1>4. \A n \in Nat : n \in N BY <1>2, <1>3, NatSetInduction
  <1> QED BY <1>1, <1>4 DEF N

-----------------------------------------------------------------------------
(* Sums over finite sets: SumFunctionOnSet is defined by recursion on the  *)
(* subsets of the set, taking out one element after the other.             *)

AnElement(s) == CHOOSE x \in s : TRUE
SumBody(w, S, g) == [s \in SUBSET S |-> IF s = {} THEN 0 ELSE w[AnElement(s)] + g[s \ {AnElement(s)}]]

\* CHOOSE finds an element of a nonempty set.
LEMMA AnElementIn == ASSUME NEW s, s # {} PROVE AnElement(s) \in s
  BY DEF AnElement

\* The recursion has a solution, built up by the size of the subsets.
LEMMA SumExists ==
  ASSUME NEW w, NEW S, IsFiniteSet(S)
  PROVE  \E g : g = SumBody(w, S, g)
  <1> DEFINE Upto(n, g) == \A s \in SUBSET S : Cardinality(s) <= n => g[s] = SumBody(w, S, g)[s]
             N == {n \in Nat : \E g : Upto(n, g)}
  <1>1. \A s \in SUBSET S : IsFiniteSet(s) /\ Cardinality(s) \in Nat BY FS_Subset, FS_CardinalityType
  <1>2. 0 \in N
    <2> DEFINE z == [s \in SUBSET S |-> 0]
    <2>1. Upto(0, z)
      <3> SUFFICES ASSUME NEW s \in SUBSET S, Cardinality(s) <= 0 PROVE z[s] = SumBody(w, S, z)[s] OBVIOUS
      <3>1. s = {} BY <1>1, FS_EmptySet
      <3> QED BY <3>1 DEF SumBody
    <2> HIDE DEF z
    <2> QED BY <2>1
  <1>3. ASSUME NEW n \in Nat, n \in N PROVE n + 1 \in N
    <2>1. PICK g : Upto(n, g) BY <1>3
    <2> DEFINE h == SumBody(w, S, g)
    <2>2. Upto(n + 1, h)
      <3> SUFFICES ASSUME NEW s \in SUBSET S, Cardinality(s) <= n + 1 PROVE h[s] = SumBody(w, S, h)[s] OBVIOUS
      <3>1. CASE s = {} BY <3>1 DEF SumBody
      <3>2. CASE s # {}
        <4> DEFINE t == s \ {AnElement(s)}
        <4>1. Cardinality(t) <= n BY <1>1, <3>2, AnElementIn, FS_RemoveElement
        <4>2. t \in SUBSET S OBVIOUS
        <4>3. g[t] = h[t] BY <2>1, <4>1, <4>2
        <4> HIDE DEF t, h
        <4>4. h[s] = w[AnElement(s)] + g[t] BY <3>2 DEF h, t, SumBody
        <4>5. SumBody(w, S, h)[s] = w[AnElement(s)] + h[t] BY <3>2 DEF t, SumBody
        <4> QED BY <4>3, <4>4, <4>5
      <3> QED BY <3>1, <3>2
    <2> HIDE DEF h
    <2> QED BY <2>2
  <1> HIDE DEF N
  <1>4. Cardinality(S) \in N BY <1>1, <1>2, <1>3, NatSetInduction
  <1>5. PICK g : Upto(Cardinality(S), g) BY <1>4 DEF N
  <1> DEFINE h == SumBody(w, S, g)
  <1>6. \A s \in SUBSET S : Cardinality(s) <= Cardinality(S) BY FS_Subset
  <1>7. \A s \in SUBSET S : g[s] = h[s] BY <1>5, <1>6
  <1>8. h = SumBody(w, S, h)
    <2> HIDE DEF h
    <2>1. \A s \in SUBSET S : s # {} => s \ {AnElement(s)} \in SUBSET S OBVIOUS
    <2>2. \A s \in SUBSET S : s # {} => h[s \ {AnElement(s)}] = g[s \ {AnElement(s)}] BY <1>7, <2>1
    <2>3. SumBody(w, S, h) = SumBody(w, S, g) BY <2>2 DEF SumBody
    <2> QED BY <2>3 DEF h
  <1> HIDE DEF h
  <1> QED BY <1>8

\* SumFunctionOnSet is a solution.
LEMMA SumFunctionDef ==
  ASSUME NEW w, NEW S, IsFiniteSet(S)
  PROVE  \E g : g = SumBody(w, S, g) /\ SumFunctionOnSet(w, S) = g[S]
  <1> DEFINE Fix(g) == g = SumBody(w, S, g)
             G == CHOOSE g : Fix(g)
  <1>1. \E g : Fix(g) BY SumExists
  <1>2. Fix(G)
    <2> HIDE DEF Fix
    <2> QED BY <1>1
  <1>3. SumFunctionOnSet(w, S) = G[S]
    BY DEF SumFunctionOnSet, FoldFunctionOnSet, MapThenFoldSet, SumBody, AnElement
  <1> QED BY <1>2, <1>3

\* Two such recursive functions agree where both are defined.
LEMMA SumUnique ==
  ASSUME NEW w, NEW S, NEW v, NEW T, IsFiniteSet(S), S \subseteq T,
         \A x \in S : v[x] = w[x],
         NEW g, g = SumBody(w, S, g), NEW h, h = SumBody(v, T, h)
  PROVE  \A s \in SUBSET S : g[s] = h[s]
  <1> DEFINE N == {n \in Nat : \A s \in SUBSET S : Cardinality(s) = n => g[s] = h[s]}
  <1>1. \A s \in SUBSET S : IsFiniteSet(s) /\ Cardinality(s) \in Nat BY FS_Subset, FS_CardinalityType
  <1>2. 0 \in N
    <2> SUFFICES ASSUME NEW s \in SUBSET S, Cardinality(s) = 0 PROVE g[s] = h[s] OBVIOUS
    <2>1. s = {} BY <1>1, FS_EmptySet
    <2>2. g[s] = 0 BY <2>1 DEF SumBody
    <2>3. h[s] = 0 BY <2>1 DEF SumBody
    <2> QED BY <2>2, <2>3
  <1>3. ASSUME NEW n \in Nat, n \in N PROVE n + 1 \in N
    <2> SUFFICES ASSUME NEW s \in SUBSET S, Cardinality(s) = n + 1 PROVE g[s] = h[s] OBVIOUS
    <2> DEFINE t == s \ {AnElement(s)}
    <2>1. s # {} BY <1>1, FS_EmptySet
    <2>2. AnElement(s) \in s BY <2>1, AnElementIn
    <2>3. Cardinality(t) = n
      <3>1. IsFiniteSet(s) BY <1>1
      <3>2. Cardinality(t) = Cardinality(s) - 1 BY <2>2, <3>1, FS_RemoveElement
      <3> QED BY <3>2
    <2>4. t \in SUBSET S /\ s \in SUBSET T OBVIOUS
    <2>5. g[t] = h[t] BY <1>3, <2>3, <2>4
    <2> HIDE DEF t
    <2>6. g[s] = w[AnElement(s)] + g[t] BY <2>1 DEF SumBody, t
    <2>7. h[s] = v[AnElement(s)] + h[t] BY <2>1, <2>4 DEF SumBody, t
    <2> QED BY <2>2, <2>5, <2>6, <2>7
  <1> HIDE DEF N
  <1>4. \A n \in Nat : n \in N BY <1>2, <1>3, NatSetInduction
  <1> QED BY <1>1, <1>4 DEF N

\* The sum of nothing.
LEMMA SumEmpty == ASSUME NEW w PROVE SumFunctionOnSet(w, {}) = 0
  <1>1. IsFiniteSet({}) BY FS_EmptySet
  <1>2. PICK g : g = SumBody(w, {}, g) /\ SumFunctionOnSet(w, {}) = g[{}] BY <1>1, SumFunctionDef
  <1>3. g[{}] = 0 BY <1>2 DEF SumBody
  <1> QED BY <1>2, <1>3

\* The sum depends on the summands only.
LEMMA SumSame ==
  ASSUME NEW S, IsFiniteSet(S), NEW v, NEW w, \A x \in S : v[x] = w[x]
  PROVE  SumFunctionOnSet(v, S) = SumFunctionOnSet(w, S)
  <1>1. PICK g : g = SumBody(v, S, g) /\ SumFunctionOnSet(v, S) = g[S] BY SumFunctionDef
  <1>2. PICK h : h = SumBody(w, S, h) /\ SumFunctionOnSet(w, S) = h[S] BY SumFunctionDef
  <1>3. \A s \in SUBSET S : g[s] = h[s] BY <1>1, <1>2, SumUnique
  <1> QED BY <1>1, <1>2, <1>3

\* One step of the recursion.
LEMMA SumOfNonempty ==
  ASSUME NEW S, IsFiniteSet(S), S # {}, NEW w
  PROVE  SumFunctionOnSet(w, S) = w[AnElement(S)] + SumFunctionOnSet(w, S \ {AnElement(S)})
  <1> DEFINE T == S \ {AnElement(S)}
  <1>1. PICK g : g = SumBody(w, S, g) /\ SumFunctionOnSet(w, S) = g[S] BY SumFunctionDef
  <1>2. IsFiniteSet(T) BY FS_RemoveElement
  <1>3. PICK h : h = SumBody(w, T, h) /\ SumFunctionOnSet(w, T) = h[T] BY <1>2, SumFunctionDef
  <1>4. \A s \in SUBSET T : h[s] = g[s] BY <1>1, <1>2, <1>3, SumUnique
  <1>5. h[T] = g[T] BY <1>4
  <1> HIDE DEF T
  <1>6. g[S] = w[AnElement(S)] + g[T] BY <1>1 DEF SumBody, T
  <1> QED BY <1>1, <1>3, <1>5, <1>6 DEF T

\* A sum of naturals is a natural, a sum of integers an integer.
LEMMA SumType ==
  ASSUME NEW S, IsFiniteSet(S), NEW w, NEW D \in {Nat, Int}, \A x \in S : w[x] \in D
  PROVE  SumFunctionOnSet(w, S) \in D
  <1> DEFINE N == {n \in Nat : \A T \in SUBSET S : Cardinality(T) = n => SumFunctionOnSet(w, T) \in D}
  <1>1. \A T \in SUBSET S : IsFiniteSet(T) /\ Cardinality(T) \in Nat BY FS_Subset, FS_CardinalityType
  <1>2. 0 \in N
    <2> SUFFICES ASSUME NEW T \in SUBSET S, Cardinality(T) = 0 PROVE SumFunctionOnSet(w, T) \in D OBVIOUS
    <2>1. T = {} BY <1>1, FS_EmptySet
    <2>2. SumFunctionOnSet(w, T) = 0 BY <2>1, SumEmpty
    <2> QED BY <2>2
  <1>3. ASSUME NEW n \in Nat, n \in N PROVE n + 1 \in N
    <2> SUFFICES ASSUME NEW T \in SUBSET S, Cardinality(T) = n + 1 PROVE SumFunctionOnSet(w, T) \in D OBVIOUS
    <2>1. IsFiniteSet(T) /\ T # {} BY <1>1, FS_EmptySet
    <2>2. AnElement(T) \in T BY <2>1, AnElementIn
    <2>3. Cardinality(T \ {AnElement(T)}) = Cardinality(T) - 1 BY <2>1, <2>2, FS_RemoveElement
    <2>4. Cardinality(T \ {AnElement(T)}) = n /\ T \ {AnElement(T)} \in SUBSET S BY <2>3
    <2>5. SumFunctionOnSet(w, T \ {AnElement(T)}) \in D BY <1>3, <2>4
    <2>6. w[AnElement(T)] \in D BY <2>2
    <2>7. \A a, b \in D : a + b \in D BY SMT
    <2> QED BY <2>1, <2>5, <2>6, <2>7, SumOfNonempty
  <1> HIDE DEF N
  <1>4. \A n \in Nat : n \in N BY <1>2, <1>3, NatSetInduction
  <1> QED BY <1>1, <1>4 DEF N

\* The order of the summands does not matter: any element may be the last.
LEMMA SumAdd ==
  ASSUME NEW S, IsFiniteSet(S), NEW y, y \notin S, NEW w, \A x \in S \union {y} : w[x] \in Int
  PROVE  SumFunctionOnSet(w, S \union {y}) = w[y] + SumFunctionOnSet(w, S)
  <1> DEFINE U == S \union {y}
             Adds(T, x) == SumFunctionOnSet(w, T \union {x}) = w[x] + SumFunctionOnSet(w, T)
             N == {n \in Nat : \A T \in SUBSET U, x \in U : Cardinality(T) = n /\ x \notin T => Adds(T, x)}
  <1>1. IsFiniteSet(U) BY FS_AddElement
  <1>2. \A T \in SUBSET U : IsFiniteSet(T) /\ Cardinality(T) \in Nat BY <1>1, FS_Subset, FS_CardinalityType
  <1>3. \A T \in SUBSET U : SumFunctionOnSet(w, T) \in Int
    <2> TAKE T \in SUBSET U
    <2>1. IsFiniteSet(T) /\ \A x \in T : w[x] \in Int BY <1>2
    <2> QED BY <2>1, SumType
  <1>4. ASSUME NEW n \in Nat, \A m \in Nat : m < n => m \in N PROVE n \in N
    <2> SUFFICES ASSUME NEW T \in SUBSET U, NEW x \in U, Cardinality(T) = n, x \notin T PROVE Adds(T, x)
      OBVIOUS
    <2> DEFINE V == T \union {x}
               c == AnElement(V)
               R == T \ {c}
    <2>1. IsFiniteSet(V) /\ V # {} /\ V \in SUBSET U BY <1>2
    <2>2. c \in V BY <2>1, AnElementIn
    <2>3. SumFunctionOnSet(w, V) = w[c] + SumFunctionOnSet(w, V \ {c}) BY <2>1, SumOfNonempty
    <2> HIDE DEF c
    <2>4. CASE c = x
      <3>1. V \ {c} = T BY <2>4
      <3> QED BY <2>3, <2>4, <3>1
    <2>5. CASE c # x
      <3>1. c \in T BY <2>2, <2>5
      <3>2. V \ {c} = R \union {x} /\ R \union {c} = T /\ c \notin R /\ x \notin R /\ R \in SUBSET U
        BY <2>5, <3>1
      <3>3. IsFiniteSet(T) BY <1>2
      <3>4. Cardinality(R) = n - 1 BY <3>1, <3>3, FS_RemoveElement
      <3>5. Cardinality(R) \in Nat BY <1>2, <3>2
      <3>6. n - 1 \in N BY <1>4, <3>4, <3>5
      <3>7. c \in U BY <3>1
      <3>8. Adds(R, x) /\ Adds(R, c) BY <3>2, <3>4, <3>6, <3>7
      <3>9. w[x] \in Int /\ w[c] \in Int /\ SumFunctionOnSet(w, R) \in Int BY <1>3, <3>2, <3>7
      <3> HIDE DEF V, R
      <3>10. SumFunctionOnSet(w, V) = w[c] + (w[x] + SumFunctionOnSet(w, R)) BY <2>3, <3>2, <3>8
      <3>11. SumFunctionOnSet(w, T) = w[c] + SumFunctionOnSet(w, R) BY <3>2, <3>8
      <3>12. SumFunctionOnSet(w, V) = w[x] + SumFunctionOnSet(w, T) BY <3>9, <3>10, <3>11
      <3> QED BY <3>12 DEF V
    <2> QED BY <2>4, <2>5
  <1> HIDE DEF N
  <1>5. \A n \in Nat : n \in N
    <2> DEFINE M == {n \in Nat : \A m \in 0 .. n : m \in N}
    <2>1. 0 \in M BY <1>4
    <2>2. ASSUME NEW n \in Nat, n \in M PROVE n + 1 \in M
      <3>1. n + 1 \in N BY <1>4, <2>2
      <3> QED BY <2>2, <3>1
    <2> HIDE DEF M
    <2>3. \A n \in Nat : n \in M BY <2>1, <2>2, NatSetInduction
    <2> QED BY <2>3 DEF M
  <1>6. S \in SUBSET U /\ y \in U /\ Cardinality(S) \in N BY <1>2, <1>5
  <1> QED BY <1>6 DEF N

\* A sum of zeros.
LEMMA SumZero ==
  ASSUME NEW S, IsFiniteSet(S), NEW w, \A x \in S : w[x] = 0
  PROVE  SumFunctionOnSet(w, S) = 0
  <1> DEFINE F == {R \in SUBSET S : SumFunctionOnSet(w, R) = 0}
  <1>1. {} \in F BY SumEmpty
  <1>2. ASSUME NEW R \in SUBSET S, NEW x \in S, R \in F, x \notin R PROVE R \union {x} \in F
    <2>1. IsFiniteSet(R) BY FS_Subset
    <2>2. \A y \in R \union {x} : w[y] \in Int OBVIOUS
    <2>3. SumFunctionOnSet(w, R \union {x}) = w[x] + SumFunctionOnSet(w, R) BY <1>2, <2>1, <2>2, SumAdd
    <2> QED BY <1>2, <2>3
  <1>3. \A R \in SUBSET S, x \in S : R \in F /\ x \notin R => R \union {x} \in F BY <1>2
  <1> HIDE DEF F
  <1>4. S \in F BY <1>1, <1>3, FiniteSetInduction
  <1> QED BY <1>4 DEF F

\* The sum over two disjoint sets.
LEMMA SumUnion ==
  ASSUME NEW S, IsFiniteSet(S), NEW T, IsFiniteSet(T), S \intersect T = {},
         NEW w, \A x \in S \union T : w[x] \in Int
  PROVE  SumFunctionOnSet(w, S \union T) = SumFunctionOnSet(w, S) + SumFunctionOnSet(w, T)
  <1> DEFINE F == {R \in SUBSET T : SumFunctionOnSet(w, S \union R) =
                                    SumFunctionOnSet(w, S) + SumFunctionOnSet(w, R)}
  <1>1. \A R \in SUBSET T : IsFiniteSet(R) BY FS_Subset
  <1>2. SumFunctionOnSet(w, S) \in Int
    <2>1. \A x \in S : w[x] \in Int OBVIOUS
    <2> QED BY <2>1, SumType
  <1>3. {} \in F
    <2>1. S \union {} = S OBVIOUS
    <2> QED BY <1>2, <2>1, SumEmpty
  <1>4. ASSUME NEW R \in SUBSET T, NEW x \in T, R \in F, x \notin R PROVE R \union {x} \in F
    <2> DEFINE V == S \union R
    <2>1. IsFiniteSet(R) /\ IsFiniteSet(V) BY <1>1, FS_Union
    <2>2. \A z \in R \union {x} : w[z] \in Int OBVIOUS
    <2>3. \A z \in V \union {x} : w[z] \in Int OBVIOUS
    <2>4. x \notin V BY <1>4
    <2> HIDE DEF V
    <2>5. SumFunctionOnSet(w, V \union {x}) = w[x] + SumFunctionOnSet(w, V) BY <2>1, <2>3, <2>4, SumAdd
    <2>6. SumFunctionOnSet(w, R \union {x}) = w[x] + SumFunctionOnSet(w, R) BY <1>4, <2>1, <2>2, SumAdd
    <2>7. SumFunctionOnSet(w, R) \in Int BY <2>1, <2>2, SumType
    <2>8. SumFunctionOnSet(w, V) = SumFunctionOnSet(w, S) + SumFunctionOnSet(w, R) BY <1>4 DEF V
    <2>9. w[x] \in Int OBVIOUS
    <2>10. SumFunctionOnSet(w, V \union {x}) = SumFunctionOnSet(w, S) + SumFunctionOnSet(w, R \union {x})
      BY <1>2, <2>5, <2>6, <2>7, <2>8, <2>9
    <2>11. S \union (R \union {x}) = V \union {x} BY DEF V
    <2> QED BY <2>10, <2>11
  <1>5. \A R \in SUBSET T, x \in T : R \in F /\ x \notin R => R \union {x} \in F BY <1>4
  <1> HIDE DEF F
  <1>6. T \in F BY <1>3, <1>5, FiniteSetInduction
  <1> QED BY <1>6 DEF F

\* A sum whose indices are renamed one to one.
LEMMA SumRename ==
  ASSUME NEW S, IsFiniteSet(S), NEW f, \A x, y \in S : f[x] = f[y] => x = y,
         NEW v, NEW w, \A x \in S : v[x] = w[f[x]] /\ v[x] \in Int
  PROVE  SumFunctionOnSet(v, S) = SumFunctionOnSet(w, {f[x] : x \in S})
  <1> DEFINE Im(R) == {f[x] : x \in R}
             F == {R \in SUBSET S : IsFiniteSet(Im(R)) /\ SumFunctionOnSet(v, R) = SumFunctionOnSet(w, Im(R))}
  <1>1. \A R \in SUBSET S : IsFiniteSet(R) BY FS_Subset
  <1>2. {} \in F
    <2>1. Im({}) = {} OBVIOUS
    <2> QED BY <2>1, SumEmpty, FS_EmptySet
  <1>3. ASSUME NEW R \in SUBSET S, NEW x \in S, R \in F, x \notin R PROVE R \union {x} \in F
    <2> DEFINE I == Im(R)
    <2>1. IsFiniteSet(R) BY <1>1
    <2>2. IsFiniteSet(I) BY <1>3
    <2>3. f[x] \notin I BY <1>3
    <2>4. Im(R \union {x}) = I \union {f[x]} OBVIOUS
    <2>5. \A z \in R \union {x} : v[z] \in Int OBVIOUS
    <2>6. \A z \in I \union {f[x]} : w[z] \in Int OBVIOUS
    <2>7. SumFunctionOnSet(v, R) = SumFunctionOnSet(w, I) BY <1>3
    <2> HIDE DEF I
    <2>8. SumFunctionOnSet(v, R \union {x}) = v[x] + SumFunctionOnSet(v, R) BY <1>3, <2>1, <2>5, SumAdd
    <2>9. SumFunctionOnSet(w, I \union {f[x]}) = w[f[x]] + SumFunctionOnSet(w, I) BY <2>2, <2>3, <2>6, SumAdd
    <2>10. SumFunctionOnSet(v, R \union {x}) = SumFunctionOnSet(w, I \union {f[x]}) BY <2>7, <2>8, <2>9
    <2>11. IsFiniteSet(I \union {f[x]}) BY <2>2, FS_AddElement
    <2> QED BY <2>4, <2>10, <2>11
  <1>4. \A R \in SUBSET S, x \in S : R \in F /\ x \notin R => R \union {x} \in F BY <1>3
  <1> HIDE DEF F
  <1>5. S \in F BY <1>2, <1>4, FiniteSetInduction
  <1> QED BY <1>5 DEF F

\* The sum of the sums.
LEMMA SumPlus ==
  ASSUME NEW S, IsFiniteSet(S), NEW u, NEW v, NEW w,
         \A x \in S : v[x] \in Int /\ w[x] \in Int /\ u[x] = v[x] + w[x]
  PROVE  SumFunctionOnSet(u, S) = SumFunctionOnSet(v, S) + SumFunctionOnSet(w, S)
  <1> DEFINE F == {R \in SUBSET S : SumFunctionOnSet(u, R) = SumFunctionOnSet(v, R) + SumFunctionOnSet(w, R)}
  <1>1. {} \in F BY SumEmpty
  <1>2. ASSUME NEW R \in SUBSET S, NEW x \in S, R \in F, x \notin R PROVE R \union {x} \in F
    <2>1. IsFiniteSet(R) BY FS_Subset
    <2>2. \A y \in R \union {x} : u[y] \in Int /\ v[y] \in Int /\ w[y] \in Int OBVIOUS
    <2>3. /\ SumFunctionOnSet(u, R \union {x}) = u[x] + SumFunctionOnSet(u, R)
          /\ SumFunctionOnSet(v, R \union {x}) = v[x] + SumFunctionOnSet(v, R)
          /\ SumFunctionOnSet(w, R \union {x}) = w[x] + SumFunctionOnSet(w, R)
      BY <1>2, <2>1, <2>2, SumAdd
    <2>4. \A y \in R : v[y] \in Int /\ w[y] \in Int OBVIOUS
    <2>5. SumFunctionOnSet(v, R) \in Int /\ SumFunctionOnSet(w, R) \in Int BY <2>1, <2>4, SumType
    <2>6. u[x] = v[x] + w[x] /\ v[x] \in Int /\ w[x] \in Int OBVIOUS
    <2>7. SumFunctionOnSet(u, R) = SumFunctionOnSet(v, R) + SumFunctionOnSet(w, R) BY <1>2
    <2> QED BY <2>3, <2>5, <2>6, <2>7
  <1>3. \A R \in SUBSET S, x \in S : R \in F /\ x \notin R => R \union {x} \in F BY <1>2
  <1> HIDE DEF F
  <1>4. S \in F BY <1>1, <1>3, FiniteSetInduction
  <1> QED BY <1>4 DEF F

\* Summands of 0 do not count.
LEMMA SumSupport ==
  ASSUME NEW S, IsFiniteSet(S), NEW T \in SUBSET S, NEW w,
         \A x \in T : w[x] \in Int, \A x \in S \ T : w[x] = 0
  PROVE  SumFunctionOnSet(w, S) = SumFunctionOnSet(w, T)
  <1> DEFINE R == S \ T
  <1>1. IsFiniteSet(T) /\ IsFiniteSet(R) BY FS_Subset
  <1>2. T \intersect R = {} /\ T \union R = S /\ \A x \in R : w[x] = 0 OBVIOUS
  <1>3. \A x \in T \union R : w[x] \in Int OBVIOUS
  <1> HIDE DEF R
  <1>4. SumFunctionOnSet(w, T \union R) = SumFunctionOnSet(w, T) + SumFunctionOnSet(w, R)
    BY <1>1, <1>2, <1>3, SumUnion
  <1>5. SumFunctionOnSet(w, R) = 0 BY <1>1, <1>2, SumZero
  <1>6. SumFunctionOnSet(w, T) \in Int BY <1>1, SumType
  <1> QED BY <1>2, <1>4, <1>5, <1>6

\* Larger summands over a larger set.
LEMMA SumBound ==
  ASSUME NEW S, IsFiniteSet(S), NEW T \in SUBSET S, NEW v, NEW w,
         \A x \in S : v[x] \in Int /\ w[x] \in Nat /\ v[x] <= w[x]
  PROVE  SumFunctionOnSet(v, T) <= SumFunctionOnSet(w, S)
  <1> DEFINE R == S \ T
             u == [x \in S |-> w[x] - v[x]]
  <1>1. IsFiniteSet(T) /\ IsFiniteSet(R) BY FS_Subset
  <1>2. T \intersect R = {} /\ T \union R = S OBVIOUS
  <1>3. \A x \in T : v[x] \in Int /\ u[x] \in Int /\ w[x] = v[x] + u[x] OBVIOUS
  <1>4. \A x \in T : u[x] \in Nat OBVIOUS
  <1>5. \A x \in T \union R : w[x] \in Int OBVIOUS
  <1>6. \A x \in R : w[x] \in Nat OBVIOUS
  <1> HIDE DEF R, u
  <1>7. SumFunctionOnSet(w, T) = SumFunctionOnSet(v, T) + SumFunctionOnSet(u, T) BY <1>1, <1>3, SumPlus
  <1>8. SumFunctionOnSet(w, T \union R) = SumFunctionOnSet(w, T) + SumFunctionOnSet(w, R)
    BY <1>1, <1>2, <1>5, SumUnion
  <1>9. SumFunctionOnSet(u, T) \in Nat /\ SumFunctionOnSet(w, R) \in Nat BY <1>1, <1>4, <1>6, SumType
  <1>10. SumFunctionOnSet(v, T) \in Int BY <1>1, <1>3, SumType
  <1>11. SumFunctionOnSet(w, S) = SumFunctionOnSet(w, T) + SumFunctionOnSet(w, R) BY <1>2, <1>8
  <1> QED BY <1>7, <1>9, <1>10, <1>11

\* One summand.
LEMMA SumSingle ==
  ASSUME NEW y, NEW w, w[y] \in Int PROVE SumFunctionOnSet(w, {y}) = w[y]
  <1>1. IsFiniteSet({}) /\ y \notin {} /\ {} \union {y} = {y} BY FS_EmptySet
  <1>2. \A x \in {} \union {y} : w[x] \in Int OBVIOUS
  <1>3. SumFunctionOnSet(w, {} \union {y}) = w[y] + SumFunctionOnSet(w, {}) BY <1>1, <1>2, SumAdd
  <1> QED BY <1>1, <1>3, SumEmpty

\* A running total over 1 .. n: one recursive function, and its last value.
RunningTotal(f, n, s, w) == f = [i \in 0 .. n |-> IF i = 0 THEN s ELSE f[i - 1] + w[i]]

\* The sum over an interval that grows by one.
LEMMA SumInterval ==
  ASSUME NEW i \in Nat, NEW w, \A j \in 1 .. (i + 1) : w[j] \in Int
  PROVE  /\ SumFunctionOnSet(w, 1 .. (i + 1)) = SumFunctionOnSet(w, 1 .. i) + w[i + 1]
         /\ SumFunctionOnSet(w, 1 .. i) \in Int
  <1> DEFINE k == i + 1
             S == 1 .. i
             U == 1 .. k
  <1>1. IsFiniteSet(S) BY FS_Interval
  <1>2. U = S \union {k} /\ k \notin S OBVIOUS
  <1>3. \A j \in S \union {k} : w[j] \in Int OBVIOUS
  <1> HIDE DEF S, U, k
  <1>4. SumFunctionOnSet(w, S \union {k}) = w[k] + SumFunctionOnSet(w, S) BY <1>1, <1>2, <1>3, SumAdd
  <1>5. SumFunctionOnSet(w, S) \in Int BY <1>1, <1>3, SumType
  <1>6. w[k] \in Int BY <1>3
  <1>7. SumFunctionOnSet(w, U) = SumFunctionOnSet(w, S) + w[k] BY <1>2, <1>4, <1>5, <1>6
  <1> QED BY <1>5, <1>7 DEF S, U, k

\* There is such a function: the sums over 1 .. i.
LEMMA RunningTotalExists ==
  ASSUME NEW n \in Nat, NEW s \in Int, NEW w, \A i \in 1 .. n : w[i] \in Int
  PROVE  \E f : RunningTotal(f, n, s, w)
  <1> DEFINE T(i) == SumFunctionOnSet(w, 1 .. i)
             g == [i \in 0 .. n |-> s + T(i)]
  <1>1. T(0) = 0
    <2>1. 1 .. 0 = {} OBVIOUS
    <2> QED BY <2>1, SumEmpty
  <1>2. ASSUME NEW i \in 0 .. n, i # 0 PROVE T(i) = T(i - 1) + w[i] /\ T(i - 1) \in Int /\ w[i] \in Int
    <2> DEFINE j == i - 1
    <2>1. j \in Nat /\ j + 1 = i BY <1>2
    <2>2. \A k \in 1 .. (j + 1) : w[k] \in Int BY <2>1
    <2> HIDE DEF j
    <2>3. T(j + 1) = T(j) + w[j + 1] /\ T(j) \in Int BY <2>1, <2>2, SumInterval
    <2>4. w[i] \in Int BY <1>2
    <2> QED BY <2>1, <2>3, <2>4 DEF j
  <1> HIDE DEF T
  <1>3. \A i \in 0 .. n : g[i] = IF i = 0 THEN s ELSE g[i - 1] + w[i]
    <2> TAKE i \in 0 .. n
    <2>1. CASE i = 0 BY <1>1, <2>1
    <2>2. CASE i # 0
      <3>1. i - 1 \in 0 .. n BY <2>2
      <3>2. g[i - 1] = s + T(i - 1) /\ g[i] = s + T(i) BY <3>1
      <3> HIDE DEF g
      <3> QED BY <1>2, <2>2, <3>2
    <2> QED BY <2>1, <2>2
  <1>4. g = [i \in 0 .. n |-> g[i]] OBVIOUS
  <1> HIDE DEF g
  <1>5. g = [i \in 0 .. n |-> IF i = 0 THEN s ELSE g[i - 1] + w[i]] BY <1>3, <1>4
  <1> QED BY <1>5 DEF RunningTotal

\* Each of its values is the start and the sum so far.
LEMMA RunningTotalIs ==
  ASSUME NEW n \in Nat, NEW s \in Int, NEW w, \A i \in 1 .. n : w[i] \in Int,
         NEW f, RunningTotal(f, n, s, w), NEW k \in 0 .. n
  PROVE  f[k] = s + SumFunctionOnSet(w, 1 .. k)
  <1> DEFINE T(i) == SumFunctionOnSet(w, 1 .. i)
             N == {i \in Nat : i <= n => f[i] = s + T(i)}
  <1>1. 0 \in N
    <2>1. 1 .. 0 = {} OBVIOUS
    <2>2. T(0) = 0 BY <2>1, SumEmpty
    <2>3. f[0] = s BY DEF RunningTotal
    <2> QED BY <2>2, <2>3
  <1>2. ASSUME NEW i \in Nat, i \in N PROVE i + 1 \in N
    <2> SUFFICES ASSUME i + 1 <= n PROVE f[i + 1] = s + T(i + 1) OBVIOUS
    <2>1. f[i] = s + T(i) BY <1>2
    <2>2. \A j \in 1 .. (i + 1) : w[j] \in Int OBVIOUS
    <2>3. T(i + 1) = T(i) + w[i + 1] /\ T(i) \in Int BY <2>2, SumInterval
    <2>4. f[i + 1] = f[i] + w[i + 1]
      <3>1. i + 1 \in 0 .. n /\ i + 1 # 0 /\ (i + 1) - 1 = i OBVIOUS
      <3> QED BY <3>1 DEF RunningTotal
    <2>5. w[i + 1] \in Int BY <2>2
    <2> HIDE DEF T
    <2> QED BY <2>1, <2>3, <2>4, <2>5
  <1> HIDE DEF N
  <1>3. \A i \in Nat : i \in N BY <1>1, <1>2, NatSetInduction
  <1>4. k \in Nat /\ k <= n OBVIOUS
  <1> QED BY <1>3, <1>4 DEF N
===============================================================================
