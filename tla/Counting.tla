------------------------------ MODULE Counting ------------------------------
(***************************************************************************)
(* Facts about the number of sessions that are at the same work, which the *)
(* other proof modules need wherever a table has no unique index and       *)
(* sessions look for a row before they add one; and facts about numbers,   *)
(* for what the code computes in a loop.                                   *)
(***************************************************************************)
EXTENDS Naturals, FiniteSets, FiniteSetTheorems, TLAPS

\* A part of a finite set is finite and no larger.
LEMMA PartIsSmaller ==
    ASSUME NEW S, IsFiniteSet(S), NEW A \in SUBSET S
    PROVE  /\ IsFiniteSet(A) /\ Cardinality(A) \in Nat /\ Cardinality(S) \in Nat
           /\ Cardinality(A) <= Cardinality(S)
  BY FS_Subset, FS_CardinalityType

\* One session begins or ends something while the others go on as they were.
LEMMA OneMoves ==
    ASSUME NEW S, IsFiniteSet(S), NEW w \in S,
           NEW A \in SUBSET S, NEW B \in SUBSET S,
           \A v \in S : v # w => (v \in B <=> v \in A)
    PROVE  /\ Cardinality(A) \in Nat /\ Cardinality(B) \in Nat
           /\ w \in B /\ w \notin A => Cardinality(B) = Cardinality(A) + 1
           /\ w \notin B /\ w \in A => Cardinality(B) = Cardinality(A) - 1
           /\ (w \in A <=> w \in B) => B = A
           /\ Cardinality(B) <= Cardinality(A) + 1
           /\ w \notin B => Cardinality(B) <= Cardinality(A)
  <1>1. /\ IsFiniteSet(A) /\ Cardinality(A) \in Nat
        /\ IsFiniteSet(B) /\ Cardinality(B) \in Nat
    BY PartIsSmaller
  <1>2. (w \in A <=> w \in B) => B = A
    OBVIOUS
  <1>3. w \in B /\ w \notin A => Cardinality(B) = Cardinality(A) + 1
    <2>1. w \in B /\ w \notin A => B = A \cup {w}
      OBVIOUS
    <2>2. Cardinality(A \cup {w}) = IF w \in A THEN Cardinality(A) ELSE Cardinality(A) + 1
      BY <1>1, FS_AddElement
    <2>3. QED
      BY <2>1, <2>2
  <1>4. w \notin B /\ w \in A => Cardinality(B) = Cardinality(A) - 1
    <2>1. w \notin B /\ w \in A => B = A \ {w}
      OBVIOUS
    <2>2. Cardinality(A \ {w}) = IF w \in A THEN Cardinality(A) - 1 ELSE Cardinality(A)
      BY <1>1, FS_RemoveElement
    <2>3. QED
      BY <2>1, <2>2
  <1>5. QED
    BY <1>1, <1>2, <1>3, <1>4

\* If one session has nothing to do with it, at most the others have.
LEMMA OthersAreFewer ==
    ASSUME NEW S, IsFiniteSet(S), NEW w \in S, NEW A \in SUBSET (S \ {w})
    PROVE  Cardinality(A) \in Nat /\ Cardinality(A) + 1 <= Cardinality(S)
  <1>1. /\ IsFiniteSet(S \ {w})
        /\ Cardinality(S \ {w}) = Cardinality(S) - 1
    BY FS_RemoveElement
  <1>2. Cardinality(A) <= Cardinality(S \ {w}) /\ Cardinality(A) \in Nat
    BY <1>1, PartIsSmaller
  <1>3. QED
    BY <1>1, <1>2, FS_CardinalityType

\* Sessions that add one row each add no more rows than there are sessions.
LEMMA OneEach ==
    ASSUME NEW S, IsFiniteSet(S), NEW f, NEW U,
           \A u \in U : \E s \in S : u \in f[s],
           \A s \in S : \A a, b \in f[s] : a = b
    PROVE  IsFiniteSet(U) /\ Cardinality(U) \in Nat
           /\ Cardinality(U) <= Cardinality(S)
  <1> DEFINE T == {s \in S : \E u \in U : u \in f[s]}
             g == [s \in T |-> CHOOSE u \in U : u \in f[s]]
  <1>1. /\ IsFiniteSet(T) /\ Cardinality(T) \in Nat /\ Cardinality(S) \in Nat
        /\ Cardinality(T) <= Cardinality(S)
    BY PartIsSmaller
  <1>2. \A s \in T : g[s] \in U /\ g[s] \in f[s]
    OBVIOUS
  <1>3. \A u \in U : \E s \in T : g[s] = u
    <2>1. ASSUME NEW u \in U PROVE \E s \in T : g[s] = u
      <3>1. PICK s \in S : u \in f[s]
        OBVIOUS
      <3>2. s \in T
        BY <3>1
      <3>3. g[s] \in f[s]
        BY <1>2, <3>2
      <3>4. QED
        BY <3>1, <3>2, <3>3
    <2>2. QED
      BY <2>1
  <1>4. g \in Surjection(T, U)
    BY <1>2, <1>3 DEF Surjection
  <1>5. QED
    BY <1>1, <1>4, FS_Surjection, FS_CardinalityType

\* Rows that are under way arrive.
LEMMA RowsArrive ==
    ASSUME NEW S, NEW U, IsFiniteSet(S), IsFiniteSet(U),
           NEW A \in SUBSET U, S \cap A = {}
    PROVE  /\ Cardinality(S) \in Nat /\ Cardinality(U) \in Nat
           /\ Cardinality(S \cup A) + Cardinality(U \ A)
                  = Cardinality(S) + Cardinality(U)
  <1>1. IsFiniteSet(A) /\ Cardinality(A) \in Nat
    BY PartIsSmaller
  <1>2. Cardinality(S \cap A) = 0
    BY FS_EmptySet
  <1>3. Cardinality(S \cup A) = Cardinality(S) + Cardinality(A)
    <2>1. Cardinality(S \cup A)
              = Cardinality(S) + Cardinality(A) - Cardinality(S \cap A)
      BY <1>1, FS_Union
    <2>2. QED
      BY <1>1, <1>2, <2>1, FS_CardinalityType
  <1>4. U \cap A = A
    OBVIOUS
  <1>5. Cardinality(U \ A) = Cardinality(U) - Cardinality(A)
    BY <1>1, <1>4, FS_Difference
  <1>6. QED
    BY <1>1, <1>3, <1>5, FS_CardinalityType

\* A set of numbers has a least one.
LEMMA LeastNumber ==
    ASSUME NEW T \in SUBSET Nat, T # {}
    PROVE  \E n \in T : \A m \in T : n <= m
  <1>1. PICK n \in T : \A m \in T : <<m, n>> \notin OpToRel(<, Nat)
    BY NatLessThanWellFounded, WFMin
  <1>2. \A m \in T : ~ (m < n)
    BY <1>1 DEF OpToRel
  <1>3. QED
    BY <1>2

\* A finite set of numbers has a greatest one.
LEMMA GreatestNumber ==
    ASSUME NEW S \in SUBSET Nat, IsFiniteSet(S), S # {}
    PROVE  \E n \in S : \A m \in S : m <= n
  <1> DEFINE Greatest(A) == \E n \in A : \A m \in A : m <= n
             T == {k \in Nat : \E A \in SUBSET S :
                      A # {} /\ Cardinality(A) = k /\ ~ Greatest(A)}
  <1>1. ASSUME T # {} PROVE FALSE
    <2>1. PICK k \in T : \A l \in T : k <= l
      BY <1>1, LeastNumber
    <2>2. PICK A \in SUBSET S : A # {} /\ Cardinality(A) = k /\ ~ Greatest(A)
      BY <2>1
    <2>3. PICK a \in A : TRUE
      BY <2>2
    <2>4. IsFiniteSet(A)
      BY FS_Subset
    <2>5. Cardinality(A \ {a}) = k - 1 /\ Cardinality(A \ {a}) \in Nat
      <3>1. /\ IsFiniteSet(A \ {a})
            /\ Cardinality(A \ {a}) = Cardinality(A) - 1
        BY <2>4, FS_RemoveElement
      <3>2. QED
        BY <2>2, <3>1, FS_CardinalityType
    <2>6. A \ {a} # {}
      BY <2>2
    <2>7. Greatest(A \ {a})
      BY <2>1, <2>5, <2>6
    <2>8. PICK n \in A \ {a} : \A m \in A \ {a} : m <= n
      BY <2>7
    <2>9. n \in Nat /\ a \in Nat
      OBVIOUS
    <2>10. CASE a <= n
      BY <2>2, <2>8, <2>10
    <2>11. CASE n <= a
      <3>1. \A m \in A : m <= a
        BY <2>8, <2>9, <2>11
      <3>2. QED
        BY <2>2, <3>1
    <2>12. QED
      BY <2>9, <2>10, <2>11
  <1>2. Cardinality(S) \in Nat
    BY FS_CardinalityType
  <1>3. QED
    BY <1>1, <1>2

\* What holds at zero and is passed on from each number to the next holds up
\* to any number.
LEMMA UpTo ==
    ASSUME NEW N \in Nat, NEW T \in SUBSET (0..N), 0 \in T,
           \A n \in 1..N : n - 1 \in T => n \in T
    PROVE  T = 0..N
  <1> DEFINE Rest == (0..N) \ T
  <1>1. ASSUME Rest # {} PROVE FALSE
    <2>1. PICK n \in Rest : \A m \in Rest : n <= m
      <3>1. Rest \in SUBSET Nat
        OBVIOUS
      <3>2. QED
        BY <1>1, <3>1, LeastNumber
    <2>2. n \in 1..N
      OBVIOUS
    <2>3. n - 1 \in 0..N /\ ~ (n <= n - 1)
      BY <2>2
    <2>4. n - 1 \in T
      BY <2>1, <2>3
    <2>5. QED
      BY <2>2, <2>4
  <1>2. QED
    BY <1>1

\* A loop: its state before the first turn, and after each by that before.
Recurs(f, N, base, step) ==
    f[0] = base /\ \A n \in 1..N : f[n] = step[n][f[n - 1]]

\* Such a function exists: one that ends can be continued by one number.
LEMMA RecursionExists ==
    ASSUME NEW N \in Nat, NEW R, NEW base \in R, NEW step \in [1..N -> [R -> R]]
    PROVE  \E f \in [0..N -> R] : Recurs(f, N, base, step)
  <1> DEFINE Follows(f, k) == f[0] = base /\ \A n \in 1..k : f[n] = step[n][f[n - 1]]
             T == {k \in 0..N : \E f \in [0..N -> R] : Follows(f, k)}
  <1>1. 0 \in T
    <2> DEFINE f == [n \in 0..N |-> base]
    <2>1. f \in [0..N -> R] /\ Follows(f, 0)
      OBVIOUS
    <2> HIDE DEF f, Follows
    <2>2. QED
      BY <2>1
  <1>2. ASSUME NEW k \in 1..N, k - 1 \in T
        PROVE  k \in T
    <2>1. PICK f \in [0..N -> R] : Follows(f, k - 1)
      BY <1>2
    <2> DEFINE g == [f EXCEPT ![k] = step[k][f[k - 1]]]
    <2>2. k - 1 \in 0..N /\ k \in 0..N /\ k # 0
      OBVIOUS
    <2>3. g \in [0..N -> R]
      BY <2>2
    <2>4. g[k] = step[k][f[k - 1]] /\ \A n \in 0..N : n # k => g[n] = f[n]
      BY <2>2
    <2>5. g[0] = base
      BY <2>1, <2>2, <2>4
    <2> HIDE DEF g
    <2>6. ASSUME NEW n \in 1..k
          PROVE  g[n] = step[n][g[n - 1]]
      <3>1. n - 1 \in 0..N /\ n - 1 # k /\ n \in 0..N
        OBVIOUS
      <3>2. g[n - 1] = f[n - 1]
        BY <2>4, <3>1
      <3>3. CASE n = k
        BY <2>4, <3>2, <3>3
      <3>4. CASE n # k
        <4>1. n \in 1..(k - 1)
          BY <3>4
        <4>2. f[n] = step[n][f[n - 1]]
          BY <2>1, <4>1
        <4>3. QED
          BY <2>4, <3>1, <3>2, <3>4, <4>2
      <3>5. QED
        BY <3>3, <3>4
    <2>7. QED
      BY <2>2, <2>3, <2>5, <2>6
  <1>3. N \in T
    <2> HIDE DEF Follows
    <2>1. T = 0..N
      <3> HIDE DEF T
      <3>1. T \in SUBSET (0..N)
        BY DEF T
      <3>2. QED
        BY <1>1, <1>2, <3>1, UpTo
    <2>2. QED
      BY <2>1
  <1>4. PICK f \in [0..N -> R] : Follows(f, N)
    BY <1>3
  <1>5. QED
    BY <1>4 DEF Recurs
=============================================================================
