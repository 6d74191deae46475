---------------------------- MODULE Leb128Proofs ----------------------------
(***************************************************************************)
(* Lemmas about the numbers of leb128: recursion, sums, powers of two, and *)
(* what the closed form of leb128.Read adds up.                            *)
(***************************************************************************)
EXTENDS Leb128, WellFoundedInduction, SequenceTheorems, FiniteSetTheorems, TLAPS

----------------------------------------------------------------------------
(* Recursion.  A function that is defined step by step exists, and what    *)
(* each step keeps, all have.                                              *)

\* A set of natural numbers that is not empty has a least element.
LEMMA LeastNatural ==
  ASSUME NEW S \in SUBSET Nat, S # {}
  PROVE  \E m \in S : \A k \in S : m <= k
<1>1. PICK m \in S : \A k \in S : <<k, m>> \notin OpToRel(<, Nat)
  BY NatLessThanWellFounded, WFMin
<1>2. \A k \in S : <<k, m>> \in OpToRel(<, Nat) <=> k < m
  BY DEF OpToRel
<1>3. \A k \in S : ~(k < m)
  BY <1>1, <1>2
<1>4. m \in Nat /\ \A k \in S : k \in Nat
  OBVIOUS
<1> QED
  BY <1>3, <1>4

\* The steps of f from z.
StepsFrom(f, T, n, z, g) ==
  f \in [0 .. n -> T] /\ f[0] = z /\ \A k \in 1 .. n : f[k] = g[<<k, f[k - 1]>>]

\* A function whose values are given one after the other exists.
LEMMA Stepwise ==
  ASSUME NEW T, NEW m \in Nat, NEW z \in T, NEW g \in [(1 .. m) \X T -> T]
  PROVE  \E f : StepsFrom(f, T, m, z, g)
<1> DEFINE Done(n) == \E f : StepsFrom(f, T, n, z, g)
           S == {n \in 0 .. m : ~Done(n)}
<1>1. Done(0)
  <2>1. StepsFrom([k \in 0 .. 0 |-> z], T, 0, z, g)
    BY DEF StepsFrom
  <2> QED
    BY <2>1
<1>2. ASSUME NEW n \in 1 .. m, Done(n - 1) PROVE Done(n)
  <2>4. PICK f : StepsFrom(f, T, n - 1, z, g)
    BY <1>2
  <2> DEFINE h == [k \in 0 .. n |-> IF k = n THEN g[<<n, f[n - 1]>>] ELSE f[k]]
  <2>5. f[n - 1] \in T /\ g[<<n, f[n - 1]>>] \in T
    BY <2>4 DEF StepsFrom
  <2>6. h \in [0 .. n -> T] /\ h[0] = z
    BY <2>4, <2>5 DEF StepsFrom
  <2>7. ASSUME NEW k \in 1 .. n PROVE h[k] = g[<<k, h[k - 1]>>]
    <3>1. k - 1 \in 0 .. n - 1 /\ k \in 0 .. n /\ k - 1 # n /\ k - 1 \in 0 .. n
      OBVIOUS
    <3>2. h[k - 1] = f[k - 1]
      BY <3>1
    <3>3. CASE k = n
      BY <3>1, <3>2, <3>3
    <3>4. CASE k # n
      <4>1. h[k] = f[k] /\ k \in 1 .. n - 1
        BY <3>1, <3>4
      <4>2. f[k] = g[<<k, f[k - 1]>>]
        BY <2>4, <4>1 DEF StepsFrom
      <4> HIDE DEF h
      <4> QED
        BY <3>2, <4>1, <4>2
    <3> QED
      BY <3>3, <3>4
  <2> HIDE DEF h
  <2>8. StepsFrom(h, T, n, z, g)
    BY <2>6, <2>7 DEF StepsFrom
  <2> QED
    BY <2>8
<1> HIDE DEF Done
<1>3. CASE S # {}
  <2>0. S \in SUBSET Nat
    OBVIOUS
  <2> HIDE DEF S
  <2>1. PICK n \in S : \A k \in S : n <= k
    BY <1>3, <2>0, LeastNatural
  <2> USE DEF S
  <2>2. n \in 1 .. m /\ n - 1 \in 0 .. m /\ ~(n <= n - 1) /\ ~Done(n)
    BY <1>1, <2>1
  <2>3. Done(n - 1)
    BY <2>1, <2>2
  <2> QED
    BY <1>2, <2>2, <2>3
<1>4. CASE S = {}
  BY <1>4 DEF Done
<1> QED
  BY <1>3, <1>4

\* What each of them hands on to the next, all have.
LEMMA StepsKeep ==
  ASSUME NEW T, NEW m \in Nat, NEW u, u[0] \in T,
         \A k \in 1 .. m : u[k - 1] \in T => u[k] \in T
  PROVE  \A k \in 0 .. m : u[k] \in T
<1> DEFINE S == {k \in 0 .. m : u[k] \notin T}
<1>1. CASE S = {}
  BY <1>1
<1>2. CASE S # {}
  <2>0. S \in SUBSET Nat
    OBVIOUS
  <2> HIDE DEF S
  <2>1. PICK n \in S : \A k \in S : n <= k
    BY <1>2, <2>0, LeastNatural
  <2> USE DEF S
  <2>2. n \in 1 .. m /\ n - 1 \in 0 .. m /\ ~(n <= n - 1)
    BY <2>1
  <2> QED
    BY <2>1, <2>2
<1> QED
  BY <1>1, <1>2

\* A sum over a finite set, as FiniteSetsExt defines it.
Sums(iter, S, F) ==
  iter = [s \in SUBSET S |-> IF s = {} THEN 0
                             ELSE LET x == CHOOSE x \in s : TRUE IN F[x] + iter[s \ {x}]]

\* The recursion over subsets that FiniteSetsExt sums with is one.
LEMMA SumExists ==
  ASSUME NEW S, IsFiniteSet(S), NEW F \in [S -> Int]
  PROVE  \E iter : Sums(iter, S, F)
<1> DEFINE Small(n) == {s \in SUBSET S : Cardinality(s) <= n}
           pick(s) == CHOOSE x \in s : TRUE
           Ok(it, n) == it = [s \in Small(n) |-> IF s = {} THEN 0 ELSE F[pick(s)] + it[s \ {pick(s)}]]
           Done(n) == \E it : Ok(it, n)
           Bad == {n \in Nat : ~Done(n)}
<1>0. \A s \in SUBSET S : /\ Cardinality(s) \in Nat /\ (Cardinality(s) = 0 <=> s = {})
                          /\ s # {} => pick(s) \in s /\ s \ {pick(s)} \in SUBSET S
                                       /\ Cardinality(s \ {pick(s)}) = Cardinality(s) - 1
  <2> SUFFICES ASSUME NEW s \in SUBSET S
               PROVE  /\ Cardinality(s) \in Nat /\ (Cardinality(s) = 0 <=> s = {})
                      /\ s # {} => pick(s) \in s /\ s \ {pick(s)} \in SUBSET S
                                   /\ Cardinality(s \ {pick(s)}) = Cardinality(s) - 1
    OBVIOUS
  <2>1. IsFiniteSet(s) /\ Cardinality(s) \in Nat
    BY FS_Subset, FS_CardinalityType
  <2>2. Cardinality(s) = 0 <=> s = {}
    BY <2>1, FS_EmptySet
  <2>3. s # {} => pick(s) \in s
    OBVIOUS
  <2>4. s # {} => Cardinality(s \ {pick(s)}) = Cardinality(s) - 1
    BY <2>1, <2>3, FS_RemoveElement
  <2> QED
    BY <2>1, <2>2, <2>3, <2>4
<1> HIDE DEF pick
<1>1. Bad = {}
  <2> SUFFICES ASSUME Bad # {} PROVE FALSE
    OBVIOUS
  <2>1. PICK n \in Bad : \A k \in Bad : n <= k
    BY LeastNatural
  <2>2. Done(0)
    <3>1. Ok([s \in Small(0) |-> 0], 0)
      BY <1>0
    <3> HIDE DEF Ok
    <3> QED
      BY <3>1
  <2>3. n # 0 /\ n - 1 \in Nat /\ Done(n - 1) /\ ~Done(n)
    <3> HIDE DEF Done
    <3>1. n \in Nat /\ ~Done(n) /\ n # 0
      BY <2>1, <2>2
    <3>2. n - 1 \in Nat /\ ~(n <= n - 1)
      BY <3>1
    <3>3. n - 1 \notin Bad
      BY <2>1, <3>2
    <3> QED
      BY <3>1, <3>2, <3>3
  <2>4. PICK it : Ok(it, n - 1)
    BY <2>3
  <2> DEFINE h == [s \in Small(n) |-> IF s = {} THEN 0 ELSE F[pick(s)] + it[s \ {pick(s)}]]
  <2>5. ASSUME NEW s \in Small(n), s # {} PROVE h[s \ {pick(s)}] = it[s \ {pick(s)}]
    <3> DEFINE t == s \ {pick(s)}
    <3>1. t \in Small(n - 1) /\ t \in Small(n)
      BY <1>0, <2>1, <2>3, <2>5
    <3>2. h[t] = IF t = {} THEN 0 ELSE F[pick(t)] + it[t \ {pick(t)}]
      BY <3>1
    <3>3. it[t] = IF t = {} THEN 0 ELSE F[pick(t)] + it[t \ {pick(t)}]
      BY <2>4, <3>1, Zenon
    <3> QED
      BY <3>2, <3>3
  <2>6. Ok(h, n)
    <3> DEFINE k == [s \in Small(n) |-> IF s = {} THEN 0 ELSE F[pick(s)] + h[s \ {pick(s)}]]
    <3>1. \A s \in Small(n) : h[s] = k[s]
      BY <2>5
    <3>2. h = k
      BY <3>1
    <3> QED
      BY <3>2
  <2> HIDE DEF Ok
  <2> QED
    BY <2>3, <2>6
<1>2. Cardinality(S) \in Nat /\ \A s \in SUBSET S : Cardinality(s) <= Cardinality(S)
  BY FS_CardinalityType, FS_Subset
<1>3. PICK it : Ok(it, Cardinality(S))
  <2> HIDE DEF Ok
  <2> QED
    BY <1>1, <1>2
<1>4. Small(Cardinality(S)) = SUBSET S
  BY <1>2
<1>5. Sums(it, S, F)
  <2> HIDE DEF Small
  <2> QED
    BY <1>3, <1>4 DEF Sums, pick
<1> QED
  BY <1>5

\* It is in the set of integers, or of natural numbers, that all summands are in.
LEMMA SumTyped ==
  ASSUME NEW S, IsFiniteSet(S), NEW N, N = Nat \/ N = Int, NEW F \in [S -> N],
         NEW iter, Sums(iter, S, F)
  PROVE  iter[S] \in N
<1> DEFINE Bad == {n \in Nat : \E s \in SUBSET S : Cardinality(s) = n /\ iter[s] \notin N}
<1>1. \A s \in SUBSET S : IsFiniteSet(s) /\ Cardinality(s) \in Nat
  BY FS_Subset, FS_CardinalityType
<1>2. CASE Bad # {}
  <2>1. PICK n \in Bad : \A k \in Bad : n <= k
    BY <1>2, LeastNatural
  <2>2. PICK s \in SUBSET S : Cardinality(s) = n /\ iter[s] \notin N
    BY <2>1
  <2> DEFINE x == CHOOSE x \in s : TRUE
  <2>3. iter[s] = IF s = {} THEN 0 ELSE F[x] + iter[s \ {x}]
    BY <2>2 DEF Sums
  <2>4. s # {}
    BY <2>2, <2>3
  <2>5. x \in s /\ F[x] \in N
    BY <2>4
  <2>6. Cardinality(s \ {x}) = n - 1 /\ s \ {x} \in SUBSET S
    BY <1>1, <2>2, <2>5, FS_RemoveElement
  <2>7. n - 1 \in Nat /\ n \in Nat
    BY <1>1, <2>6, <2>1
  <2>8. iter[s \ {x}] \in N
    BY <2>1, <2>6, <2>7
  <2> HIDE DEF x
  <2> QED
    BY <2>2, <2>3, <2>4, <2>5, <2>8
<1>3. CASE Bad = {}
  BY <1>1, <1>3
<1> QED
  BY <1>2, <1>3

\* Which summand is taken out first makes no difference.
LEMMA SumSplits ==
  ASSUME NEW S, IsFiniteSet(S), NEW F \in [S -> Int], NEW iter, Sums(iter, S, F)
  PROVE  \A s \in SUBSET S : iter[s] \in Int /\ \A x \in s : iter[s] = F[x] + iter[s \ {x}]
<1> DEFINE Good(s) == iter[s] \in Int /\ \A x \in s : iter[s] = F[x] + iter[s \ {x}]
           Bad == {n \in Nat : \E s \in SUBSET S : Cardinality(s) = n /\ ~Good(s)}
<1>1. \A s \in SUBSET S : IsFiniteSet(s) /\ Cardinality(s) \in Nat
  BY FS_Subset, FS_CardinalityType
<1>2. \A s \in SUBSET S : \A x \in s :
        s \ {x} \in SUBSET S /\ Cardinality(s \ {x}) = Cardinality(s) - 1 /\ Cardinality(s) \in Nat
  BY <1>1, FS_RemoveElement
<1>3. CASE Bad # {}
  <2>1. PICK n \in Bad : \A k \in Bad : n <= k
    BY <1>3, LeastNatural
  <2>2. PICK s \in SUBSET S : Cardinality(s) = n /\ ~Good(s)
    BY <2>1
  <2> HIDE DEF Good
  <2>3. \A x \in s : Good(s \ {x})
    <3> SUFFICES ASSUME NEW x \in s PROVE Good(s \ {x})
      OBVIOUS
    <3>1. s \ {x} \in SUBSET S /\ Cardinality(s \ {x}) = n - 1 /\ n \in Nat
      BY <1>2, <2>2
    <3>2. n - 1 \in Nat /\ n - 1 \notin Bad
      BY <1>1, <2>1, <3>1
    <3> QED
      BY <3>1, <3>2
  <2> DEFINE y == CHOOSE x \in s : TRUE
  <2>4. iter[s] = IF s = {} THEN 0 ELSE F[y] + iter[s \ {y}]
    BY <2>2 DEF Sums
  <2>5. s = {} => Good(s)
    BY <2>4 DEF Good
  <2>6. CASE s # {}
    <3>1. y \in s
      BY <2>6
    <3>2. iter[s] = F[y] + iter[s \ {y}]
      BY <2>4, <2>6
    <3> HIDE DEF y
    <3>3. F[y] \in Int /\ iter[s \ {y}] \in Int
      BY <2>3, <3>1 DEF Good
    <3>4. ASSUME NEW x \in s PROVE iter[s] = F[x] + iter[s \ {x}]
      <4>1. CASE x = y
        BY <3>2, <4>1
      <4>2. CASE x # y
        <5>1. x \in s \ {y} /\ y \in s \ {x} /\ (s \ {y}) \ {x} = (s \ {x}) \ {y}
          BY <3>1, <4>2
        <5>2. iter[s \ {y}] = F[x] + iter[(s \ {y}) \ {x}]
          BY <2>3, <3>1, <5>1 DEF Good
        <5>3. iter[s \ {x}] = F[y] + iter[(s \ {x}) \ {y}]
          BY <2>3, <5>1 DEF Good
        <5>4. F[x] \in Int /\ iter[(s \ {x}) \ {y}] \in Int
          <6>1. s \ {x} \in SUBSET S /\ (s \ {x}) \ {y} \in SUBSET S
            OBVIOUS
          <6>2. F[x] \in Int
            OBVIOUS
          <6>3. iter[s \ {x}] \in Int
            BY <2>3 DEF Good
          <6>4. Good((s \ {x}) \ {y})
            <7>0. n \in Nat /\ Cardinality(s) = n
              BY <2>1, <2>2
            <7>a. Cardinality(s \ {x}) = n - 1
              BY <1>2, <2>2, <7>0
            <7>b. Cardinality((s \ {x}) \ {y}) = Cardinality(s \ {x}) - 1
              BY <1>2, <5>1, <6>1
            <7>c. Cardinality((s \ {x}) \ {y}) \in Nat
              BY <1>1, <6>1
            <7>1. Cardinality((s \ {x}) \ {y}) = n - 2 /\ n \in Nat /\ n - 2 \in Nat
              BY <7>0, <7>a, <7>b, <7>c
            <7>2. n - 2 \notin Bad
              BY <2>1, <7>1
            <7> QED
              BY <6>1, <7>1, <7>2
          <6> QED
            BY <6>2, <6>4 DEF Good
        <5> DEFINE w == iter[(s \ {x}) \ {y}]
        <5>5. iter[s \ {y}] = F[x] + w /\ iter[s \ {x}] = F[y] + w /\ w \in Int /\ F[x] \in Int
          BY <5>1, <5>2, <5>3, <5>4
        <5> HIDE DEF w
        <5> QED
          BY <3>2, <3>3, <5>5
      <4> QED
        BY <4>1, <4>2
    <3>5. iter[s] \in Int
      BY <3>2, <3>3
    <3> QED
      BY <2>2, <3>4, <3>5 DEF Good
  <2> QED
    BY <2>2, <2>5, <2>6
<1>4. CASE Bad = {}
  BY <1>1, <1>4
<1> QED
  BY <1>3, <1>4

\* Sums of the same numbers are the same.
LEMMA SumsAgree ==
  ASSUME NEW S, IsFiniteSet(S), NEW F, NEW R \in SUBSET S, NEW G, \A x \in R : G[x] = F[x],
         NEW iter, Sums(iter, S, F), NEW other, Sums(other, R, G)
  PROVE  \A s \in SUBSET R : other[s] = iter[s]
<1> DEFINE Bad == {n \in Nat : \E s \in SUBSET R : Cardinality(s) = n /\ other[s] # iter[s]}
<1>1. \A s \in SUBSET R : IsFiniteSet(s) /\ Cardinality(s) \in Nat
  BY FS_Subset, FS_CardinalityType
<1>2. CASE Bad # {}
  <2>1. PICK n \in Bad : \A k \in Bad : n <= k
    BY <1>2, LeastNatural
  <2>2. PICK s \in SUBSET R : Cardinality(s) = n /\ other[s] # iter[s]
    BY <2>1
  <2> DEFINE y == CHOOSE x \in s : TRUE
  <2>3. iter[s] = IF s = {} THEN 0 ELSE F[y] + iter[s \ {y}]
    BY <2>2 DEF Sums
  <2>4. other[s] = IF s = {} THEN 0 ELSE G[y] + other[s \ {y}]
    BY <2>2 DEF Sums
  <2>5. s # {}
    BY <2>2, <2>3, <2>4
  <2>6. y \in s
    BY <2>5
  <2> HIDE DEF y
  <2>7. s \ {y} \in SUBSET R /\ Cardinality(s \ {y}) = n - 1 /\ n - 1 \in Nat /\ n \in Nat
    <3>1. s \ {y} \in SUBSET R /\ IsFiniteSet(s) /\ n \in Nat
      BY <1>1, <2>1
    <3>2. Cardinality(s \ {y}) = n - 1
      BY <2>2, <2>6, <3>1, FS_RemoveElement
    <3>3. Cardinality(s \ {y}) \in Nat
      BY <1>1, <3>1
    <3> QED
      BY <3>1, <3>2, <3>3
  <2>8. n - 1 \notin Bad
    BY <2>1, <2>7
  <2>9. other[s \ {y}] = iter[s \ {y}]
    BY <2>7, <2>8
  <2>10. G[y] = F[y]
    BY <2>6
  <2> QED
    BY <2>2, <2>3, <2>4, <2>5, <2>9, <2>10
<1>3. CASE Bad = {}
  BY <1>1, <1>3
<1> QED
  BY <1>2, <1>3

\* Natural numbers up to m, by steps of one.
LEMMA UpTo ==
  ASSUME NEW m \in Nat, NEW K, 0 \in K, \A k \in 1 .. m : k - 1 \in K => k \in K
  PROVE  \A k \in 0 .. m : k \in K
<1> DEFINE S == {k \in 0 .. m : k \notin K}
<1>1. CASE S = {}
  BY <1>1
<1>2. CASE S # {}
  <2>0. S \in SUBSET Nat
    OBVIOUS
  <2> HIDE DEF S
  <2>1. PICK n \in S : \A k \in S : n <= k
    BY <1>2, <2>0, LeastNatural
  <2> USE DEF S
  <2>2. n \in 1 .. m /\ n - 1 \in 0 .. m /\ ~(n <= n - 1)
    BY <2>1
  <2> QED
    BY <2>1, <2>2
<1> QED
  BY <1>1, <1>2

----------------------------------------------------------------------------
(* Powers of two.                                                          *)

\* The powers of two up to that of m, each twice the one before.
Doubles(m) == m \in Nat /\ 2 ^ 0 = 1 /\ \A n \in 1 .. m : 2 ^ n = 2 * 2 ^ (n - 1)

\* They are positive.
LEMMA PowersPositive ==
  ASSUME NEW m, Doubles(m)
  PROVE  \A n \in 0 .. m : 2 ^ n \in Nat /\ 2 ^ n > 0
<1> DEFINE K == {n \in 0 .. m : 2 ^ n \in Int /\ 2 ^ n > 0}
<1>1. m \in Nat /\ 0 \in K
  BY DEF Doubles
<1>2. ASSUME NEW k \in 1 .. m, k - 1 \in K PROVE k \in K
  <2>1. k - 1 \in Int /\ 2 ^ (k - 1) \in Int /\ 2 ^ (k - 1) > 0 /\ 2 ^ k = 2 * 2 ^ (k - 1)
    BY <1>1, <1>2 DEF Doubles
  <2> QED
    BY <1>1, <2>1
<1> HIDE DEF K
<1>3. \A n \in 0 .. m : n \in K
  BY <1>1, <1>2, UpTo
<1> QED
  BY <1>3 DEF K

\* They multiply as their exponents add.
LEMMA PowersAdd ==
  ASSUME NEW m, Doubles(m), NEW a \in Nat, NEW b \in Nat, a + b <= m
  PROVE  2 ^ (a + b) = 2 ^ a * 2 ^ b
<1> DEFINE K == {n \in 0 .. b : 2 ^ (a + n) = 2 ^ a * 2 ^ n}
<1>1. \A n \in 0 .. m : 2 ^ n \in Int
  BY PowersPositive
<1>2. 0 \in K
  BY <1>1 DEF Doubles
<1>3. ASSUME NEW k \in 1 .. b, k - 1 \in K PROVE k \in K
  <2>1. 2 ^ (a + (k - 1)) = 2 ^ a * 2 ^ (k - 1)
    BY <1>3
  <2>2. /\ a + k \in 1 .. m /\ k \in 1 .. m /\ a + k - 1 = a + (k - 1) /\ m \in Nat
        /\ a \in 0 .. m /\ k - 1 \in 0 .. m
    BY DEF Doubles
  <2>3. 2 ^ (a + k) = 2 * 2 ^ (a + (k - 1)) /\ 2 ^ k = 2 * 2 ^ (k - 1)
    BY <2>2 DEF Doubles
  <2> DEFINE x == 2 ^ a
             y == 2 ^ (k - 1)
  <2>4. x \in Int /\ y \in Int
    BY <1>1, <2>2
  <2>5. 2 ^ (a + k) = 2 * (x * y) /\ 2 ^ k = 2 * y
    BY <2>1, <2>3
  <2> HIDE DEF x, y
  <2>6. 2 * (x * y) = x * (2 * y)
    BY <2>4
  <2>7. 2 ^ (a + k) = x * 2 ^ k
    BY <2>5, <2>6
  <2> QED
    BY <2>7 DEF x
<1> HIDE DEF K
<1>4. \A n \in 0 .. b : n \in K
  BY <1>2, <1>3, UpTo
<1> QED
  BY <1>4 DEF K

----------------------------------------------------------------------------
(* The numbers leb128.Read yields.                                         *)

\* leb128.Read consumes bytes it was given.
LEMMA ConsumedInBytes ==
  ASSUME NEW b, Len(b) \in Nat, DOMAIN b = 1 .. Len(b), NEW maxbit
  PROVE  Consumed(b, maxbit) \in 0 .. Len(b)
<1> DEFINE S == {i \in DOMAIN b : StopsAt(b, maxbit, i)}
<1>1. CASE S = {}
  BY <1>1 DEF Consumed
<1>2. CASE S # {}
  <2>0. S \in SUBSET Nat
    OBVIOUS
  <2>1. PICK m \in S : \A k \in S : m <= k
    BY <1>2, <2>0, LeastNatural
  <2>2. \A j \in 1 .. m - 1 : j \in DOMAIN b /\ ~StopsAt(b, maxbit, j)
    BY <2>1
  <2> QED
    BY <2>1, <2>2 DEF Consumed
<1> QED
  BY <1>1, <1>2

\* What the i-th byte adds to a number.
Digit(b, i) == Group(b[i]) * 2 ^ (GroupBits * (i - 1))

DigitsOf(b, n) == [i \in 1 .. n |-> Digit(b, i)]

\* A number is the sum of them.
LEMMA MagnitudeIsSum ==
  ASSUME NEW B, B \subseteq Int, NEW b \in Seq(B), NEW n \in 0 .. Len(b)
  PROVE  /\ DigitsOf(b, n) \in [1 .. n -> Int] /\ IsFiniteSet(1 .. n)
         /\ \E it : Sums(it, 1 .. n, DigitsOf(b, n)) /\ Magnitude(b, n) = it[1 .. n]
<1> DEFINE S == 1 .. n
           F == [i \in S |-> Digit(b, i)]
           Eq(it) == it = [s \in SUBSET S |->
                       IF s = {} THEN 0
                       ELSE LET x == CHOOSE x \in s : TRUE IN Digit(b, x) + it[s \ {x}]]
           it == CHOOSE it : Eq(it)
<1>1. Magnitude(b, n) = it[S]
  BY DEF Magnitude, MapThenSumSet, MapThenFoldSet, Digit
<1>2. \A i \in S : Digit(b, i) \in Int
  <2> SUFFICES ASSUME NEW i \in S PROVE Digit(b, i) \in Int
    OBVIOUS
  <2>0. Len(b) \in Nat /\ i \in 1 .. Len(b) /\ i - 1 \in Nat
    OBVIOUS
  <2>1. b[i] \in Int /\ GroupBits \in Nat /\ i - 1 \in Nat
    <3>1. b[i] \in B
      BY <2>0, ElementOfSeq
    <3>3. b[i] \in Int
      BY <3>1
    <3> QED
      BY <2>0, <3>3, Leb128Assumption, Zenon
  <2>2. Group(b[i]) \in Int
    BY <2>1, PowersAssumption DEF Group
  <2>3. GroupBits * (i - 1) \in Nat
    BY <2>1
  <2>4. 2 ^ (GroupBits * (i - 1)) \in Int
    BY <2>3
  <2> QED
    BY <2>2, <2>4 DEF Digit
<1>3. F \in [S -> Int] /\ IsFiniteSet(S) /\ \A i \in S : F[i] = Digit(b, i)
  BY <1>2, FS_Interval
<1> HIDE DEF F, S
<1>4. ASSUME NEW iter PROVE Eq(iter) <=> Sums(iter, S, F)
  <2> DEFINE f == [s \in SUBSET S |->
                       IF s = {} THEN 0
                       ELSE LET x == CHOOSE x \in s : TRUE IN Digit(b, x) + iter[s \ {x}]]
             g == [s \in SUBSET S |->
                       IF s = {} THEN 0
                       ELSE LET x == CHOOSE x \in s : TRUE IN F[x] + iter[s \ {x}]]
  <2>1. \A s \in SUBSET S : f[s] = g[s]
    BY <1>3
  <2>2. f = g
    BY <2>1
  <2> QED
    BY <2>2 DEF Sums
<1>5. \E iter : Eq(iter)
  <2> HIDE DEF Eq
  <2>1. PICK iter : Sums(iter, S, F)
    BY <1>3, SumExists
  <2> QED
    BY <1>4, <2>1
<1>6. Eq(it)
  <2> HIDE DEF Eq
  <2> QED
    BY <1>5
<1>7. Sums(it, S, F)
  BY <1>4, <1>6
<1> HIDE DEF it, Eq
<1>8. S = 1 .. n /\ F = DigitsOf(b, n)
  BY DEF S, F, DigitsOf
<1> QED
  BY <1>1, <1>3, <1>7, <1>8

\* It is an integer.
LEMMA MagnitudeTyped ==
  ASSUME NEW B, B \subseteq Int, NEW b \in Seq(B), NEW n \in 0 .. Len(b)
  PROVE  Magnitude(b, n) \in Int
<1>1. PICK it : Sums(it, 1 .. n, DigitsOf(b, n)) /\ Magnitude(b, n) = it[1 .. n]
  BY MagnitudeIsSum
<1>2. DigitsOf(b, n) \in [1 .. n -> Int] /\ IsFiniteSet(1 .. n)
  BY MagnitudeIsSum
<1>3. it[1 .. n] \in Int
  BY <1>1, <1>2, SumTyped
<1> QED
  BY <1>1, <1>3

\* No bytes are zero.
LEMMA MagnitudeOfNone ==
  ASSUME NEW B, B \subseteq Int, NEW b \in Seq(B)
  PROVE  Magnitude(b, 0) = 0
<1>1. Len(b) \in Nat /\ 0 \in 0 .. Len(b) /\ 1 .. 0 = {}
  OBVIOUS
<1>2. PICK it : Sums(it, 1 .. 0, DigitsOf(b, 0)) /\ Magnitude(b, 0) = it[1 .. 0]
  BY <1>1, MagnitudeIsSum
<1>3. it[{}] = 0
  BY <1>1, <1>2 DEF Sums
<1> QED
  BY <1>1, <1>2, <1>3

\* A byte more adds what it is worth.
LEMMA MagnitudeNext ==
  ASSUME NEW B, B \subseteq Int, NEW b \in Seq(B), NEW n \in Nat, n + 1 <= Len(b)
  PROVE  /\ Digit(b, n + 1) \in Int
         /\ Magnitude(b, n + 1) = Magnitude(b, n) + Digit(b, n + 1)
<1> DEFINE F == DigitsOf(b, n + 1)
           G == DigitsOf(b, n)
           S == 1 .. n + 1
           R == 1 .. n
<1>1. Len(b) \in Nat /\ n \in 0 .. Len(b) /\ n + 1 \in 0 .. Len(b)
  OBVIOUS
<1>2. F \in [S -> Int] /\ IsFiniteSet(S) /\ \E it : Sums(it, S, F) /\ Magnitude(b, n + 1) = it[S]
  BY <1>1, MagnitudeIsSum
<1>3. \E it : Sums(it, R, G) /\ Magnitude(b, n) = it[R]
  BY <1>1, MagnitudeIsSum
<1>4. n + 1 \in S /\ S \ {n + 1} = R /\ R \in SUBSET S
  OBVIOUS
<1>5. F[n + 1] = Digit(b, n + 1) /\ \A x \in R : G[x] = F[x]
  BY <1>4 DEF DigitsOf
<1> HIDE DEF F, G, S, R
<1>6. PICK it : Sums(it, S, F) /\ Magnitude(b, n + 1) = it[S]
  BY <1>2
<1>7. PICK ot : Sums(ot, R, G) /\ Magnitude(b, n) = ot[R]
  BY <1>3
<1>8. it[S] = F[n + 1] + it[S \ {n + 1}] /\ it[R] \in Int
  BY <1>2, <1>4, <1>6, SumSplits
<1>9. ot[R] = it[R]
  <2>1. IsFiniteSet(S) /\ R \in SUBSET S /\ \A x \in R : G[x] = F[x]
    BY <1>2, <1>4, <1>5
  <2>2. Sums(it, S, F) /\ Sums(ot, R, G)
    BY <1>6, <1>7
  <2>3. \A s \in SUBSET R : ot[s] = it[s]
    BY <2>1, <2>2, SumsAgree
  <2> QED
    BY <2>3
<1>10. Digit(b, n + 1) \in Int
  BY <1>2, <1>4, <1>5
<1>11. it[S] = F[n + 1] + it[R]
  BY <1>4, <1>8
<1>12. Magnitude(b, n + 1) = F[n + 1] + it[R] /\ Magnitude(b, n) = it[R]
  BY <1>6, <1>7, <1>9, <1>11
<1>13. F[n + 1] + it[R] = it[R] + F[n + 1]
  BY <1>5, <1>8, <1>10
<1> QED
  BY <1>5, <1>10, <1>12, <1>13
=============================================================================
