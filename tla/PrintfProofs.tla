---------------------------- MODULE PrintfProofs ----------------------------
(***************************************************************************)
(* Proofs about module Printf, for every size of the buffer, every width   *)
(* of int and long, every format and every arguments: the host gets no     *)
(* byte that was not written, a message of the kernel arrives as its       *)
(* format and arguments say, and so does a line of the application,        *)
(* although the kernel formats it a second time.                           *)
(*                                                                         *)
(* The digits of a number and the text of a format are defined by          *)
(* recursion, so the first lemmas are about induction and recursion on     *)
(* the naturals, with the property given as a set.                         *)
(***************************************************************************)
EXTENDS Printf, FiniteSetTheorems, SequenceTheorems, WellFoundedInduction, TLAPS

---------------------------------------------------------------------------
(* Induction and recursion on the naturals.                                *)

\* A set of natural numbers that is not empty has a smallest.
LEMMA Smallest ==
  ASSUME NEW T, T \subseteq Nat, T # {}
  PROVE  \E x \in T : \A y \in T : x <= y
<1>1. PICK x \in T : \A y \in T : ~(<<y, x>> \in OpToRel(<, Nat))
  BY NatLessThanWellFounded, WFMin
<1>2. OpToRel(<, Nat) = {ss \in Nat \X Nat : ss[1] < ss[2]}
  BY DEF OpToRel
<1>3. \A y \in T : ~(<<y, x>> \in {ss \in Nat \X Nat : ss[1] < ss[2]})
  BY <1>1, <1>2, Zenon
<1>4. ASSUME NEW y \in T PROVE x <= y
  <2>1. ~(<<y, x>> \in {ss \in Nat \X Nat : ss[1] < ss[2]})
    BY <1>3
  <2>2. <<y, x>> \in Nat \X Nat /\ <<y, x>>[1] = y /\ <<y, x>>[2] = x
    OBVIOUS
  <2>3. ~(y < x)
    BY <2>1, <2>2, Zenon
  <2> QED BY <2>3
<1> QED BY <1>4

\* Induction, the property given as a set.
LEMMA SetInduction ==
  ASSUME NEW S, 0 \in S, \A n \in Nat : n \in S => n + 1 \in S
  PROVE  Nat \subseteq S
<1> SUFFICES ASSUME NEW T, T = Nat \ S, T # {} PROVE FALSE
  OBVIOUS
<1>1. PICK x \in T : \A y \in T : x <= y
  BY Smallest
<1>2. x - 1 \in Nat /\ x - 1 \in S
  BY <1>1
<1>3. x - 1 + 1 \in S /\ x - 1 + 1 = x
  BY <1>1, <1>2
<1> QED BY <1>3

\* g starts at a, and F[n] takes its value at n to the next.
Iterates(X, a, F, g) ==
  g \in [Nat -> X] /\ g[0] = a /\ \A n \in Nat : g[n + 1] = F[n][g[n]]

\* A function may be defined by recursion, its steps given as a function.
LEMMA Recursion ==
  ASSUME NEW X, NEW a \in X, NEW F \in [Nat -> [X -> X]]
  PROVE  \E g : Iterates(X, a, F, g)
<1> DEFINE Part(h, n) == /\ h \in [0..n -> X] /\ h[0] = a
                         /\ \A i \in 0..(n - 1) : h[i + 1] = F[i][h[i]]
           S == {n \in Nat : \E h : Part(h, n)}
           Same(i, n, m) == \A h, k : Part(h, n) /\ Part(k, m) => h[i] = k[i]
           E == {i \in Nat : \A n, m \in Nat : i <= n /\ i <= m => Same(i, n, m)}
<1>1. \A n : n \in S <=> n \in Nat /\ \E h : Part(h, n)
  <2> HIDE DEF Part
  <2> QED OBVIOUS
<1>2. \A i : i \in E <=> i \in Nat /\ \A n, m \in Nat : i <= n /\ i <= m => Same(i, n, m)
  <2> HIDE DEF Same
  <2> QED OBVIOUS
<1>3. \A i, n, m : Same(i, n, m) <=> \A h, k : Part(h, n) /\ Part(k, m) => h[i] = k[i]
  <2> HIDE DEF Part
  <2> QED OBVIOUS
<1> HIDE DEF S, E, Same
<1>4. Nat \subseteq S
  <2>1. 0 \in S
    <3>1. Part([i \in 0..0 |-> a], 0)
      OBVIOUS
    <3> HIDE DEF Part
    <3> QED BY <1>1, <3>1
  <2>2. ASSUME NEW n \in Nat, n \in S PROVE n + 1 \in S
    <3>1. \E h : Part(h, n)
      <4> HIDE DEF Part
      <4> QED BY <1>1, <2>2
    <3>2. PICK h : Part(h, n)
      BY <3>1
    <3> DEFINE k == [i \in 0..(n + 1) |-> IF i <= n THEN h[i] ELSE F[n][h[n]]]
    <3>3. k \in [0..(n + 1) -> X] /\ k[0] = a
      BY <3>2
    <3>4. ASSUME NEW i \in 0..((n + 1) - 1) PROVE k[i + 1] = F[i][k[i]]
      <4>1. i \in 0..n /\ i + 1 \in 0..(n + 1) /\ i \in 0..(n + 1) /\ k[i] = h[i]
        OBVIOUS
      <4>2. CASE i = n
        BY <4>1, <4>2
      <4>3. CASE i # n
        <5>1. i \in 0..(n - 1) /\ i + 1 <= n
          BY <4>1, <4>3
        <5>2. k[i + 1] = h[i + 1]
          BY <4>1, <5>1
        <5> QED BY <3>2, <4>1, <5>1, <5>2
      <4> QED BY <4>2, <4>3
    <3> HIDE DEF k
    <3>5. Part(k, n + 1)
      BY <3>3, <3>4
    <3> HIDE DEF Part
    <3> QED BY <1>1, <3>5
  <2> QED BY <2>1, <2>2, SetInduction
<1>5. Nat \subseteq E
  <2>1. 0 \in E
    <3>1. ASSUME NEW n \in Nat, NEW m \in Nat PROVE Same(0, n, m)
      <4>1. \A h, k : Part(h, n) /\ Part(k, m) => h[0] = k[0]
        OBVIOUS
      <4> HIDE DEF Part
      <4> QED BY <1>3, <4>1
    <3> QED BY <1>2, <3>1
  <2>2. ASSUME NEW i \in Nat, i \in E PROVE i + 1 \in E
    <3>1. ASSUME NEW n \in Nat, NEW m \in Nat, i + 1 <= n, i + 1 <= m
          PROVE  Same(i + 1, n, m)
      <4>1. ASSUME NEW h, NEW k, Part(h, n), Part(k, m) PROVE h[i + 1] = k[i + 1]
        <5>1. Same(i, n, m)
          BY <1>2, <2>2, <3>1
        <5>2. h[i] = k[i]
          <6> HIDE DEF Part
          <6> QED BY <1>3, <4>1, <5>1
        <5>3. i \in 0..(n - 1) /\ i \in 0..(m - 1)
          BY <3>1
        <5>4. h[i + 1] = F[i][h[i]] /\ k[i + 1] = F[i][k[i]]
          BY <4>1, <5>3
        <5> QED BY <5>2, <5>4
      <4> HIDE DEF Part
      <4> QED BY <1>3, <4>1
    <3> QED BY <1>2, <3>1
  <2> QED BY <2>1, <2>2, SetInduction
<1> DEFINE H(n) == CHOOSE h : Part(h, n)
           g == [n \in Nat |-> H(n)[n]]
<1>6. \A n \in Nat : Part(H(n), n)
  <2> HIDE DEF Part
  <2> QED BY <1>4, <1>1
<1>7. \A n, m \in Nat, i \in Nat : i <= n /\ i <= m => H(n)[i] = H(m)[i]
  <2> SUFFICES ASSUME NEW n \in Nat, NEW m \in Nat, NEW i \in Nat, i <= n, i <= m
               PROVE  H(n)[i] = H(m)[i]
    OBVIOUS
  <2> HIDE DEF H, Part
  <2>1. Same(i, n, m) /\ Part(H(n), n) /\ Part(H(m), m)
    BY <1>5, <1>6, <1>2
  <2> QED BY <2>1, <1>3
<1> HIDE DEF H
<1>8. g \in [Nat -> X] /\ g[0] = a
  <2>1. \A n \in Nat : H(n) \in [0..n -> X] /\ H(n)[0] = a
    BY <1>6
  <2>2. \A n \in Nat : H(n)[n] \in X
    BY <2>1
  <2> QED BY <2>1, <2>2
<1>9. ASSUME NEW n \in Nat PROVE g[n + 1] = F[n][g[n]]
  <2>1. n + 1 \in Nat /\ n \in 0..((n + 1) - 1)
    OBVIOUS
  <2>2. H(n + 1)[n + 1] = F[n][H(n + 1)[n]]
    BY <1>6, <2>1
  <2>3. H(n + 1)[n] = H(n)[n]
    BY <1>7, <2>1
  <2> QED BY <2>1, <2>2, <2>3
<1> HIDE DEF g
<1>10. Iterates(X, a, F, g)
  BY <1>8, <1>9 DEF Iterates
<1> QED BY <1>10

---------------------------------------------------------------------------
(* The functions that are defined by recursion.                            *)

\* The powers of 16 by their recursion.
LEMMA Powers ==
  /\ Pow16 \in [Nat -> Nat \ {0}] /\ Pow16[0] = 1
  /\ \A k \in Nat : Pow16[k + 1] = 16 * Pow16[k]
<1> DEFINE X == Nat \ {0}
           F == [k \in Nat |-> [x \in X |-> 16 * x]]
           Eq(g) == g = [k \in Nat |-> IF k = 0 THEN 1 ELSE 16 * g[k - 1]]
<1>1. 1 \in X /\ F \in [Nat -> [X -> X]]
  OBVIOUS
<1>2. PICK g : Iterates(X, 1, F, g)
  <2> HIDE DEF X, F
  <2> QED BY <1>1, Recursion
<1>3. g \in [Nat -> X] /\ g[0] = 1
  BY <1>2 DEF Iterates
<1>4. \A n \in Nat : g[n + 1] = 16 * g[n]
  BY <1>2 DEF Iterates
<1>5. Eq(g)
  <2>1. \A k \in Nat : g[k] = IF k = 0 THEN 1 ELSE 16 * g[k - 1]
    <3> TAKE k \in Nat
    <3>1. CASE k = 0 BY <3>1, <1>3
    <3>2. CASE k # 0
      <4>1. k - 1 \in Nat /\ k - 1 + 1 = k
        BY <3>2
      <4> QED BY <1>4, <3>2, <4>1
    <3> QED BY <3>1, <3>2
  <2> QED BY <2>1, <1>3
<1>6. Eq(Pow16)
  <2> HIDE DEF Eq
  <2>1. Eq(CHOOSE h : Eq(h))
    BY <1>5
  <2> USE DEF Eq
  <2> QED BY <2>1 DEF Pow16
<1> DEFINE S == {k \in Nat : Pow16[k] = g[k]}
<1>7. Nat \subseteq S
  <2>1. 0 \in S
    BY <1>3, <1>6
  <2>2. ASSUME NEW n \in Nat, n \in S PROVE n + 1 \in S
    <3>1. Pow16[n + 1] = 16 * Pow16[n]
      BY <1>6
    <3> QED BY <1>4, <2>2, <3>1
  <2> HIDE DEF S
  <2> QED BY <2>1, <2>2, SetInduction
<1>8. Pow16 = g
  BY <1>6, <1>7, <1>3
<1> QED BY <1>3, <1>4, <1>8

\* The shifts by 4 bits of the loop of %x, by their recursion.
LEMMA Shifts ==
  ASSUME NEW n \in Int
  PROVE  /\ Shifted(n) \in [Nat -> Int] /\ Shifted(n)[0] = n
         /\ \A i \in Nat : Shifted(n)[i + 1] = Shifted(n)[i] \div 16
<1> DEFINE F == [k \in Nat |-> [x \in Int |-> x \div 16]]
           Eq(g) == g = [i \in Nat |-> IF i = 0 THEN n ELSE g[i - 1] \div 16]
<1>1. F \in [Nat -> [Int -> Int]]
  OBVIOUS
<1>2. PICK g : Iterates(Int, n, F, g)
  <2> HIDE DEF F
  <2> QED BY <1>1, Recursion
<1>3. g \in [Nat -> Int] /\ g[0] = n
  BY <1>2 DEF Iterates
<1>4. \A i \in Nat : g[i + 1] = g[i] \div 16
  BY <1>2 DEF Iterates
<1>5. Eq(g)
  <2>1. \A i \in Nat : g[i] = IF i = 0 THEN n ELSE g[i - 1] \div 16
    <3> TAKE i \in Nat
    <3>1. CASE i = 0 BY <3>1, <1>3
    <3>2. CASE i # 0
      <4>1. i - 1 \in Nat /\ i - 1 + 1 = i
        BY <3>2
      <4> QED BY <1>4, <3>2, <4>1
    <3> QED BY <3>1, <3>2
  <2> QED BY <2>1, <1>3
<1>6. Eq(Shifted(n))
  <2> HIDE DEF Eq
  <2>1. Eq(CHOOSE h : Eq(h))
    BY <1>5
  <2> USE DEF Eq
  <2> QED BY <2>1 DEF Shifted
<1> DEFINE S == {k \in Nat : Shifted(n)[k] = g[k]}
<1>7. Nat \subseteq S
  <2>1. 0 \in S
    BY <1>3, <1>6
  <2>2. ASSUME NEW i \in Nat, i \in S PROVE i + 1 \in S
    <3>1. Shifted(n)[i + 1] = Shifted(n)[i] \div 16
      BY <1>6
    <3> QED BY <1>4, <2>2, <3>1
  <2> HIDE DEF S
  <2> QED BY <2>1, <2>2, SetInduction
<1>8. Shifted(n) = g
  BY <1>6, <1>7, <1>3
<1> QED BY <1>3, <1>4, <1>8

\* The quotient is an integer.
LEMMA Quots == \A n \in Int : Quot(n) \in Int
  BY DEF Quot

\* The divisions by 10 of the loops of %d, by their recursion.
LEMMA Divisions ==
  ASSUME NEW n \in Int
  PROVE  /\ Divided(n) \in [Nat -> Int] /\ Divided(n)[0] = n
         /\ \A k \in Nat : Divided(n)[k + 1] = Quot(Divided(n)[k])
<1> DEFINE F == [k \in Nat |-> [x \in Int |-> Quot(x)]]
           Eq(g) == g = [k \in Nat |-> IF k = 0 THEN n ELSE Quot(g[k - 1])]
<1>1. F \in [Nat -> [Int -> Int]]
  BY Quots
<1>2. PICK g : Iterates(Int, n, F, g)
  <2> HIDE DEF F
  <2> QED BY <1>1, Recursion
<1>3. g \in [Nat -> Int] /\ g[0] = n
  BY <1>2 DEF Iterates
<1>4. \A i \in Nat : g[i + 1] = Quot(g[i])
  BY <1>2 DEF Iterates
<1>5. Eq(g)
  <2>1. \A i \in Nat : g[i] = IF i = 0 THEN n ELSE Quot(g[i - 1])
    <3> TAKE i \in Nat
    <3>1. CASE i = 0 BY <3>1, <1>3
    <3>2. CASE i # 0
      <4>1. i - 1 \in Nat /\ i - 1 + 1 = i
        BY <3>2
      <4> QED BY <1>4, <3>2, <4>1
    <3> QED BY <3>1, <3>2
  <2> QED BY <2>1, <1>3
<1>6. Eq(Divided(n))
  <2> HIDE DEF Eq
  <2>1. Eq(CHOOSE h : Eq(h))
    BY <1>5
  <2> USE DEF Eq
  <2> QED BY <2>1 DEF Divided
<1> DEFINE S == {k \in Nat : Divided(n)[k] = g[k]}
<1>7. Nat \subseteq S
  <2>1. 0 \in S
    BY <1>3, <1>6
  <2>2. ASSUME NEW i \in Nat, i \in S PROVE i + 1 \in S
    <3>1. Divided(n)[i + 1] = Quot(Divided(n)[i])
      BY <1>6
    <3> QED BY <1>4, <2>2, <3>1
  <2> HIDE DEF S
  <2> QED BY <2>1, <2>2, SetInduction
<1>8. Divided(n) = g
  BY <1>6, <1>7, <1>3
<1> QED BY <1>3, <1>4, <1>8

\* g[i] is what the first i of the sequences s say, one after the other.
Joined(A, s, g) ==
  /\ g \in [0..Len(s) -> Seq(A)] /\ g[0] = << >>
  /\ \A i \in 1..Len(s) : g[i] = g[i - 1] \o s[i]

\* The concatenation of a sequence of sequences, built up one by one.
LEMMA Flattened ==
  ASSUME NEW A, NEW s \in Seq(Seq(A))
  PROVE  \E g : Joined(A, s, g) /\ FlattenSeq(s) = g[Len(s)]
<1> DEFINE X == Seq(A)
           F == [n \in Nat |-> [x \in X |-> IF n + 1 <= Len(s) THEN x \o s[n + 1] ELSE x]]
           Eq(f) == f = [i \in 1..Len(s) |-> IF i = 1 THEN s[i] ELSE f[i - 1] \o s[i]]
<1>1. << >> \in X /\ F \in [Nat -> [X -> X]]
  <2>1. ASSUME NEW n \in Nat, NEW x \in X
        PROVE  (IF n + 1 <= Len(s) THEN x \o s[n + 1] ELSE x) \in X
    <3>1. CASE n + 1 <= Len(s)
      <4>1. n + 1 \in 1..Len(s)
        BY <3>1
      <4>2. s[n + 1] \in Seq(A)
        BY <4>1
      <4> QED BY <3>1, <4>2
    <3>2. CASE ~(n + 1 <= Len(s))
      BY <3>2
    <3> QED BY <3>1, <3>2
  <2> QED BY <2>1
<1>2. PICK h : Iterates(X, << >>, F, h)
  <2> HIDE DEF X, F
  <2> QED BY <1>1, Recursion
<1>3. h \in [Nat -> Seq(A)] /\ h[0] = << >>
  BY <1>2 DEF Iterates
<1>4. \A i \in 1..Len(s) : h[i] = h[i - 1] \o s[i]
  <2> TAKE i \in 1..Len(s)
  <2>1. i - 1 \in Nat /\ i - 1 + 1 = i /\ i <= Len(s)
    OBVIOUS
  <2>2. h[i - 1] \in X
    BY <1>3, <2>1
  <2>3. h[i - 1 + 1] = F[i - 1][h[i - 1]]
    BY <1>2, <2>1 DEF Iterates
  <2> QED BY <2>1, <2>2, <2>3
<1> DEFINE g == [i \in 0..Len(s) |-> h[i]]
<1>5. Joined(A, s, g)
  <2>1. 0 \in 0..Len(s) /\ \A i \in 1..Len(s) : i \in 0..Len(s) /\ i - 1 \in 0..Len(s)
    OBVIOUS
  <2>2. g \in [0..Len(s) -> Seq(A)] /\ g[0] = << >>
    BY <1>3, <2>1
  <2>3. \A i \in 1..Len(s) : g[i] = h[i] /\ g[i - 1] = h[i - 1]
    BY <2>1
  <2> HIDE DEF g
  <2> QED BY <1>4, <2>2, <2>3 DEF Joined
<1>6. FlattenSeq(s) = g[Len(s)]
  <2>1. CASE Len(s) = 0
    <3>1. s = << >> /\ FlattenSeq(s) = s
      BY <2>1 DEF FlattenSeq
    <3> QED BY <2>1, <3>1, <1>3
  <2>2. CASE Len(s) # 0
    <3> DEFINE f == CHOOSE f : Eq(f)
               h1 == [i \in 1..Len(s) |-> h[i]]
    <3>1. FlattenSeq(s) = f[Len(s)]
      BY <2>2, Zenon DEF FlattenSeq
    <3>2. Eq(h1)
      <4>1. \A i \in 1..Len(s) : h1[i] = IF i = 1 THEN s[i] ELSE h1[i - 1] \o s[i]
        <5> TAKE i \in 1..Len(s)
        <5>1. CASE i = 1
          <6>1. s[1] \in Seq(A) /\ << >> \o s[1] = s[1]
            BY <5>1
          <6>2. h[i] = h[i - 1] \o s[i]
            BY <1>4
          <6>3. i - 1 = 0
            BY <5>1
          <6> QED BY <1>3, <5>1, <6>1, <6>2, <6>3
        <5>2. CASE i # 1
          <6>1. i - 1 \in 1..Len(s)
            BY <5>2
          <6> QED BY <1>4, <5>2, <6>1
        <5> QED BY <5>1, <5>2
      <4> QED BY <4>1
    <3>3. Eq(f)
      <4> HIDE DEF Eq
      <4> QED BY <3>2
    <3> HIDE DEF f
    <3> DEFINE S == {i \in Nat : i + 1 \in 1..Len(s) => f[i + 1] = h[i + 1]}
    <3>4. Nat \subseteq S
      <4>1. 0 \in S
        <5>1. 1 \in 1..Len(s) /\ s[1] \in Seq(A) /\ << >> \o s[1] = s[1]
          BY <2>2
        <5>2. f[1] = s[1]
          BY <3>3, <5>1
        <5>3. ASSUME NEW j \in 1..Len(s), j = 1 PROVE h[j] = s[1]
          <6>1. h[j] = h[j - 1] \o s[j]
            BY <1>4
          <6>2. j - 1 = 0
            BY <5>3
          <6> QED BY <1>3, <5>1, <5>3, <6>1, <6>2
        <5> QED BY <5>2, <5>3
      <4>2. ASSUME NEW i \in Nat, i \in S PROVE i + 1 \in S
        <5>1. SUFFICES ASSUME i + 1 + 1 \in 1..Len(s) PROVE f[i + 1 + 1] = h[i + 1 + 1]
          OBVIOUS
        <5>2. i + 1 \in 1..Len(s) /\ f[i + 1] = h[i + 1]
          BY <4>2, <5>1
        <5>3. ASSUME NEW j \in 1..Len(s), j = i + 1 + 1 PROVE f[j] = h[j]
          <6>1. j # 1 /\ j - 1 = i + 1
            BY <5>3
          <6>2. f[j] = f[j - 1] \o s[j]
            BY <3>3, <6>1
          <6>3. h[j] = h[j - 1] \o s[j]
            BY <1>4
          <6> QED BY <5>2, <6>1, <6>2, <6>3
        <5> QED BY <5>1, <5>3
      <4> HIDE DEF S
      <4> QED BY <4>1, <4>2, SetInduction
    <3>5. Len(s) - 1 \in S
      <4> HIDE DEF S
      <4> QED BY <2>2, <3>4
    <3>6. f[Len(s)] = h[Len(s)]
      BY <2>2, <3>5
    <3> QED BY <3>1, <3>6
  <2> QED BY <2>1, <2>2
<1> HIDE DEF g
<1> QED BY <1>5, <1>6

---------------------------------------------------------------------------
(* What the conversions put into the buffer are characters.                *)

\* The powers of 16 grow.
LEMMA PowersGrow ==
  ASSUME NEW a \in Nat, NEW b \in Nat, a <= b
  PROVE  Pow16[a] <= Pow16[b]
<1> DEFINE S == {d \in Nat : Pow16[a] <= Pow16[a + d]}
<1>1. 0 \in S
  BY Powers
<1>2. ASSUME NEW d \in Nat, d \in S PROVE d + 1 \in S
  <2>1. Pow16[a + d + 1] = 16 * Pow16[a + d] /\ a + (d + 1) = a + d + 1
    BY Powers
  <2>2. Pow16[a] \in Nat /\ Pow16[a + d] \in Nat /\ Pow16[a] <= Pow16[a + d]
    BY <1>2, Powers
  <2> QED BY <2>1, <2>2
<1>3. b - a \in S
  <2> HIDE DEF S
  <2> QED BY <1>1, <1>2, SetInduction
<1> QED BY <1>3

\* The first loop of %d ends within 2 * m divisions.
LEMMA Shrinks ==
  ASSUME NEW n \in Int, NEW m \in Nat, -Pow16[m] < n, n < Pow16[m]
  PROVE  Divided(n)[2 * m] = 0
<1> DEFINE D == Divided(n)
           S == {i \in Nat : i <= m => -Pow16[m - i] < D[2 * i] /\ D[2 * i] < Pow16[m - i]}
<1>1. 0 \in S
  <2>1. 2 * 0 = 0 /\ m - 0 = m /\ D[0] = n
    BY Divisions
  <2> HIDE DEF D
  <2> QED BY <2>1
<1>2. ASSUME NEW i \in Nat, i \in S PROVE i + 1 \in S
  <2>1. SUFFICES ASSUME i + 1 <= m
                 PROVE  -Pow16[m - (i + 1)] < D[2 * (i + 1)] /\ D[2 * (i + 1)] < Pow16[m - (i + 1)]
    OBVIOUS
  <2>2. m - (i + 1) \in Nat /\ m - (i + 1) + 1 = m - i
    BY <2>1
  <2>3. Pow16[m - (i + 1)] \in Nat \ {0} /\ Pow16[m - i] = 16 * Pow16[m - (i + 1)]
    BY <2>2, Powers
  <2>4. -Pow16[m - i] < D[2 * i] /\ D[2 * i] < Pow16[m - i]
    BY <1>2, <2>1
  <2>5. 2 * i \in Nat /\ 2 * i + 1 \in Nat /\ 2 * (i + 1) = 2 * i + 1 + 1
    OBVIOUS
  <2>6. D[2 * i] \in Int /\ D[2 * i + 1] = Quot(D[2 * i]) /\ D[2 * i + 1 + 1] = Quot(D[2 * i + 1])
    BY <2>5, Divisions
  <2> HIDE DEF D
  <2>7. ASSUME NEW p \in Nat \ {0}, NEW x \in Int, -(16 * p) < x, x < 16 * p
        PROVE  -p < Quot(Quot(x)) /\ Quot(Quot(x)) < p
    BY <2>7 DEF Quot
  <2>8. -Pow16[m - (i + 1)] < Quot(Quot(D[2 * i])) /\ Quot(Quot(D[2 * i])) < Pow16[m - (i + 1)]
    BY <2>3, <2>4, <2>6, <2>7
  <2> QED BY <2>5, <2>6, <2>8
<1>3. m \in S
  <2> HIDE DEF S
  <2> QED BY <1>1, <1>2, SetInduction
<1>4. -Pow16[m - m] < D[2 * m] /\ D[2 * m] < Pow16[m - m] /\ m - m = 0 /\ D[2 * m] \in Int
  BY <1>3, Divisions
<1> QED BY <1>4, Powers

\* What the first loop of %d counts.
LEMMA DigitsCounted ==
  ASSUME NEW n \in Int, -Pow16[LongHex] < n, n < Pow16[LongHex]
  PROVE  /\ CountDigits(n) \in 1..(2 * LongHex) /\ Divided(n)[CountDigits(n)] = 0
         /\ \A j \in 1..(CountDigits(n) - 1) : Divided(n)[j] # 0
<1> DEFINE T == {k \in 1..(2 * LongHex) : Divided(n)[k] = 0}
           Counted(k) == Divided(n)[k] = 0 /\ \A j \in 1..(k - 1) : Divided(n)[j] # 0
<1>1. LongHex \in Nat \ {0} /\ 2 * LongHex \in T
  BY PrintfAssumption, Shrinks
<1>2. PICK k \in T : \A j \in T : k <= j
  <2>1. T \subseteq Nat /\ T # {}
    BY <1>1
  <2> HIDE DEF T
  <2> QED BY <2>1, Smallest
<1>3. \A j \in 1..(k - 1) : Divided(n)[j] # 0
  <2> SUFFICES ASSUME NEW j \in 1..(k - 1), Divided(n)[j] = 0 PROVE FALSE
    OBVIOUS
  <2>1. j \in 1..(2 * LongHex) /\ j < k
    BY <1>1, <1>2
  <2> QED BY <1>2, <2>1
<1>4. k \in 1..(2 * LongHex) /\ Counted(k)
  BY <1>2, <1>3
<1> HIDE DEF T, Counted
<1>5. (CHOOSE i \in 1..(2 * LongHex) : Counted(i)) \in 1..(2 * LongHex)
        /\ Counted(CHOOSE i \in 1..(2 * LongHex) : Counted(i))
  BY <1>4
<1>6. (CHOOSE i \in 1..(2 * LongHex) : Counted(i)) = CountDigits(n)
  BY DEF CountDigits, Counted
<1>7. CountDigits(n) \in 1..(2 * LongHex) /\ Counted(CountDigits(n))
  BY <1>5, <1>6
<1> QED BY <1>7 DEF Counted

\* The values of a long, within the powers of 16.
LEMMA LongRange ==
  /\ LongMin \in Int /\ -Pow16[LongHex] < LongMin /\ LongMin < 0 /\ -LongMin < Pow16[LongHex]
  /\ Pow16[LongHex] = -2 * LongMin
<1>1. LongHex - 1 \in Nat /\ LongHex - 1 + 1 = LongHex
  BY PrintfAssumption
<1>2. Pow16[LongHex - 1] \in Nat \ {0} /\ Pow16[LongHex] = 16 * Pow16[LongHex - 1]
  BY <1>1, Powers
<1> QED BY <1>2 DEF LongMin

\* What va_arg takes from a register is a long.
LEMMA TakenRange ==
  ASSUME NEW n \in LongMin..(-LongMin - 1), NEW long \in BOOLEAN
  PROVE  Taken(n, long) \in LongMin..(-LongMin - 1)
<1> DEFINE w == Pow16[IntHex]
<1>1. IntHex - 1 \in Nat /\ IntHex - 1 + 1 = IntHex
  BY PrintfAssumption
<1>2. Pow16[IntHex - 1] \in Nat \ {0} /\ w = 16 * Pow16[IntHex - 1]
  BY <1>1, Powers
<1>3. w <= -2 * LongMin /\ LongMin \in Int
  BY PrintfAssumption, PowersGrow, LongRange
<1>4. n % w \in 0..(w - 1)
  BY <1>2, LongRange
<1>5. CASE long
  BY <1>5 DEF Taken
<1>6. CASE ~long
  <2>1. Taken(n, long) = IF 2 * (n % w) >= w THEN (n % w) - w ELSE n % w
    BY <1>6 DEF Taken
  <2> HIDE DEF w
  <2>2. ASSUME NEW low \in 0..(w - 1)
        PROVE  (IF 2 * low >= w THEN low - w ELSE low) \in LongMin..(-LongMin - 1)
    BY <1>2, <1>3
  <2> QED BY <1>4, <2>1, <2>2
<1> QED BY <1>5, <1>6

\* What %d puts for a digit is a character.
LEMMA DigitChars == \A n \in Int : DigitChar(n) \in Char
<1> TAKE n \in Int
<1> DEFINE d == n - 10 * Quot(n)
<1>1. d \in Int /\ d <= 9
  BY DEF Quot
<1>2. DigitChar(n) = IF d >= 0 THEN Digits[d + 1] ELSE "bad"
  BY DEF DigitChar
<1> HIDE DEF d
<1>3. "bad" \in Char /\ \A e \in 1..16 : Digits[e] \in Char
  BY PrintfAssumption
<1>4. CASE d >= 0
  <2>1. d + 1 \in 1..16
    BY <1>1, <1>4
  <2> QED BY <1>2, <1>3, <1>4, <2>1
<1>5. CASE ~(d >= 0)
  BY <1>2, <1>3, <1>5
<1> QED BY <1>4, <1>5

\* What %x and %p put are characters.
LEMMA HexDigitsType ==
  ASSUME NEW n \in Int, NEW long \in BOOLEAN
  PROVE  HexDigits(n, long) \in Seq(Char)
<1> DEFINE k == IF long THEN LongHex ELSE IntHex
<1>1. k \in Nat
  BY PrintfAssumption
<1>2. HexDigits(n, long) = [j \in 1..k |-> Digits[Nibble(n, k - j) + 1]]
  BY DEF HexDigits
<1> HIDE DEF k
<1>3. ASSUME NEW j \in 1..k PROVE Digits[Nibble(n, k - j) + 1] \in Char
  <2>1. k - j \in Nat
    BY <1>1
  <2>2. Shifted(n)[k - j] \in Int
    BY <2>1, Shifts
  <2>3. Nibble(n, k - j) + 1 \in 1..16
    BY <2>2 DEF Nibble
  <2> QED BY <2>3, PrintfAssumption
<1> QED BY <1>1, <1>2, <1>3

\* What %d puts are characters.
LEMMA DecimalCharsType ==
  ASSUME NEW n \in LongMin..(-LongMin - 1)
  PROVE  DecimalChars(n) \in Seq(Char)
<1> DEFINE num == IF n < 0 THEN Negated(n) ELSE n
           digits == CountDigits(num)
           sign == IF n < 0 THEN <<"-">> ELSE << >>
           body == [j \in 1..digits |-> DigitChar(Divided(num)[digits - j])]
<1>1. DecimalChars(n) = sign \o body
  BY DEF DecimalChars
<1>2. num \in Int /\ -Pow16[LongHex] < num /\ num < Pow16[LongHex]
  BY LongRange, Powers DEF Negated
<1>3. sign \in Seq(Char)
  BY PrintfAssumption
<1> HIDE DEF num
<1>4. digits \in 1..(2 * LongHex)
  BY <1>2, DigitsCounted
<1>5. digits \in Nat
  BY <1>4, PrintfAssumption
<1> HIDE DEF digits
<1>6. ASSUME NEW j \in 1..digits PROVE DigitChar(Divided(num)[digits - j]) \in Char
  <2>1. digits - j \in Nat
    BY <1>5
  <2>2. Divided(num)[digits - j] \in Int
    BY <1>2, <2>1, Divisions
  <2> QED BY <2>2, DigitChars
<1>7. body \in Seq(Char)
  BY <1>5, <1>6
<1> HIDE DEF body, sign
<1> QED BY <1>1, <1>3, <1>7

\* What a conversion puts are characters; only %c can put a NUL.
LEMMA ConvertedType ==
  ASSUME NEW c \in Conversions, NEW long \in BOOLEAN, NEW r \in Register
  PROVE  Converted(c, long, r) \in Seq(Char \cup {NUL})
<1>1. /\ r.num \in LongMin..(-LongMin - 1) /\ r.str \in Seq(Char) /\ r.char \in Char \cup {NUL}
  BY DEF Register
<1>2. Taken(r.num, long) \in LongMin..(-LongMin - 1)
  BY <1>1, TakenRange
<1>3. r.num \in Int /\ Taken(r.num, long) \in Int
  BY <1>1, <1>2, LongRange
<1>4. <<"0", "x">> \in Seq(Char)
  <2>1. Digits[1] \in Char /\ Digits[1] = "0" /\ "x" \in Char
    BY PrintfAssumption DEF Digits, Conversions
  <2> QED BY <2>1
<1>5. \A s \in Seq(Char) : s \in Seq(Char \cup {NUL})
  OBVIOUS
<1>6. CASE c = "p"
  <2>1. Converted(c, long, r) = <<"0", "x">> \o HexDigits(r.num, TRUE)
    BY <1>6 DEF Converted
  <2>2. HexDigits(r.num, TRUE) \in Seq(Char)
    BY <1>3, HexDigitsType
  <2>3. \A a, b \in Seq(Char) : a \o b \in Seq(Char)
    OBVIOUS
  <2> QED BY <1>4, <1>5, <2>1, <2>2, <2>3
<1>7. CASE c = "x"
  BY <1>3, <1>5, <1>7, HexDigitsType DEF Converted
<1>8. CASE c = "d"
  BY <1>2, <1>5, <1>8, DecimalCharsType DEF Converted
<1>9. CASE c = "s"
  BY <1>1, <1>5, <1>9 DEF Converted
<1>10. CASE c = "c"
  BY <1>1, <1>10 DEF Converted
<1> QED BY <1>6, <1>7, <1>8, <1>9, <1>10 DEF Conversions

\* A piece is spelled in characters.
LEMMA PieceCharsType ==
  \A p \in Piece : PieceChars(p) \in Seq(Char)
<1> TAKE p \in Piece
<1>1. p.c \in Char
  BY PrintfAssumption DEF Piece
<1>2. "%" \in Char /\ "l" \in Char
  BY PrintfAssumption
<1> QED BY <1>1, <1>2 DEF PieceChars

\* A format is spelled in characters.
LEMMA CharsType ==
  ASSUME NEW f \in Seq(Piece)
  PROVE  Chars(f) \in Seq(Char)
<1> DEFINE s == [k \in DOMAIN f |-> PieceChars(f[k])]
<1>1. s \in Seq(Seq(Char))
  <2>1. DOMAIN f = 1..Len(f) /\ \A k \in 1..Len(f) : f[k] \in Piece
    OBVIOUS
  <2>2. \A k \in 1..Len(f) : PieceChars(f[k]) \in Seq(Char)
    BY <2>1, PieceCharsType
  <2> QED BY <2>1, <2>2
<1>2. Chars(f) = FlattenSeq(s)
  BY DEF Chars
<1> HIDE DEF s
<1>3. PICK g : Joined(Char, s, g) /\ FlattenSeq(s) = g[Len(s)]
  BY <1>1, Flattened
<1>4. Len(s) \in 0..Len(s)
  BY <1>1
<1> QED BY <1>2, <1>3, <1>4 DEF Joined

---------------------------------------------------------------------------
(* The buffer: what was put is below pos, and the last byte is for a NUL.  *)

\* The bytes of the buffer.
Buffer == [0..(N - 1) -> Char \cup {NUL, Unset}]
\* The bytes of o below p were written, but for the last of the buffer.
WrittenTo(o, p) == \A k \in 0..(N - 1) : o[k] = Unset <=> k >= p \/ k = N - 1

\* Nothing of a new buffer was written.
LEMMA EmptyGood == Empty \in Buffer /\ WrittenTo(Empty, 0)
<1>1. N \in Nat
  BY PrintfAssumption
<1> QED BY <1>1 DEF Empty, Buffer, WrittenTo

\* Putting s writes the next bytes, but never the last of the buffer.
LEMMA PutAllGood ==
  ASSUME NEW o \in Buffer, NEW p \in Nat, WrittenTo(o, p),
         NEW s \in Seq(Char \cup {NUL})
  PROVE  PutAll(o, p, s) \in Buffer /\ WrittenTo(PutAll(o, p, s), p + Len(s))
<1> DEFINE q == PutAll(o, p, s)
<1>1. N \in Nat \ {0} /\ NUL \notin Char /\ Unset \notin Char /\ Unset # NUL
  BY PrintfAssumption DEF NUL, Unset
<1>2. \A k \in 0..(N - 1) :
        q[k] = IF p <= k /\ k < p + Len(s) /\ k + 1 < N THEN s[k - p + 1] ELSE o[k]
  BY DEF PutAll
<1>3. q = [k \in 0..(N - 1) |-> q[k]]
  BY DEF PutAll
<1> HIDE DEF q
<1>4. ASSUME NEW k \in 0..(N - 1)
      PROVE  /\ q[k] \in Char \cup {NUL, Unset}
             /\ q[k] = Unset <=> k >= p + Len(s) \/ k = N - 1
  <2>1. CASE p <= k /\ k < p + Len(s) /\ k + 1 < N
    <3>1. k - p + 1 \in 1..Len(s)
      BY <1>1, <2>1
    <3>2. s[k - p + 1] \in Char \cup {NUL}
      BY <3>1
    <3>3. q[k] = s[k - p + 1]
      BY <1>2, <2>1
    <3>4. q[k] # Unset
      BY <1>1, <3>2, <3>3
    <3> QED BY <1>1, <2>1, <3>2, <3>3, <3>4
  <2>2. CASE ~(p <= k /\ k < p + Len(s) /\ k + 1 < N)
    <3>1. q[k] = o[k]
      BY <1>2, <2>2
    <3>2. o[k] \in Char \cup {NUL, Unset}
      BY DEF Buffer
    <3>3. o[k] = Unset <=> k >= p \/ k = N - 1
      BY DEF WrittenTo
    <3>4. (k >= p \/ k = N - 1) <=> (k >= p + Len(s) \/ k = N - 1)
      BY <1>1, <2>2
    <3> QED BY <3>1, <3>2, <3>3, <3>4
  <2> QED BY <2>1, <2>2
<1>5. q \in Buffer
  BY <1>3, <1>4 DEF Buffer
<1>6. WrittenTo(q, p + Len(s))
  BY <1>4 DEF WrittenTo
<1> QED BY <1>5, <1>6 DEF q

\* Where vsnprintf puts the NUL.
EndOf(p) == IF p < N THEN p ELSE N - 1

\* The NUL ends the bytes that were written.
LEMMA TerminatedIs ==
  ASSUME NEW o \in Buffer, NEW p \in Nat, WrittenTo(o, p)
  PROVE  /\ EndOf(p) \in 0..(N - 1) /\ Terminated(o, p) \in Buffer
         /\ Terminated(o, p)[EndOf(p)] = NUL
         /\ \A k \in 0..(EndOf(p) - 1) :
              k \in 0..(N - 1) /\ Terminated(o, p)[k] = o[k] /\ o[k] \in Char \cup {NUL}
<1>1. N \in Nat \ {0}
  BY PrintfAssumption
<1>2. EndOf(p) \in 0..(N - 1) /\ EndOf(p) <= p
  BY <1>1 DEF EndOf
<1>3. Terminated(o, p) = [o EXCEPT ![EndOf(p)] = NUL]
  BY DEF Terminated, EndOf
<1>4. Terminated(o, p) \in Buffer /\ Terminated(o, p)[EndOf(p)] = NUL
  BY <1>2, <1>3 DEF Buffer
<1>5. ASSUME NEW k \in 0..(EndOf(p) - 1)
      PROVE  k \in 0..(N - 1) /\ Terminated(o, p)[k] = o[k] /\ o[k] \in Char \cup {NUL}
  <2>1. k \in 0..(N - 1) /\ k # EndOf(p) /\ ~(k >= p) /\ k # N - 1
    BY <1>1, <1>2
  <2>2. Terminated(o, p)[k] = o[k]
    BY <1>3, <2>1 DEF Buffer
  <2>3. o[k] # Unset
    BY <2>1 DEF WrittenTo
  <2>4. o[k] \in Char \cup {NUL, Unset}
    BY <2>1 DEF Buffer
  <2> QED BY <2>1, <2>2, <2>3, <2>4
<1> QED BY <1>2, <1>4, <1>5

\* The text in a buffer ends at its first NUL.
LEMMA CStringIs ==
  ASSUME NEW o, NEW t \in 0..(N - 1), o[t] = NUL
  PROVE  \E e \in 0..t : /\ CString(o) = [k \in 1..e |-> o[k - 1]] /\ o[e] = NUL
                         /\ \A j \in 0..(e - 1) : o[j] # NUL
<1> DEFINE Ends(k) == o[k] = NUL /\ \A j \in 0..(k - 1) : o[j] # NUL
           T == {k \in 0..(N - 1) : o[k] = NUL}
           e == CHOOSE k \in 0..(N - 1) : Ends(k)
<1>1. N \in Nat \ {0}
  BY PrintfAssumption
<1>2. T \subseteq Nat /\ T # {}
  BY <1>1
<1>3. PICK k \in T : \A j \in T : k <= j
  <2> HIDE DEF T
  <2> QED BY <1>2, Smallest
<1>4. Ends(k) /\ k \in 0..(N - 1)
  <2> SUFFICES ASSUME NEW j \in 0..(k - 1), o[j] = NUL PROVE FALSE
    BY <1>3
  <2>1. j \in 0..(N - 1) /\ j < k
    BY <1>1, <1>3
  <2> QED BY <1>3, <2>1
<1>5. e \in 0..(N - 1) /\ Ends(e)
  <2> HIDE DEF Ends
  <2> QED BY <1>4
<1>6. CString(o) = [i \in 1..e |-> o[i - 1]]
  BY DEF CString
<1> HIDE DEF e
<1>7. e <= t
  <2> SUFFICES ASSUME t < e PROVE FALSE
    BY <1>1, <1>5
  <2>1. t \in 0..(e - 1)
    BY <1>1, <1>5
  <2> QED BY <1>5, <2>1
<1>8. e \in 0..t
  BY <1>1, <1>5, <1>7
<1> QED BY <1>5, <1>6, <1>8

---------------------------------------------------------------------------
(* No stale byte.                                                          *)

\* The state of vsnprintf.
TypeOK ==
  /\ stage \in {"user", "kernel", "written"}
  /\ fmt \in Seq(Char) /\ vl \in Seq(Register)
  /\ format \in BOOLEAN /\ longarg \in BOOLEAN /\ pos \in Nat
  /\ out \in Buffer

\* There is an argument for every conversion that the rest of the format can
\* hold: one takes two characters.
ArgsLeft == Len(fmt) + (IF format THEN 1 ELSE 0) <= 2 * Len(vl)

\* The invariant of the buffer, with the property it serves.
BInv ==
  /\ TypeOK
  /\ stage # "written" => WrittenTo(out, pos) /\ ArgsLeft
  /\ NoStaleByte

\* A call starts with a new buffer and enough arguments.
LEMMA BInvInit == Init => BInv
<1> SUFFICES ASSUME Init PROVE BInv
  OBVIOUS
<1>1. PICK f \in Formats, a \in Args : fmt = Chars(f) /\ first = [pieces |-> f, vl |-> a]
  BY DEF Init
<1>2. f \in Seq(Piece) /\ vl \in Args \cup Stale
  BY <1>1, PrintfAssumption DEF Init
<1>3. fmt \in Seq(Char) /\ vl \in Seq(Register)
  BY <1>1, <1>2, CharsType, PrintfAssumption
<1>4. Len(fmt) <= 2 * Len(vl)
  BY <1>1, <1>2, PrintfAssumption
<1>5. format = FALSE /\ longarg = FALSE /\ pos = 0 /\ out = Empty
      /\ stage \in {"user", "kernel"}
  BY DEF Init
<1>6. TypeOK
  BY <1>3, <1>5, EmptyGood DEF TypeOK
<1>7. WrittenTo(out, pos)
  BY <1>5, EmptyGood
<1>8. ArgsLeft
  BY <1>3, <1>4, <1>5 DEF ArgsLeft
<1>9. NoStaleByte
  BY <1>5 DEF NoStaleByte
<1> QED BY <1>6, <1>7, <1>8, <1>9 DEF BInv

\* A character of the format, a conversion included.
LEMMA BInvScan == BInv /\ Scan => BInv'
<1> SUFFICES ASSUME BInv, Scan PROVE BInv'
  OBVIOUS
<1>1. TypeOK /\ WrittenTo(out, pos) /\ ArgsLeft /\ stage \in {"user", "kernel"}
  BY DEF BInv, Scan, TypeOK
<1>2. fmt # << >> /\ fmt' = Tail(fmt) /\ stage' = stage /\ host' = host
  BY DEF Scan
<1> DEFINE c == Head(fmt)
<1>3. fmt \in Seq(Char) /\ c \in Char /\ fmt' \in Seq(Char) /\ Len(fmt') = Len(fmt) - 1
      /\ Len(fmt) \in Nat \ {0}
  BY <1>1, <1>2 DEF TypeOK
<1>4. vl \in Seq(Register) /\ Len(vl) \in Nat /\ pos \in Nat /\ out \in Buffer
      /\ format \in BOOLEAN /\ longarg \in BOOLEAN
  BY <1>1 DEF TypeOK
<1>5. Len(fmt) + (IF format THEN 1 ELSE 0) <= 2 * Len(vl)
  BY <1>1 DEF ArgsLeft
<1>6. NoStaleByte'
  BY <1>1, <1>2 DEF NoStaleByte
<1> SUFFICES /\ vl' \in Seq(Register) /\ format' \in BOOLEAN /\ longarg' \in BOOLEAN
             /\ pos' \in Nat /\ out' \in Buffer /\ WrittenTo(out', pos')
             /\ Len(fmt') + (IF format' THEN 1 ELSE 0) <= 2 * Len(vl')
  BY <1>1, <1>2, <1>3, <1>6 DEF BInv, TypeOK, ArgsLeft, WrittenTo, Buffer
<1>7. CASE ~format /\ c = "%" /\ format' = TRUE /\ UNCHANGED <<longarg, pos, out, vl>>
  BY <1>1, <1>3, <1>4, <1>5, <1>7
<1>8. CASE ~format /\ c # "%" /\ Emit(<<c>>) /\ UNCHANGED <<format, longarg, vl>>
  <2> DEFINE s == <<c>>
  <2>1. s \in Seq(Char \cup {NUL})
    BY <1>3
  <2>2. out' = PutAll(out, pos, s) /\ pos' = pos + Len(s)
    BY <1>8 DEF Emit
  <2> HIDE DEF s, c
  <2>3. Len(s) \in Nat
    BY <2>1
  <2>4. out' \in Buffer /\ WrittenTo(out', pos') /\ pos' \in Nat
    BY <1>1, <1>4, <2>1, <2>2, <2>3, PutAllGood
  <2> QED BY <1>3, <1>4, <1>5, <1>8, <2>4
<1>9. CASE format /\ c = "l" /\ longarg' = TRUE /\ UNCHANGED <<format, pos, out, vl>>
  BY <1>1, <1>3, <1>4, <1>5, <1>9
<1>10. CASE /\ format /\ c \in Conversions
            /\ Emit(Converted(c, longarg, Head(vl)))
            /\ vl' = IF c = "c" /\ pos + 1 >= N THEN vl ELSE Tail(vl)
            /\ longarg' = AfterConversion /\ format' = FALSE
  <2>1. Len(vl) >= 1
    BY <1>3, <1>4, <1>5, <1>10
  <2>2. Head(vl) \in Register /\ vl' \in Seq(Register) /\ Len(vl') \in Nat
        /\ Len(vl') >= Len(vl) - 1
    <3>1. vl' = vl \/ vl' = Tail(vl)
      BY <1>10
    <3> QED BY <1>4, <2>1, <3>1
  <2> DEFINE s == Converted(c, longarg, Head(vl))
  <2>3. s \in Seq(Char \cup {NUL})
    BY <1>4, <1>10, <2>2, ConvertedType
  <2>4. out' = PutAll(out, pos, s) /\ pos' = pos + Len(s)
    BY <1>10 DEF Emit
  <2> HIDE DEF s, c
  <2>5. Len(s) \in Nat
    BY <2>3
  <2>6. out' \in Buffer /\ WrittenTo(out', pos') /\ pos' \in Nat
    BY <1>1, <1>4, <2>3, <2>4, <2>5, PutAllGood
  <2>7. format' = FALSE /\ longarg' = FALSE
    BY <1>10 DEF AfterConversion
  <2>8. Len(fmt) + 1 <= 2 * Len(vl)
    BY <1>5, <1>10
  <2>9. Len(fmt') + 0 <= 2 * Len(vl')
    BY <1>3, <1>4, <2>2, <2>8
  <2> QED BY <2>2, <2>6, <2>7, <2>9
<1>11. CASE format /\ c \notin Conversions \cup {"l"} /\ UNCHANGED <<format, longarg, pos, out, vl>>
  BY <1>1, <1>3, <1>4, <1>5, <1>11
<1> QED BY <1>7, <1>8, <1>9, <1>10, <1>11 DEF Scan

\* The end of printu's pass and the start of the kernel's.
LEMMA BInvSysUserPrint == BInv /\ SysUserPrint => BInv'
<1> SUFFICES ASSUME BInv, SysUserPrint PROVE BInv'
  OBVIOUS
<1>1. TypeOK /\ WrittenTo(out, pos) /\ stage' = "kernel" /\ N \in Nat \ {0}
  BY PrintfAssumption DEF BInv, SysUserPrint
<1> DEFINE o == Terminated(out, pos)
           t == EndOf(pos)
<1>2. PICK a \in Stale : Begin(CString(o), a)
  BY DEF SysUserPrint
<1>3. fmt' = CString(o) /\ vl' = a /\ out' = Empty /\ format' = FALSE /\ longarg' = FALSE /\ pos' = 0
  BY <1>2 DEF Begin
<1>4. /\ t \in 0..(N - 1) /\ o[t] = NUL
      /\ \A k \in 0..(t - 1) : o[k] \in Char \cup {NUL}
  BY <1>1, TerminatedIs DEF TypeOK
<1> HIDE DEF o, t
<1>5. PICK e \in 0..t : /\ CString(o) = [k \in 1..e |-> o[k - 1]] /\ o[e] = NUL
                        /\ \A j \in 0..(e - 1) : o[j] # NUL
  BY <1>4, CStringIs
<1>6. \A k \in 1..e : o[k - 1] \in Char
  <2> TAKE k \in 1..e
  <2>1. k - 1 \in 0..(t - 1) /\ k - 1 \in 0..(e - 1)
    BY <1>4, <1>5
  <2> QED BY <1>4, <1>5, <2>1
<1>7. fmt' \in Seq(Char) /\ Len(fmt') = e /\ e \in Nat /\ e <= N - 1
  BY <1>1, <1>3, <1>4, <1>5, <1>6
<1>8. vl' \in Seq(Register) /\ N <= 2 * Len(vl') + 1
  BY <1>3, PrintfAssumption
<1>9. TypeOK'
  BY <1>1, <1>3, <1>7, <1>8, EmptyGood DEF TypeOK, Buffer
<1>10. WrittenTo(out, pos)'
  BY <1>3, EmptyGood DEF WrittenTo
<1>11. ArgsLeft'
  BY <1>1, <1>3, <1>7, <1>8 DEF ArgsLeft
<1>12. NoStaleByte'
  BY <1>1 DEF NoStaleByte
<1> QED BY <1>9, <1>10, <1>11, <1>12 DEF BInv

\* The end of the kernel's pass: only bytes that were written reach the host.
LEMMA BInvSpikeFileWrite == BInv /\ SpikeFileWrite => BInv'
<1> SUFFICES ASSUME BInv, SpikeFileWrite PROVE BInv'
  OBVIOUS
<1>1. TypeOK /\ WrittenTo(out, pos) /\ stage' = "written" /\ N \in Nat \ {0} /\ NUL # Unset
      /\ Unset \notin Char
  BY PrintfAssumption DEF BInv, SpikeFileWrite, NUL, Unset
<1> DEFINE o == Terminated(out, pos)
           t == EndOf(pos)
<1>2. /\ host' = [k \in 1..Length(pos) |-> o[k - 1]] /\ out' = o
      /\ UNCHANGED <<fmt, vl, format, longarg, pos>>
  BY DEF SpikeFileWrite, locals
<1>3. /\ t \in 0..(N - 1) /\ o \in Buffer /\ o[t] = NUL
      /\ \A k \in 0..(t - 1) : o[k] \in Char \cup {NUL}
  BY <1>1, TerminatedIs DEF TypeOK
<1>4. pos \in Nat
  BY <1>1 DEF TypeOK
<1>5. Length(pos) \in 0..N /\ Length(pos) - 1 <= t
  BY <1>1, <1>4 DEF Length, EndOf
<1> HIDE DEF o, t
<1>6. DOMAIN host' = 1..Length(pos) /\ Len(host') = Length(pos)
  BY <1>2, <1>5
<1>7. \A k \in 1..Length(pos) : host'[k] # Unset
  <2> TAKE k \in 1..Length(pos)
  <2>1. host'[k] = o[k - 1] /\ k - 1 \in 0..t
    BY <1>1, <1>2, <1>3, <1>5
  <2>2. o[k - 1] \in Char \cup {NUL}
    <3>1. CASE k - 1 = t
      BY <1>3, <3>1
    <3>2. CASE k - 1 # t
      <4>1. k - 1 \in 0..(t - 1)
        BY <1>1, <1>3, <2>1, <3>2
      <4> QED BY <1>3, <4>1
    <3> QED BY <3>1, <3>2
  <2> QED BY <1>1, <2>1, <2>2
<1>8. NoStaleByte'
  <2>1. Len(host') <= N
    BY <1>1, <1>5, <1>6
  <2>2. \E k \in 0..(N - 1) : out'[k] = NUL
    BY <1>2, <1>3
  <2> QED BY <1>6, <1>7, <2>1, <2>2 DEF NoStaleByte
<1>9. TypeOK'
  BY <1>1, <1>2, <1>3 DEF TypeOK, Buffer
<1> QED BY <1>1, <1>8, <1>9 DEF BInv

\* Nothing changes.
LEMMA BInvStutter == BInv /\ UNCHANGED vars => BInv'
  BY DEF BInv, TypeOK, Buffer, WrittenTo, ArgsLeft, NoStaleByte, vars

\* Every step keeps the invariant.
LEMMA BInvStep == BInv /\ [Next]_vars => BInv'
<1>1. BInv /\ Written => BInv'
  BY BInvStutter DEF Written
<1> QED BY <1>1, BInvScan, BInvSysUserPrint, BInvSpikeFileWrite, BInvStutter DEF Next

\* Whatever the format, its arguments and the size of the buffer, vsnprintf
\* writes the bytes below pos and leaves the last to the NUL, and finds an
\* argument for every conversion.
THEOREM BufferGood == Spec => []BInv
<1> QED BY BInvInit, BInvStep, PTL DEF Spec

\* vprintk sends the host no byte of its buffer that vsnprintf did not write,
\* and at most sizeof(out) bytes, and the buffer ends in a NUL.
THEOREM NothingStale == Spec => []NoStaleByte
<1>1. BInv => NoStaleByte
  BY DEF BInv
<1> QED BY BufferGood, <1>1, PTL

---------------------------------------------------------------------------
(* The conversions of a number.                                            *)

\* The k lowest nibbles of n, as digits, the highest first.
Nibbles(k, n) == [j \in 1..k |-> Digits[Nibble(n, k - j) + 1]]

\* Shifting n once more is shifting n / 16.
LEMMA NibbleShift ==
  ASSUME NEW n \in Int, NEW i \in Nat
  PROVE  Shifted(n)[i + 1] = Shifted(n \div 16)[i]
<1> DEFINE S == {k \in Nat : Shifted(n)[k + 1] = Shifted(n \div 16)[k]}
<1>1. n \div 16 \in Int
  OBVIOUS
<1>2. 0 \in S
  <2>1. Shifted(n)[0 + 1] = Shifted(n)[0] \div 16
    BY Shifts
  <2> QED BY <1>1, <2>1, Shifts
<1>3. ASSUME NEW k \in Nat, k \in S PROVE k + 1 \in S
  <2>1. Shifted(n)[k + 1 + 1] = Shifted(n)[k + 1] \div 16
    BY Shifts
  <2>2. Shifted(n \div 16)[k + 1] = Shifted(n \div 16)[k] \div 16
    BY <1>1, Shifts
  <2> QED BY <1>3, <2>1, <2>2
<1>4. i \in S
  <2> HIDE DEF S
  <2> QED BY <1>2, <1>3, SetInduction
<1> QED BY <1>4

\* The nibbles of n are those of n / 16, and the lowest.
LEMMA NibblesStep ==
  ASSUME NEW k \in Nat, NEW n \in Int
  PROVE  Nibbles(k + 1, n) = Nibbles(k, n \div 16) \o <<Digits[(n % 16) + 1]>>
<1> DEFINE a == Nibbles(k + 1, n)
           b == Nibbles(k, n \div 16)
           d == Digits[(n % 16) + 1]
<1>1. a = [j \in 1..(k + 1) |-> Digits[Nibble(n, k + 1 - j) + 1]]
  BY DEF Nibbles
<1>2. b = [j \in 1..k |-> Digits[Nibble(n \div 16, k - j) + 1]]
  BY DEF Nibbles
<1>3. b \o <<d>> = [j \in 1..(k + 1) |-> IF j <= k THEN b[j] ELSE d]
  <2> HIDE DEF d
  <2> QED BY <1>2
<1>4. ASSUME NEW j \in 1..(k + 1)
      PROVE  Digits[Nibble(n, k + 1 - j) + 1] = IF j <= k THEN b[j] ELSE d
  <2>1. CASE j <= k
    <3>1. k - j \in Nat /\ k + 1 - j = k - j + 1
      BY <2>1
    <3>2. Nibble(n, k + 1 - j) = Nibble(n \div 16, k - j)
      BY <3>1, NibbleShift DEF Nibble
    <3> QED BY <1>2, <2>1, <3>2
  <2>2. CASE ~(j <= k)
    <3>1. k + 1 - j = 0
      BY <2>2
    <3>2. Nibble(n, 0) = n % 16
      BY Shifts DEF Nibble
    <3> QED BY <2>2, <3>1, <3>2
  <2> QED BY <2>1, <2>2
<1>5. a = b \o <<d>>
  <2> HIDE DEF b, d
  <2> QED BY <1>1, <1>3, <1>4
<1> QED BY <1>5

\* The text in base 16 is the nibbles that the loop reads.
LEMMA HexTextIs ==
  ASSUME NEW k \in Nat, NEW n \in Int
  PROVE  HexText[k][n] = Nibbles(k, n)
<1> DEFINE Digit(m) == <<Digits[(m % 16) + 1]>>
           Eq(g) == g = [i \in Nat |-> [m \in Int |->
                      IF i = 0 THEN << >> ELSE g[i - 1][m \div 16] \o Digit(m)]]
           h == [i \in Nat |-> [m \in Int |-> Nibbles(i, m)]]
<1>1. Eq(h)
  <2>1. ASSUME NEW i \in Nat, NEW m \in Int
        PROVE  Nibbles(i, m) = IF i = 0 THEN << >> ELSE h[i - 1][m \div 16] \o Digit(m)
    <3>1. CASE i = 0
      <4>1. Nibbles(0, m) = << >>
        BY DEF Nibbles
      <4> QED BY <3>1, <4>1
    <3>2. CASE i # 0
      <4>1. i - 1 \in Nat /\ i - 1 + 1 = i /\ m \div 16 \in Int
        BY <3>2
      <4>2. Nibbles(i - 1 + 1, m) = Nibbles(i - 1, m \div 16) \o Digit(m)
        BY <4>1, NibblesStep
      <4>3. h[i - 1][m \div 16] = Nibbles(i - 1, m \div 16)
        BY <4>1
      <4> HIDE DEF h, Digit
      <4> QED BY <3>2, <4>1, <4>2, <4>3
    <3> QED BY <3>1, <3>2
  <2> HIDE DEF Digit
  <2> QED BY <2>1
<1>2. Eq(HexText)
  <2> HIDE DEF Eq
  <2>1. Eq(CHOOSE g : Eq(g))
    BY <1>1
  <2> USE DEF Eq
  <2> QED BY <2>1 DEF HexText
<1> DEFINE S == {i \in Nat : HexText[i] = h[i]}
<1>3. 0 \in S
  <2>1. HexText[0] = [m \in Int |-> << >>]
    <3> HIDE DEF Digit
    <3> QED BY <1>2
  <2>2. h[0] = [m \in Int |-> << >>]
    <3> HIDE DEF Digit, h
    <3> QED BY <1>1
  <2> QED BY <2>1, <2>2
<1>4. ASSUME NEW i \in Nat, i \in S PROVE i + 1 \in S
  <2>1. i + 1 # 0 /\ i + 1 - 1 = i /\ i + 1 \in Nat
    OBVIOUS
  <2>2. ASSUME NEW g, Eq(g) PROVE g[i + 1] = [m \in Int |-> g[i][m \div 16] \o Digit(m)]
    <3> HIDE DEF Digit
    <3> DEFINE G == [j \in Nat |-> [m \in Int |->
                       IF j = 0 THEN << >> ELSE g[j - 1][m \div 16] \o Digit(m)]]
    <3>1. G[i + 1] = [m \in Int |-> g[i][m \div 16] \o Digit(m)]
      BY <2>1
    <3>2. g = G
      BY <2>2
    <3> HIDE DEF G, Eq
    <3> QED BY <3>1, <3>2
  <2>3. HexText[i + 1] = [m \in Int |-> HexText[i][m \div 16] \o Digit(m)]
    BY <1>2, <2>2
  <2>4. h[i + 1] = [m \in Int |-> h[i][m \div 16] \o Digit(m)]
    <3> HIDE DEF h, Digit, Eq
    <3> QED BY <1>1, <2>2
  <2>5. HexText[i] = h[i]
    BY <1>4
  <2> HIDE DEF h, Digit
  <2> QED BY <2>1, <2>3, <2>4, <2>5
<1>5. k \in S
  <2> HIDE DEF S
  <2> QED BY <1>3, <1>4, SetInduction
<1> QED BY <1>5

\* Adding a multiple of Pow16[k] leaves the k lowest nibbles.
LEMMA LowNibbles ==
  ASSUME NEW n \in Int, NEW m \in Int, NEW k \in Nat, NEW i \in 0..(k - 1),
         NEW v \in Int, v = n + Pow16[k] * m
  PROVE  Nibble(v, i) = Nibble(n, i)
<1> DEFINE S == {j \in Nat : j <= k => Shifted(v)[j] = Shifted(n)[j] + Pow16[k - j] * m}
<1>1. 0 \in S
  <2>1. Shifted(v)[0] = v
    BY ONLY Shifts, v \in Int
  <2>2. Shifted(n)[0] = n
    BY ONLY Shifts, n \in Int
  <2>3. k - 0 = k
    OBVIOUS
  <2> QED BY <2>1, <2>2, <2>3
<1>2. ASSUME NEW j \in Nat, j \in S PROVE j + 1 \in S
  <2> SUFFICES ASSUME j + 1 <= k
               PROVE  Shifted(v)[j + 1] = Shifted(n)[j + 1] + Pow16[k - (j + 1)] * m
    OBVIOUS
  <2>1. k - (j + 1) \in Nat /\ k - (j + 1) + 1 = k - j
    OBVIOUS
  <2> DEFINE p == Pow16[k - (j + 1)]
             q == p * m
  <2>2. p \in Nat /\ Pow16[k - j] = 16 * p
    BY <2>1, Powers
  <2>3. q \in Int /\ Pow16[k - j] * m = 16 * q
    <3> HIDE DEF p
    <3> QED BY <2>2
  <2>4. Shifted(v)[j] = Shifted(n)[j] + 16 * q
    <3>1. Shifted(v)[j] = Shifted(n)[j] + Pow16[k - j] * m
      BY <1>2
    <3> HIDE DEF q
    <3> QED BY <2>3, <3>1
  <2>5. Shifted(v)[j + 1] = Shifted(v)[j] \div 16 /\ Shifted(n)[j + 1] = Shifted(n)[j] \div 16
        /\ Shifted(n)[j] \in Int
    BY Shifts
  <2> HIDE DEF q
  <2>6. (Shifted(n)[j] + 16 * q) \div 16 = Shifted(n)[j] \div 16 + q
    BY <2>3, <2>5
  <2>7. Shifted(v)[j + 1] = Shifted(n)[j + 1] + q
    BY <2>4, <2>5, <2>6
  <2> QED BY <2>7 DEF q
<1>3. i \in S /\ i \in Nat
  <2> HIDE DEF S
  <2> QED BY <1>1, <1>2, SetInduction
<1>4. Shifted(v)[i] = Shifted(n)[i] + Pow16[k - i] * m
  BY <1>3
<1>5. k - i - 1 \in Nat /\ k - i - 1 + 1 = k - i
  OBVIOUS
<1> DEFINE p == Pow16[k - i - 1]
           q == p * m
<1>6. p \in Nat /\ Pow16[k - i] = 16 * p
  BY <1>5, Powers
<1>7. q \in Int /\ Pow16[k - i] * m = 16 * q
  <2> HIDE DEF p
  <2> QED BY <1>6
<1>8. Shifted(n)[i] \in Int
  BY <1>3, Shifts
<1>9. (Shifted(n)[i] + 16 * q) % 16 = Shifted(n)[i] % 16
  <2> HIDE DEF q
  <2> QED BY <1>7, <1>8
<1>10. Shifted(v)[i] % 16 = Shifted(n)[i] % 16
  <2> HIDE DEF q
  <2> QED BY <1>4, <1>7, <1>9
<1> QED BY <1>10 DEF Nibble

\* The remainder differs by a multiple of the modulus.
LEMMA Remainder ==
  ASSUME NEW n \in Int, NEW w \in Nat \ {0}
  PROVE  \E q \in Int : n % w = n - w * q
<1>1. ASSUME NEW q \in Int, NEW r \in Int, q = n \div w, r = n % w PROVE n = w * q + r
  BY <1>1
<1>2. PICK q \in Int : q = n \div w
  OBVIOUS
<1>3. PICK r \in Int : r = n % w
  OBVIOUS
<1>4. n = w * q + r
  BY <1>1, <1>2, <1>3
<1>5. w * q \in Int
  OBVIOUS
<1>6. r = n - w * q
  BY <1>4, <1>5
<1> QED BY <1>3, <1>6

\* An int differs from its register by a multiple of 16^IntHex.
LEMMA TakenMod ==
  ASSUME NEW n \in Int
  PROVE  \E m \in Int : Taken(n, FALSE) = n + Pow16[IntHex] * m
<1> DEFINE w == Pow16[IntHex]
<1>1. w \in Nat \ {0}
  BY Powers, PrintfAssumption
<1>2. Taken(n, FALSE) = IF 2 * (n % w) >= w THEN (n % w) - w ELSE n % w
  BY DEF Taken
<1> HIDE DEF w
<1>3. PICK q \in Int : n % w = n - w * q
  BY <1>1, Remainder
<1>4. -q \in Int /\ n % w = n + w * (-q) /\ (n % w) - w = n + w * (-q - 1)
  BY <1>1, <1>3
<1>5. Taken(n, FALSE) = n + w * (-q) \/ Taken(n, FALSE) = n + w * (-q - 1)
  BY <1>2, <1>4
<1>6. -q \in Int /\ -q - 1 \in Int
  BY <1>3
<1>7. \E m \in Int : Taken(n, FALSE) = n + w * m
  BY <1>5, <1>6
<1> QED BY <1>7 DEF w

\* %x and %p put the text in base 16 of the register, cut to the type.
LEMMA HexDigitsIs ==
  ASSUME NEW n \in Int, NEW long \in BOOLEAN
  PROVE  HexDigits(Taken(n, long), long) = HexText[IF long THEN LongHex ELSE IntHex][n]
<1>1. IntHex \in Nat /\ LongHex \in Nat
  BY PrintfAssumption
<1>2. CASE long = TRUE
  <2>1. Taken(n, long) = n
    BY <1>2 DEF Taken
  <2>2. HexDigits(n, TRUE) = Nibbles(LongHex, n)
    BY DEF HexDigits, Nibbles
  <2> QED BY <1>1, <1>2, <2>1, <2>2, HexTextIs
<1>3. CASE long = FALSE
  <2>1. PICK m \in Int : Taken(n, FALSE) = n + Pow16[IntHex] * m
    BY TakenMod
  <2>2. HexDigits(Taken(n, FALSE), FALSE) = Nibbles(IntHex, Taken(n, FALSE))
    BY DEF HexDigits, Nibbles
  <2>3. ASSUME NEW j \in 1..IntHex
        PROVE  Nibble(Taken(n, FALSE), IntHex - j) = Nibble(n, IntHex - j)
    <3>1. IntHex - j \in 0..(IntHex - 1)
      BY <1>1
    <3> DEFINE v == Taken(n, FALSE)
    <3>2. Pow16[IntHex] \in Int
      BY <1>1, Powers
    <3>3. v = n + Pow16[IntHex] * m
      BY <2>1
    <3>4. \A x, y \in Int : n + x * y \in Int
      OBVIOUS
    <3>5. n + Pow16[IntHex] * m \in Int
      BY <3>2, <3>4
    <3>6. v \in Int /\ v = n + Pow16[IntHex] * m
      BY <3>3, <3>5
    <3> HIDE DEF v
    <3>7. Nibble(v, IntHex - j) = Nibble(n, IntHex - j)
      BY <1>1, <3>1, <3>6, LowNibbles
    <3> QED BY <3>7 DEF v
  <2>4. Nibbles(IntHex, Taken(n, FALSE)) = Nibbles(IntHex, n)
    BY <2>3 DEF Nibbles
  <2> QED BY <1>1, <1>3, <2>2, <2>4, HexTextIs
<1> QED BY <1>2, <1>3

\* k is the number of decimal digits of n.
Counts(n, k) ==
  k \in Nat \ {0} /\ Divided(n)[k] = 0 /\ \A j \in 1..(k - 1) : Divided(n)[j] # 0

\* A number has one number of digits.
LEMMA CountsOnce ==
  ASSUME NEW n, NEW k, NEW m, Counts(n, k), Counts(n, m)
  PROVE  k = m
<1>1. k \in Nat \ {0} /\ m \in Nat \ {0}
  BY DEF Counts
<1>2. CASE k < m
  <2>1. k \in 1..(m - 1)
    BY <1>1, <1>2
  <2> QED BY <2>1 DEF Counts
<1>3. CASE m < k
  <2>1. m \in 1..(k - 1)
    BY <1>1, <1>3
  <2> QED BY <2>1 DEF Counts
<1> QED BY <1>1, <1>2, <1>3

\* Some power of 16 is above n.
LEMMA PowersAbove == \A n \in Nat : n < Pow16[n]
<1> DEFINE S == {n \in Nat : n < Pow16[n]}
<1>1. 0 \in S
  BY Powers
<1>2. ASSUME NEW n \in Nat, n \in S PROVE n + 1 \in S
  <2>1. Pow16[n + 1] = 16 * Pow16[n] /\ Pow16[n] \in Nat /\ n < Pow16[n]
    BY <1>2, Powers
  <2> QED BY <2>1
<1>3. Nat \subseteq S
  <2> HIDE DEF S
  <2> QED BY <1>1, <1>2, SetInduction
<1> QED BY <1>3

\* A number has a number of digits.
LEMMA CountsExists ==
  ASSUME NEW n \in Nat
  PROVE  \E k : Counts(n, k)
<1> DEFINE T == {k \in Nat \ {0} : Divided(n)[k] = 0}
<1>1. n + 1 \in Nat /\ n + 1 < Pow16[n + 1] /\ Pow16[n + 1] \in Nat
  BY PowersAbove, Powers
<1>2. Divided(n)[2 * (n + 1)] = 0
  BY <1>1, Shrinks
<1>3. 2 * (n + 1) \in T /\ T \subseteq Nat
  BY <1>2
<1>4. PICK k \in T : \A j \in T : k <= j
  <2> HIDE DEF T
  <2> QED BY <1>3, Smallest
<1>5. ASSUME NEW j \in 1..(k - 1) PROVE Divided(n)[j] # 0
  <2>1. j \in Nat \ {0} /\ ~(k <= j)
    BY <1>4
  <2>2. j \notin T
    BY <1>4, <2>1
  <2> QED BY <2>1, <2>2
<1>6. Counts(n, k)
  BY <1>4, <1>5 DEF Counts
<1> QED BY <1>6

\* Dividing n once more is dividing its quotient.
LEMMA DividedShift ==
  ASSUME NEW n \in Int, NEW i \in Nat
  PROVE  Divided(n)[i + 1] = Divided(Quot(n))[i]
<1> DEFINE S == {k \in Nat : Divided(n)[k + 1] = Divided(Quot(n))[k]}
<1>1. Quot(n) \in Int
  BY Quots
<1>2. 0 \in S
  <2>1. Divided(n)[0 + 1] = Quot(Divided(n)[0])
    BY Divisions
  <2> QED BY <1>1, <2>1, Divisions
<1>3. ASSUME NEW k \in Nat, k \in S PROVE k + 1 \in S
  <2>1. Divided(n)[k + 1 + 1] = Quot(Divided(n)[k + 1])
    BY Divisions
  <2>2. Divided(Quot(n))[k + 1] = Quot(Divided(Quot(n))[k])
    BY <1>1, Divisions
  <2> QED BY <1>3, <2>1, <2>2
<1>4. i \in S
  <2> HIDE DEF S
  <2> QED BY <1>2, <1>3, SetInduction
<1> QED BY <1>4

\* C's division is the floor where the number is not negative.
LEMMA QuotNat == \A n \in Nat : Quot(n) = n \div 10 /\ n \div 10 \in Nat
  BY DEF Quot

\* The digit of a number that is not negative is its remainder.
LEMMA DigitCharNat == \A n \in Nat : DigitChar(n) = Digits[(n % 10) + 1]
<1> TAKE n \in Nat
<1>1. n - 10 * Quot(n) = n % 10 /\ n % 10 >= 0
  BY DEF Quot
<1> QED BY <1>1 DEF DigitChar

\* The digits of n when it has k, the highest first.
Decimals(k, n) == [j \in 1..k |-> DigitChar(Divided(n)[k - j])]

\* One digit.
LEMMA DecimalsFew ==
  ASSUME NEW n \in Nat, n < 10
  PROVE  Counts(n, 1) /\ Decimals(1, n) = <<Digits[n + 1]>>
<1>1. Quot(n) = 0 /\ n % 10 = n
  BY DEF Quot
<1>2. Divided(n)[0 + 1] = Quot(Divided(n)[0]) /\ Divided(n)[0] = n
  BY Divisions
<1>3. Counts(n, 1)
  BY <1>1, <1>2 DEF Counts
<1>4. DigitChar(Divided(n)[0]) = Digits[n + 1]
  BY <1>1, <1>2, DigitCharNat
<1>5. Decimals(1, n) = [j \in 1..1 |-> DigitChar(Divided(n)[0])]
  BY DEF Decimals
<1> QED BY <1>3, <1>4, <1>5

\* The digits of n are those of n / 10, and the last.
LEMMA DecimalsStep ==
  ASSUME NEW n \in Nat, n >= 10, NEW k, Counts(n \div 10, k)
  PROVE  /\ Counts(n, k + 1)
         /\ Decimals(k + 1, n) = Decimals(k, n \div 10) \o <<Digits[(n % 10) + 1]>>
<1> DEFINE m == n \div 10
<1>1. m \in Nat \ {0} /\ Quot(n) = m
  BY DEF Quot
<1>2. k \in Nat \ {0} /\ Divided(m)[k] = 0 /\ \A j \in 1..(k - 1) : Divided(m)[j] # 0
  BY DEF Counts
<1> HIDE DEF m
<1>3. \A i \in Nat : Divided(n)[i + 1] = Divided(m)[i]
  BY <1>1, DividedShift
<1>4. Divided(m)[0] = m /\ Divided(n)[0] = n
  <2>1. \A x \in Int : Divided(x)[0] = x
    BY Divisions
  <2>2. m \in Int /\ n \in Int
    BY <1>1
  <2> QED BY <2>1, <2>2
<1>5. ASSUME NEW j \in 1..(k + 1 - 1) PROVE Divided(n)[j] # 0
  <2>1. j - 1 \in Nat /\ j - 1 + 1 = j
    OBVIOUS
  <2>2. Divided(n)[j] = Divided(m)[j - 1]
    BY <1>3, <2>1
  <2>3. CASE j = 1
    BY <1>1, <1>4, <2>2, <2>3
  <2>4. CASE j # 1
    <3>1. j - 1 \in 1..(k - 1)
      BY <1>2, <2>4
    <3> QED BY <1>2, <2>2, <3>1
  <2> QED BY <2>3, <2>4
<1>6. Counts(n, k + 1)
  BY <1>2, <1>3, <1>5 DEF Counts
<1> DEFINE a == Decimals(k + 1, n)
           b == Decimals(k, m)
           d == Digits[(n % 10) + 1]
<1>7. a = [j \in 1..(k + 1) |-> DigitChar(Divided(n)[k + 1 - j])]
  BY <1>2 DEF Decimals
<1>8. b = [j \in 1..k |-> DigitChar(Divided(m)[k - j])]
  BY DEF Decimals
<1>9. b \o <<d>> = [j \in 1..(k + 1) |-> IF j <= k THEN b[j] ELSE d]
  <2> HIDE DEF d
  <2> QED BY <1>2, <1>8
<1>10. ASSUME NEW j \in 1..(k + 1)
      PROVE  DigitChar(Divided(n)[k + 1 - j]) = IF j <= k THEN b[j] ELSE d
  <2>1. CASE j <= k
    <3>1. k - j \in Nat /\ k + 1 - j = k - j + 1
      BY <1>2, <2>1
    <3>2. Divided(n)[k + 1 - j] = Divided(m)[k - j]
      BY <1>3, <3>1
    <3> QED BY <1>8, <2>1, <3>2
  <2>2. CASE ~(j <= k)
    <3>1. k + 1 - j = 0
      BY <1>2, <2>2
    <3> QED BY <1>4, <2>2, <3>1, DigitCharNat
  <2> QED BY <2>1, <2>2
<1>11. a = b \o <<d>>
  <2> HIDE DEF b, d
  <2> QED BY <1>7, <1>9, <1>10
<1> QED BY <1>6, <1>11 DEF m

\* The text in base 10 is the digits that the second loop puts.
LEMMA DecimalTextIs ==
  ASSUME NEW n \in Nat, NEW k, Counts(n, k)
  PROVE  DecimalText[n] = Decimals(k, n)
<1> DEFINE Few(x) == <<Digits[x + 1]>>
           Low(x) == <<Digits[(x % 10) + 1]>>
           Eq(g) == g = [x \in Nat |-> IF x < 10 THEN Few(x) ELSE g[x \div 10] \o Low(x)]
           Cnt(x) == CHOOSE i : Counts(x, i)
           h == [x \in Nat |-> Decimals(Cnt(x), x)]
<1>1. \A x \in Nat : Counts(x, Cnt(x))
  BY CountsExists
<1>2. \A x \in Nat : \A i : Counts(x, i) => Cnt(x) = i
  BY <1>1, CountsOnce
<1> HIDE DEF Cnt
<1>3. ASSUME NEW x \in Nat, x < 10 PROVE h[x] = Few(x)
  <2>1. Cnt(x) = 1
    BY <1>2, <1>3, DecimalsFew
  <2> QED BY <1>3, <2>1, DecimalsFew
<1>4. ASSUME NEW x \in Nat, ~(x < 10) PROVE h[x] = h[x \div 10] \o Low(x)
  <2>1. x \div 10 \in Nat /\ x >= 10
    BY <1>4
  <2>2. Counts(x \div 10, Cnt(x \div 10))
    BY <1>1, <2>1
  <2>3. /\ Counts(x, Cnt(x \div 10) + 1)
        /\ Decimals(Cnt(x \div 10) + 1, x) = Decimals(Cnt(x \div 10), x \div 10) \o Low(x)
    BY <2>1, <2>2, DecimalsStep
  <2>4. Cnt(x) = Cnt(x \div 10) + 1
    BY <1>2, <2>3
  <2>5. h[x] = Decimals(Cnt(x), x) /\ h[x \div 10] = Decimals(Cnt(x \div 10), x \div 10)
    BY <2>1
  <2> HIDE DEF h, Low
  <2> QED BY <2>3, <2>4, <2>5
<1>5. Eq(h)
  <2>1. \A x \in Nat : h[x] = IF x < 10 THEN Few(x) ELSE h[x \div 10] \o Low(x)
    <3> HIDE DEF h, Few, Low
    <3> QED BY <1>3, <1>4
  <2>2. h = [x \in Nat |-> h[x]]
    OBVIOUS
  <2> HIDE DEF h, Few, Low
  <2> QED BY <2>1, <2>2
<1>6. Eq(DecimalText)
  <2> HIDE DEF Eq
  <2>1. Eq(CHOOSE g : Eq(g))
    BY <1>5
  <2> USE DEF Eq
  <2> QED BY <2>1 DEF DecimalText
<1> DEFINE T == {x \in Nat : DecimalText[x] # h[x]}
<1>7. T = {}
  <2> SUFFICES ASSUME T # {} PROVE FALSE
    OBVIOUS
  <2>1. T \subseteq Nat
    OBVIOUS
  <2>2. PICK x \in T : \A y \in T : x <= y
    <3> HIDE DEF T
    <3> QED BY <2>1, Smallest
  <2>3. x \in Nat /\ DecimalText[x] # h[x] /\ \A y \in Nat : y < x => DecimalText[y] = h[y]
    BY <2>2
  <2> HIDE DEF h, Few, Low, T
  <2>4. ASSUME x < 10 PROVE FALSE
    <3>1. DecimalText[x] = Few(x)
      BY <1>6, <2>3, <2>4
    <3> QED BY <1>3, <2>3, <2>4, <3>1
  <2>5. ASSUME ~(x < 10) PROVE FALSE
    <3>1. DecimalText[x] = DecimalText[x \div 10] \o Low(x)
      BY <1>6, <2>3, <2>5
    <3>2. x \div 10 \in Nat /\ x \div 10 < x
      BY <2>3, <2>5
    <3>3. DecimalText[x \div 10] = h[x \div 10]
      BY <2>3, <3>2
    <3> QED BY <1>4, <2>3, <2>5, <3>1, <3>3
  <2> QED BY <2>4, <2>5
<1>8. DecimalText[n] = h[n]
  <2> HIDE DEF h
  <2> QED BY <1>7
<1>9. h[n] = Decimals(Cnt(n), n) /\ Cnt(n) = k
  BY <1>2
<1> HIDE DEF h
<1> QED BY <1>8, <1>9

\* Below the most negative long, %d shows the number.
LEMMA DecimalCharsIs ==
  ASSUME NEW v \in LongMin..(-LongMin - 1), v # LongMin
  PROVE  DecimalChars(v) = IF v < 0 THEN <<"-">> \o DecimalText[-v] ELSE DecimalText[v]
<1> DEFINE num == IF v < 0 THEN -v ELSE v
<1>1. num \in Nat /\ -Pow16[LongHex] < num /\ num < Pow16[LongHex]
  BY LongRange, Powers
<1>2. num = IF v < 0 THEN Negated(v) ELSE v
  BY DEF Negated
<1> HIDE DEF num
<1> DEFINE k == CountDigits(num)
<1>3. Counts(num, k)
  <2>1. k \in 1..(2 * LongHex) /\ Divided(num)[k] = 0 /\ \A j \in 1..(k - 1) : Divided(num)[j] # 0
    BY <1>1, DigitsCounted
  <2>2. k \in Nat \ {0}
    BY <2>1, PrintfAssumption
  <2> HIDE DEF k
  <2> QED BY <2>1, <2>2 DEF Counts
<1>4. DecimalChars(v) = (IF v < 0 THEN <<"-">> ELSE << >>) \o Decimals(k, num)
  BY <1>2 DEF DecimalChars, Decimals
<1>5. Decimals(k, num) = DecimalText[num]
  BY <1>1, <1>3, DecimalTextIs
<1>6. DecimalChars(v) = (IF v < 0 THEN <<"-">> ELSE << >>) \o DecimalText[num]
  <2> HIDE DEF k
  <2> QED BY <1>4, <1>5
<1>7. CASE v < 0
  BY <1>6, <1>7 DEF num
<1>8. CASE ~(v < 0)
  <2>1. Decimals(k, num) = [j \in 1..k |-> DigitChar(Divided(num)[k - j])] /\ k \in Nat
    BY <1>3 DEF Decimals, Counts
  <2>2. << >> \o Decimals(k, num) = Decimals(k, num)
    <3> HIDE DEF k
    <3> QED BY <2>1
  <2>3. DecimalChars(v) = DecimalText[num] /\ num = v
    BY <1>5, <1>6, <1>8, <2>2 DEF num
  <2> QED BY <1>8, <2>3
<1> QED BY <1>7, <1>8

\* Only the register's least value is taken as the least long.
LEMMA TakenLeast ==
  ASSUME NEW n \in LongMin..(-LongMin - 1), n # LongMin, NEW long \in BOOLEAN
  PROVE  Taken(n, long) # LongMin
<1>1. LongMin \in Int /\ LongMin < 0 /\ Pow16[LongHex] = -2 * LongMin /\ n \in Int
  BY LongRange
<1>2. CASE long
  BY <1>2 DEF Taken
<1>3. CASE ~long
  <2> DEFINE w == Pow16[IntHex]
  <2>1. Taken(n, long) = IF 2 * (n % w) >= w THEN (n % w) - w ELSE n % w
    BY <1>3 DEF Taken
  <2>2. w \in Nat \ {0} /\ w <= -2 * LongMin
    BY <1>1, Powers, PowersGrow, PrintfAssumption
  <2>3. n % w \in 0..(w - 1)
    <3> HIDE DEF w
    <3> QED BY <1>1, <2>2
  <2> HIDE DEF w
  <2>4. ASSUME Taken(n, long) = LongMin PROVE FALSE
    <3>1. w = -2 * LongMin /\ n % w = -LongMin
      BY <1>1, <2>1, <2>2, <2>3, <2>4
    <3>2. CASE n >= 0
      <4>1. n % w = n
        BY <1>1, <3>1, <3>2
      <4> QED BY <1>1, <3>1, <4>1
    <3>3. CASE ~(n >= 0)
      <4>1. n % w = n + w
        BY <1>1, <3>1, <3>3
      <4> QED BY <1>1, <3>1, <4>1
    <3> QED BY <3>2, <3>3
  <2> QED BY <2>4
<1> QED BY <1>2, <1>3

\* What a conversion puts into the buffer is what it should say.
LEMMA ConvertedIs ==
  ASSUME NEW p \in Piece, p.kind = "conv", NEW r \in Register,
         p.c = "d" => r.num # LongMin
  PROVE  Converted(p.c, p.long, r) = PieceText(p, r)
<1>1. p.c \in Conversions /\ p.long \in BOOLEAN
  BY DEF Piece
<1>2. r.num \in LongMin..(-LongMin - 1)
  BY DEF Register
<1>3. r.num \in Int
  BY <1>2, LongRange
<1>4. CASE p.c = "p"
  <2>1. Converted(p.c, p.long, r) = <<"0", "x">> \o HexDigits(r.num, TRUE)
    BY <1>4 DEF Converted
  <2>2. PieceText(p, r) = <<"0", "x">> \o NumberText("x", TRUE, r.num)
    BY <1>4 DEF PieceText
  <2>3. NumberText("x", TRUE, r.num) = HexText[LongHex][r.num]
    BY DEF NumberText
  <2>4. Taken(r.num, TRUE) = r.num
    BY DEF Taken
  <2>5. HexDigits(Taken(r.num, TRUE), TRUE) = HexText[LongHex][r.num]
    BY <1>3, HexDigitsIs
  <2> QED BY <2>1, <2>2, <2>3, <2>4, <2>5
<1>5. CASE p.c = "x"
  <2>1. Converted(p.c, p.long, r) = HexDigits(Taken(r.num, p.long), p.long)
    BY <1>5 DEF Converted
  <2>2. PieceText(p, r) = NumberText("x", p.long, r.num)
    BY <1>5 DEF PieceText
  <2>3. NumberText("x", p.long, r.num) = HexText[IF p.long THEN LongHex ELSE IntHex][r.num]
    BY DEF NumberText
  <2> QED BY <1>1, <1>3, <2>1, <2>2, <2>3, HexDigitsIs
<1>6. CASE p.c = "d"
  <2> DEFINE v == Taken(r.num, p.long)
  <2>1. Converted(p.c, p.long, r) = DecimalChars(v)
    BY <1>6 DEF Converted
  <2>2. PieceText(p, r) = NumberText("d", p.long, r.num)
    BY <1>6 DEF PieceText
  <2>3. NumberText("d", p.long, r.num) = IF v < 0 THEN <<"-">> \o DecimalText[-v] ELSE DecimalText[v]
    BY DEF NumberText
  <2>4. v \in LongMin..(-LongMin - 1) /\ v # LongMin
    BY <1>1, <1>2, <1>6, TakenRange, TakenLeast
  <2> HIDE DEF v
  <2> QED BY <2>1, <2>2, <2>3, <2>4, DecimalCharsIs
<1>7. CASE p.c = "s"
  BY <1>7 DEF Converted, PieceText
<1>8. CASE p.c = "c"
  BY <1>8 DEF Converted, PieceText
<1> QED BY <1>1, <1>4, <1>5, <1>6, <1>7, <1>8 DEF Conversions

---------------------------------------------------------------------------
(* The pieces of a format, what they are spelled and what they say.        *)

\* The conversions among the first k pieces of f, the argument that piece k
\* takes, what the pieces are spelled and what they say.
Convs(f, k) == Cardinality({j \in 1..k : f[j].kind = "conv"})
ArgOf(f, a, k) == a[IF Convs(f, k) = 0 THEN 1 ELSE Convs(f, k)]
Spelled(f) == [k \in DOMAIN f |-> PieceChars(f[k])]
Texts(f, a) == [k \in DOMAIN f |-> PieceText(f[k], ArgOf(f, a, k))]
\* What the first sequences of s say, for every number of them.
Join(A, s) == CHOOSE g : Joined(A, s, g) /\ FlattenSeq(s) = g[Len(s)]

\* What the first i pieces are spelled and say.
CharsTo(f, i) == Join(Char, Spelled(f))[i]
TextTo(f, a, i) == Join(Char \cup {NUL}, Texts(f, a))[i]

\* Proper, of the format f and the arguments a.
ProperFor(f, a) ==
  \A k \in DOMAIN f :
    f[k].kind # "unknown" /\ (f[k].kind = "conv" /\ f[k].c = "d" => a[Convs(f, k)].num # LongMin)

\* Join builds up the concatenation.
LEMMA JoinIs ==
  ASSUME NEW A, NEW s \in Seq(Seq(A))
  PROVE  Joined(A, s, Join(A, s)) /\ FlattenSeq(s) = Join(A, s)[Len(s)]
<1> DEFINE P(g) == Joined(A, s, g) /\ FlattenSeq(s) = g[Len(s)]
<1>1. \E g : P(g)
  BY Flattened
<1>2. Join(A, s) = CHOOSE g : P(g)
  BY DEF Join
<1> HIDE DEF P
<1>3. P(Join(A, s))
  BY <1>1, <1>2
<1> QED BY <1>3 DEF P

\* The sequence v is in w after its first d elements.
Occurs(v, w, d) == \A j \in 1..Len(v) : w[d + j] = v[j]

\* Both parts occur in a concatenation.
LEMMA ConcatIs ==
  ASSUME NEW A, NEW u \in Seq(A), NEW v \in Seq(A)
  PROVE  /\ u \o v \in Seq(A) /\ Len(u \o v) = Len(u) + Len(v)
         /\ Len(u) \in Nat /\ Len(v) \in Nat
         /\ Occurs(u, u \o v, 0) /\ Occurs(v, u \o v, Len(u))
  BY DEF Occurs

\* One more sequence is joined.
LEMMA JoinedStep ==
  ASSUME NEW A, NEW s \in Seq(Seq(A)), NEW g, Joined(A, s, g), NEW i \in 0..(Len(s) - 1)
  PROVE  /\ g[i] \in Seq(A) /\ g[i + 1] \in Seq(A) /\ s[i + 1] \in Seq(A)
         /\ i + 1 \in 1..Len(s) /\ g[i + 1] = g[i] \o s[i + 1]
<1>1. i + 1 \in 1..Len(s) /\ i \in 0..Len(s) /\ i + 1 \in 0..Len(s) /\ i + 1 - 1 = i
  OBVIOUS
<1>2. \A j \in 1..Len(s) : g[j] = g[j - 1] \o s[j]
  BY DEF Joined
<1>3. PICK j \in 1..Len(s) : j = i + 1
  BY <1>1
<1>4. g[j] = g[j - 1] \o s[j]
  BY <1>2
<1>5. j - 1 = i
  BY <1>3
<1>6. g[i + 1] = g[i] \o s[i + 1]
  BY <1>3, <1>4, <1>5
<1>7. g[i] \in Seq(A) /\ g[i + 1] \in Seq(A)
  BY <1>1 DEF Joined
<1>8. s[i + 1] \in Seq(A)
  BY <1>1
<1> QED BY <1>1, <1>6, <1>7, <1>8

\* What was joined first stays in front.
LEMMA JoinedPrefix ==
  ASSUME NEW A, NEW s \in Seq(Seq(A)), NEW g, Joined(A, s, g),
         NEW i \in 0..Len(s), NEW m \in i..Len(s)
  PROVE  Len(g[i]) <= Len(g[m]) /\ Occurs(g[i], g[m], 0)
<1> DEFINE Q(m1) == Len(g[i]) <= Len(g[m1]) /\ Occurs(g[i], g[m1], 0)
           S == {d \in Nat : i + d <= Len(s) => Q(i + d)}
<1>1. \A k \in 0..Len(s) : g[k] \in Seq(A) /\ Len(g[k]) \in Nat
  BY DEF Joined
<1>2. 0 \in S
  BY <1>1 DEF Occurs
<1>3. ASSUME NEW d \in Nat, d \in S PROVE d + 1 \in S
  <2> SUFFICES ASSUME i + (d + 1) <= Len(s) PROVE Q(i + (d + 1))
    OBVIOUS
  <2> DEFINE n == i + d
  <2>1. n \in 0..(Len(s) - 1) /\ i + (d + 1) = n + 1
    OBVIOUS
  <2>2. Q(n)
    BY <1>3
  <2> HIDE DEF n
  <2> DEFINE u == g[n]
             v == s[n + 1]
             w == g[n + 1]
             x == g[i]
  <2>3. u \in Seq(A) /\ v \in Seq(A) /\ w = u \o v
    BY <2>1, JoinedStep
  <2>4. x \in Seq(A) /\ Len(x) \in Nat /\ Len(x) <= Len(u) /\ Occurs(x, u, 0)
    BY <1>1, <2>2
  <2> HIDE DEF u, v, w, x
  <2>5. /\ Len(u \o v) = Len(u) + Len(v) /\ Len(u) \in Nat /\ Len(v) \in Nat
        /\ Occurs(u, u \o v, 0)
    BY <2>3, ConcatIs
  <2>6. Len(w) = Len(u) + Len(v) /\ Len(u) \in Nat /\ Len(v) \in Nat /\ Occurs(u, w, 0)
    BY <2>3, <2>5
  <2>7. \A j \in 1..Len(x) : j \in 1..Len(u) /\ 0 + j = j
    BY <2>4, <2>6
  <2>8. Occurs(x, w, 0)
    BY <2>4, <2>6, <2>7 DEF Occurs
  <2>9. Len(x) <= Len(w)
    BY <2>4, <2>6
  <2>10. Q(n + 1)
    BY <2>8, <2>9 DEF w, x
  <2> QED BY <2>1, <2>10
<1>4. m - i \in S
  <2>1. m - i \in Nat
    OBVIOUS
  <2> HIDE DEF S
  <2>2. Nat \subseteq S
    BY <1>2, <1>3, SetInduction
  <2> QED BY <2>1, <2>2
<1>5. Q(m)
  <2>1. i + (m - i) = m /\ m <= Len(s)
    OBVIOUS
  <2> HIDE DEF Q
  <2> QED BY <1>4, <2>1
<1> QED BY <1>5

\* Where the sequences are in what they join to.
LEMMA JoinedAt ==
  ASSUME NEW A, NEW s \in Seq(Seq(A)), NEW g, Joined(A, s, g), NEW i \in 0..(Len(s) - 1)
  PROVE  /\ Len(g[i + 1]) = Len(g[i]) + Len(s[i + 1])
         /\ Len(g[i + 1]) <= Len(g[Len(s)])
         /\ Occurs(s[i + 1], g[Len(s)], Len(g[i]))
<1> DEFINE u == g[i]
           v == s[i + 1]
           w == g[i + 1]
           x == g[Len(s)]
<1>1. u \in Seq(A) /\ v \in Seq(A) /\ w = u \o v
  BY JoinedStep
<1>2. i + 1 \in 0..Len(s) /\ Len(s) \in (i + 1)..Len(s)
  OBVIOUS
<1>3. Len(w) <= Len(x) /\ Occurs(w, x, 0)
  BY <1>2, JoinedPrefix
<1> HIDE DEF u, v, w, x
<1>4. Len(w) = Len(u) + Len(v) /\ Len(u) \in Nat /\ Len(v) \in Nat /\ Occurs(v, w, Len(u))
  <2>1. /\ Len(u \o v) = Len(u) + Len(v) /\ Len(u) \in Nat /\ Len(v) \in Nat
        /\ Occurs(v, u \o v, Len(u))
    BY <1>1, ConcatIs
  <2> QED BY <1>1, <2>1
<1>5. \A j \in 1..Len(v) : Len(u) + j \in 1..Len(w) /\ 0 + (Len(u) + j) = Len(u) + j
  BY <1>4
<1>6. Occurs(v, x, Len(u))
  BY <1>3, <1>4, <1>5 DEF Occurs
<1> QED BY <1>3, <1>4, <1>6 DEF u, v, w, x

\* No piece, no conversion.
LEMMA ConvsZero == \A f : Convs(f, 0) = 0
<1> TAKE f
<1>1. {j \in 1..0 : f[j].kind = "conv"} = {}
  OBVIOUS
<1> QED BY <1>1, FS_EmptySet DEF Convs

\* One more piece is one more conversion, if it is one.
LEMMA ConvsStep ==
  ASSUME NEW f, NEW i \in Nat
  PROVE  /\ Convs(f, i) \in Nat
         /\ f[i + 1].kind = "conv" => Convs(f, i + 1) = Convs(f, i) + 1
         /\ f[i + 1].kind # "conv" => Convs(f, i + 1) = Convs(f, i)
<1> DEFINE C(k) == {j \in 1..k : f[j].kind = "conv"}
<1>1. IsFiniteSet(C(i))
  <2>1. IsFiniteSet(1..i)
    BY FS_Interval
  <2>2. C(i) \subseteq 1..i
    OBVIOUS
  <2> QED BY <2>1, <2>2, FS_Subset
<1>2. Cardinality(C(i)) \in Nat
  <2> HIDE DEF C
  <2> QED BY <1>1, FS_CardinalityType
<1>3. ASSUME f[i + 1].kind = "conv" PROVE C(i + 1) = C(i) \cup {i + 1} /\ i + 1 \notin C(i)
  BY <1>3
<1>4. ASSUME f[i + 1].kind # "conv" PROVE C(i + 1) = C(i)
  BY <1>4
<1>5. Convs(f, i) = Cardinality(C(i)) /\ Convs(f, i + 1) = Cardinality(C(i + 1))
  BY DEF Convs
<1> HIDE DEF C
<1>6. ASSUME f[i + 1].kind = "conv" PROVE Cardinality(C(i + 1)) = Cardinality(C(i)) + 1
  BY <1>1, <1>3, <1>6, FS_AddElement
<1> QED BY <1>2, <1>4, <1>5, <1>6

\* Without a conversion up to k there is none.
LEMMA ConvsNone ==
  ASSUME NEW f, NEW k \in Nat, Convs(f, k) = 0, NEW i \in 1..k
  PROVE  f[i].kind # "conv"
<1> DEFINE C == {j \in 1..k : f[j].kind = "conv"}
<1>1. IsFiniteSet(C)
  <2>1. IsFiniteSet(1..k)
    BY FS_Interval
  <2>2. C \subseteq 1..k
    OBVIOUS
  <2> QED BY <2>1, <2>2, FS_Subset
<1>2. Cardinality(C) = 0
  BY DEF Convs
<1> HIDE DEF C
<1>3. C = {}
  BY <1>1, <1>2, FS_EmptySet
<1> QED BY <1>3 DEF C

\* A format is the spelling of its pieces, one after the other.
LEMMA Spelling ==
  ASSUME NEW f \in Seq(Piece)
  PROVE  /\ Spelled(f) \in Seq(Seq(Char)) /\ Len(Spelled(f)) = Len(f)
         /\ \A k \in 1..Len(f) : Spelled(f)[k] = PieceChars(f[k])
         /\ Joined(Char, Spelled(f), Join(Char, Spelled(f)))
         /\ Chars(f) = CharsTo(f, Len(f))
<1>1. DOMAIN f = 1..Len(f) /\ \A k \in 1..Len(f) : f[k] \in Piece
  OBVIOUS
<1>2. \A k \in 1..Len(f) : PieceChars(f[k]) \in Seq(Char)
  BY <1>1, PieceCharsType
<1>3. Spelled(f) = [k \in 1..Len(f) |-> PieceChars(f[k])]
  BY <1>1 DEF Spelled
<1>4. /\ Spelled(f) \in Seq(Seq(Char)) /\ Len(Spelled(f)) = Len(f)
      /\ \A k \in 1..Len(f) : Spelled(f)[k] = PieceChars(f[k])
  BY <1>2, <1>3
<1>5. /\ Joined(Char, Spelled(f), Join(Char, Spelled(f)))
      /\ FlattenSeq(Spelled(f)) = Join(Char, Spelled(f))[Len(Spelled(f))]
  BY <1>4, JoinIs
<1>6. Chars(f) = FlattenSeq(Spelled(f))
  BY DEF Chars, Spelled
<1> QED BY <1>4, <1>5, <1>6 DEF CharsTo

\* Piece i + 1 is spelled in the format after the first i.
LEMMA SpellingAt ==
  ASSUME NEW f \in Seq(Piece), NEW i \in 0..(Len(f) - 1)
  PROVE  /\ f[i + 1] \in Piece /\ i + 1 \in 1..Len(f)
         /\ CharsTo(f, i) \in Seq(Char) /\ PieceChars(f[i + 1]) \in Seq(Char)
         /\ Len(CharsTo(f, i + 1)) = Len(CharsTo(f, i)) + Len(PieceChars(f[i + 1]))
         /\ Len(CharsTo(f, i + 1)) <= Len(Chars(f))
         /\ Occurs(PieceChars(f[i + 1]), Chars(f), Len(CharsTo(f, i)))
<1> DEFINE s == Spelled(f)
           g == Join(Char, s)
<1>1. i + 1 \in 1..Len(f) /\ f[i + 1] \in Piece
  OBVIOUS
<1>2. s \in Seq(Seq(Char)) /\ Len(s) = Len(f) /\ Joined(Char, s, g) /\ Chars(f) = g[Len(s)]
      /\ s[i + 1] = PieceChars(f[i + 1])
  BY <1>1, Spelling DEF CharsTo
<1>3. CharsTo(f, i) = g[i] /\ CharsTo(f, i + 1) = g[i + 1]
  BY DEF CharsTo
<1> HIDE DEF s, g
<1>4. i \in 0..(Len(s) - 1)
  BY <1>2
<1>5. g[i] \in Seq(Char) /\ s[i + 1] \in Seq(Char)
  BY <1>2, <1>4, JoinedStep
<1>6. /\ Len(g[i + 1]) = Len(g[i]) + Len(s[i + 1])
      /\ Len(g[i + 1]) <= Len(g[Len(s)])
      /\ Occurs(s[i + 1], g[Len(s)], Len(g[i]))
  <2>1. s \in Seq(Seq(Char)) /\ Joined(Char, s, g)
    BY <1>2
  <2> QED BY ONLY <2>1, <1>4, JoinedAt
<1> QED BY <1>1, <1>2, <1>3, <1>5, <1>6

\* w is u with x at its end.
IsSnoc(w, u, x) ==
  Len(w) = Len(u) + 1 /\ w[Len(u) + 1] = x /\ \A j \in 1..Len(u) : w[j] = u[j]

\* A sequence with one more element.
LEMMA SnocIs ==
  ASSUME NEW A, NEW u \in Seq(A), NEW x \in A
  PROVE  u \o <<x>> \in Seq(A) /\ IsSnoc(u \o <<x>>, u, x)
<1> DEFINE v == <<x>>
<1>1. v \in Seq(A) /\ Len(v) = 1 /\ v[1] = x
  OBVIOUS
<1> HIDE DEF v
<1>2. u \o v \in Seq(A) /\ Len(u \o v) = Len(u) + 1
      /\ (u \o v)[Len(u) + 1] = x /\ \A j \in 1..Len(u) : (u \o v)[j] = u[j]
  <2>1. /\ u \o v \in Seq(A) /\ Len(u \o v) = Len(u) + Len(v) /\ Len(u) \in Nat
        /\ Occurs(u, u \o v, 0) /\ Occurs(v, u \o v, Len(u))
    BY <1>1, ConcatIs
  <2>2. 1 \in 1..Len(v)
    BY <1>1
  <2>3. (u \o v)[Len(u) + 1] = v[1]
    BY <2>1, <2>2 DEF Occurs
  <2>4. \A j \in 1..Len(u) : (u \o v)[0 + j] = u[j] /\ 0 + j = j
    BY <2>1 DEF Occurs
  <2> QED BY <1>1, <2>1, <2>3, <2>4
<1>3. IsSnoc(u \o v, u, x)
  BY <1>2 DEF IsSnoc
<1> QED BY <1>2, <1>3 DEF v

\* The characters of the pieces.
LEMMA PieceCharsAre ==
  ASSUME NEW p \in Piece
  PROVE  /\ p.kind \in {"char", "conv", "unknown"}
         /\ p.kind = "char" => /\ PieceChars(p) = <<p.c>> /\ p.c # "%" /\ p.c \in Char
         /\ p.kind = "conv" =>
              /\ p.c \in Conversions /\ p.long \in BOOLEAN
              /\ Len(PieceChars(p)) = IF p.long THEN 3 ELSE 2
              /\ PieceChars(p)[1] = "%"
              /\ PieceChars(p)[2] = IF p.long THEN "l" ELSE p.c
              /\ p.long => PieceChars(p)[3] = p.c
<1>1. CASE p \in [kind : {"char"}, c : Char \ {"%"}]
  BY <1>1 DEF PieceChars
<1>2. CASE p \in [kind : {"conv"}, c : Conversions, long : BOOLEAN]
  <2>1. p.kind = "conv" /\ p.c \in Conversions /\ p.long \in BOOLEAN
    BY <1>2
  <2>2. "%" \in Char /\ "l" \in Char /\ p.c \in Char
    BY <2>1, PrintfAssumption
  <2>3. PieceChars(p) = <<"%">> \o (IF p.long THEN <<"l">> ELSE << >>) \o <<p.c>>
    BY <2>1 DEF PieceChars
  <2>4. CASE p.long
    <3>1. PieceChars(p) = (<<"%">> \o <<"l">>) \o <<p.c>>
      BY <2>3, <2>4
    <3> DEFINE q == <<"%">>
               r == q \o <<"l">>
    <3>2. q \in Seq(Char) /\ Len(q) = 1 /\ q[1] = "%" /\ 1 \in 1..1 /\ 1 + 1 = 2
      BY <2>2
    <3> HIDE DEF q
    <3>3. r \in Seq(Char) /\ Len(r) = 2 /\ r[1] = "%" /\ r[2] = "l"
      <4>1. r \in Seq(Char) /\ IsSnoc(r, q, "l")
        BY <2>2, <3>2, SnocIs
      <4> HIDE DEF r
      <4> QED BY <3>2, <4>1 DEF IsSnoc
    <3>4. 1 \in 1..2 /\ 2 \in 1..2 /\ 2 + 1 = 3
      OBVIOUS
    <3> HIDE DEF r
    <3> DEFINE z == r \o <<p.c>>
    <3>5. Len(z) = 3 /\ z[1] = "%" /\ z[2] = "l" /\ z[3] = p.c
      <4>1. IsSnoc(z, r, p.c)
        BY <2>2, <3>3, SnocIs
      <4> HIDE DEF z
      <4> QED BY <3>3, <3>4, <4>1 DEF IsSnoc
    <3>6. PieceChars(p) = z
      BY <3>1 DEF q, r
    <3> HIDE DEF z
    <3> QED BY <2>1, <2>4, <3>5, <3>6
  <2>5. CASE ~p.long
    <3>1. PieceChars(p) = (<<"%">> \o << >>) \o <<p.c>>
      BY <2>3, <2>5
    <3> DEFINE q == <<"%">>
    <3>2. q \in Seq(Char) /\ Len(q) = 1 /\ q[1] = "%" /\ 1 \in 1..1 /\ 1 + 1 = 2
      BY <2>2
    <3>3. q \o << >> = q
      <4> HIDE DEF q
      <4> QED BY <3>2
    <3> DEFINE z == q \o <<p.c>>
    <3>4. PieceChars(p) = z
      BY <3>1, <3>3
    <3> HIDE DEF q
    <3>5. Len(z) = 2 /\ z[1] = "%" /\ z[2] = p.c
      <4>1. IsSnoc(z, q, p.c)
        BY <2>2, <3>2, SnocIs
      <4> HIDE DEF z
      <4> QED BY <3>2, <4>1 DEF IsSnoc
    <3> HIDE DEF z
    <3> QED BY <2>1, <2>5, <3>4, <3>5
  <2> QED BY <2>4, <2>5
<1>3. CASE p \in [kind : {"unknown"}, c : Char \ (Conversions \cup {"l"}), long : BOOLEAN]
  BY <1>3
<1> QED BY <1>1, <1>2, <1>3 DEF Piece

\* A conversion is spelled with two characters or more: the arguments suffice.
LEMMA ArgsEnough ==
  ASSUME NEW f \in Formats, NEW a \in Args \cup Stale, NEW i \in 0..Len(f)
  PROVE  Convs(f, i) \in Nat /\ Convs(f, i) <= Len(a)
<1>1. f \in Seq(Piece) /\ a \in Seq(Register) /\ Len(Chars(f)) <= 2 * Len(a)
  BY PrintfAssumption
<1> DEFINE S == {k \in Nat : k <= Len(f) => 2 * Convs(f, k) <= Len(CharsTo(f, k))}
<1>2. 0 \in S
  <2>1. CharsTo(f, 0) = << >>
    BY <1>1, Spelling DEF CharsTo, Joined
  <2> QED BY <2>1, ConvsZero
<1>3. ASSUME NEW k \in Nat, k \in S PROVE k + 1 \in S
  <2> SUFFICES ASSUME k + 1 <= Len(f) PROVE 2 * Convs(f, k + 1) <= Len(CharsTo(f, k + 1))
    OBVIOUS
  <2>1. k \in 0..(Len(f) - 1) /\ 2 * Convs(f, k) <= Len(CharsTo(f, k)) /\ Convs(f, k) \in Nat
    BY <1>1, <1>3, ConvsStep
  <2>2. /\ Len(CharsTo(f, k + 1)) = Len(CharsTo(f, k)) + Len(PieceChars(f[k + 1]))
        /\ Len(CharsTo(f, k)) \in Nat /\ Len(PieceChars(f[k + 1])) \in Nat /\ f[k + 1] \in Piece
    BY <1>1, <2>1, SpellingAt
  <2>3. CASE f[k + 1].kind = "conv"
    <3>1. Len(PieceChars(f[k + 1])) >= 2
      <4>1. Len(PieceChars(f[k + 1])) = IF f[k + 1].long THEN 3 ELSE 2
        BY <2>2, <2>3, PieceCharsAre
      <4> QED BY <4>1
    <3>2. Convs(f, k + 1) = Convs(f, k) + 1
      BY <2>3, ConvsStep
    <3> QED BY <2>1, <2>2, <3>1, <3>2
  <2>4. CASE f[k + 1].kind # "conv"
    <3>1. Convs(f, k + 1) = Convs(f, k)
      BY <2>4, ConvsStep
    <3> QED BY <2>1, <2>2, <3>1
  <2> QED BY <2>3, <2>4
<1>4. i \in S /\ i \in Nat
  <2> HIDE DEF S
  <2> QED BY <1>2, <1>3, SetInduction
<1>5. 2 * Convs(f, i) <= Len(CharsTo(f, i)) /\ Convs(f, i) \in Nat
  BY <1>4, ConvsStep
<1>6. Len(CharsTo(f, i)) <= Len(Chars(f)) /\ Len(CharsTo(f, i)) \in Nat /\ Len(Chars(f)) \in Nat
  <2> DEFINE s == Spelled(f)
             g == Join(Char, s)
  <2>1. s \in Seq(Seq(Char)) /\ Len(s) = Len(f) /\ Joined(Char, s, g) /\ Chars(f) = g[Len(s)]
    BY <1>1, Spelling DEF CharsTo
  <2>2. CharsTo(f, i) = g[i]
    BY DEF CharsTo
  <2> HIDE DEF s, g
  <2>3. i \in 0..Len(s) /\ Len(s) \in i..Len(s) /\ Len(s) \in 0..Len(s)
    BY <1>1, <2>1
  <2>4. Len(g[i]) <= Len(g[Len(s)])
    BY <2>1, <2>3, JoinedPrefix
  <2> QED BY <2>1, <2>2, <2>3, <2>4 DEF Joined
<1> QED BY <1>1, <1>5, <1>6

\* The argument of a conversion is there, and the piece says what it puts.
LEMMA PieceSays ==
  ASSUME NEW f \in Formats, NEW a \in Args, ProperFor(f, a), NEW k \in 1..Len(f)
  PROVE  /\ f[k] \in Piece
         /\ f[k].kind \in {"char", "conv"}
         /\ f[k].kind = "char" => PieceText(f[k], ArgOf(f, a, k)) = <<f[k].c>>
         /\ f[k].kind = "conv" =>
              /\ Convs(f, k) \in 1..Len(a) /\ a[Convs(f, k)] \in Register
              /\ PieceText(f[k], ArgOf(f, a, k)) = Converted(f[k].c, f[k].long, a[Convs(f, k)])
         /\ PieceText(f[k], ArgOf(f, a, k)) \in Seq(Char \cup {NUL})
<1>1. f \in Seq(Piece) /\ a \in Seq(Register)
  BY PrintfAssumption
<1> DEFINE p == f[k]
           n == Convs(f, k)
<1>2. p \in Piece /\ k \in DOMAIN f
  BY <1>1
<1>3. p.kind # "unknown" /\ (p.kind = "conv" /\ p.c = "d" => a[n].num # LongMin)
  BY <1>2 DEF ProperFor
<1>4. p.kind \in {"char", "conv"}
  BY <1>2, <1>3, PieceCharsAre
<1>5. CASE p.kind = "char"
  <2>1. PieceText(p, ArgOf(f, a, k)) = <<p.c>>
    BY <1>5 DEF PieceText
  <2>2. p.c \in Char
    BY <1>2, <1>5, PieceCharsAre
  <2>3. <<p.c>> \in Seq(Char \cup {NUL})
    BY <2>2
  <2> QED BY <1>2, <1>4, <1>5, <2>1, <2>3
<1>6. CASE p.kind = "conv"
  <2>1. n \in Nat /\ n <= Len(a)
    <3>1. k \in 0..Len(f)
      OBVIOUS
    <3> QED BY <3>1, ArgsEnough
  <2>2. n # 0
    <3>1. k \in Nat /\ k \in 1..k
      OBVIOUS
    <3> QED BY <1>6, <3>1, ConvsNone
  <2>3. n \in 1..Len(a) /\ a[n] \in Register
    BY <1>1, <2>1, <2>2
  <2>4. ArgOf(f, a, k) = a[n]
    BY <2>2 DEF ArgOf
  <2> HIDE DEF p, n
  <2>5. Converted(p.c, p.long, a[n]) = PieceText(p, a[n])
    BY <1>2, <1>3, <1>6, <2>3, ConvertedIs
  <2>6. p.c \in Conversions /\ p.long \in BOOLEAN
    BY <1>2, <1>6, PieceCharsAre
  <2>7. Converted(p.c, p.long, a[n]) \in Seq(Char \cup {NUL})
    BY <2>3, <2>6, ConvertedType
  <2>8. PieceText(p, ArgOf(f, a, k)) = Converted(p.c, p.long, a[n])
    BY <2>4, <2>5
  <2>9. PieceText(p, ArgOf(f, a, k)) \in Seq(Char \cup {NUL})
    BY <2>7, <2>8
  <2> QED BY <1>2, <1>4, <1>6, <2>3, <2>8, <2>9 DEF p, n
<1> QED BY <1>4, <1>5, <1>6

\* What a format says is what its pieces say, one after the other.
LEMMA Saying ==
  ASSUME NEW f \in Formats, NEW a \in Args, ProperFor(f, a)
  PROVE  /\ Texts(f, a) \in Seq(Seq(Char \cup {NUL})) /\ Len(Texts(f, a)) = Len(f)
         /\ \A k \in 1..Len(f) : Texts(f, a)[k] = PieceText(f[k], ArgOf(f, a, k))
         /\ Joined(Char \cup {NUL}, Texts(f, a), Join(Char \cup {NUL}, Texts(f, a)))
         /\ FlattenSeq(Texts(f, a)) = TextTo(f, a, Len(f))
<1>1. f \in Seq(Piece) /\ DOMAIN f = 1..Len(f)
  BY PrintfAssumption
<1>2. \A k \in 1..Len(f) : PieceText(f[k], ArgOf(f, a, k)) \in Seq(Char \cup {NUL})
  BY PieceSays
<1>3. Texts(f, a) = [k \in 1..Len(f) |-> PieceText(f[k], ArgOf(f, a, k))]
  BY <1>1 DEF Texts
<1>4. /\ Texts(f, a) \in Seq(Seq(Char \cup {NUL})) /\ Len(Texts(f, a)) = Len(f)
      /\ \A k \in 1..Len(f) : Texts(f, a)[k] = PieceText(f[k], ArgOf(f, a, k))
  BY <1>1, <1>2, <1>3
<1> DEFINE A == Char \cup {NUL}
           s == Texts(f, a)
<1>5. Joined(A, s, Join(A, s)) /\ FlattenSeq(s) = Join(A, s)[Len(s)]
  <2> HIDE DEF A, s
  <2>1. s \in Seq(Seq(A))
    BY <1>4 DEF A, s
  <2> QED BY <2>1, JoinIs
<1> QED BY <1>4, <1>5 DEF TextTo

\* One more piece says one more text.
LEMMA TextStep ==
  ASSUME NEW f \in Formats, NEW a \in Args, ProperFor(f, a), NEW i \in 0..(Len(f) - 1)
  PROVE  /\ TextTo(f, a, i) \in Seq(Char \cup {NUL})
         /\ TextTo(f, a, i + 1) = TextTo(f, a, i) \o PieceText(f[i + 1], ArgOf(f, a, i + 1))
<1> DEFINE A == Char \cup {NUL}
           s == Texts(f, a)
           g == Join(A, s)
<1>1. s \in Seq(Seq(A)) /\ Len(s) = Len(f) /\ Joined(A, s, g)
  BY Saying
<1>2. i + 1 \in 1..Len(f)
  <2>1. f \in Seq(Piece)
    BY PrintfAssumption
  <2> QED BY <2>1
<1>3. s[i + 1] = PieceText(f[i + 1], ArgOf(f, a, i + 1))
  BY <1>2, Saying
<1>4. TextTo(f, a, i) = g[i] /\ TextTo(f, a, i + 1) = g[i + 1]
  BY DEF TextTo
<1> HIDE DEF s, g, A
<1>5. i \in 0..(Len(s) - 1)
  BY <1>1
<1>6. g[i] \in Seq(A) /\ g[i + 1] = g[i] \o s[i + 1]
  BY <1>1, <1>5, JoinedStep
<1> QED BY <1>3, <1>4, <1>6 DEF A

\* What the first i pieces say is a text.
LEMMA TextType ==
  ASSUME NEW f \in Formats, NEW a \in Args, ProperFor(f, a), NEW i \in 0..Len(f)
  PROVE  TextTo(f, a, i) \in Seq(Char \cup {NUL})
  BY Saying DEF TextTo, Joined

\* No piece says nothing.
LEMMA TextStart ==
  ASSUME NEW f \in Formats, NEW a \in Args, ProperFor(f, a)
  PROVE  TextTo(f, a, 0) = << >> /\ CharsTo(f, 0) = << >>
<1>1. f \in Seq(Piece)
  BY PrintfAssumption
<1> QED BY <1>1, Saying, Spelling DEF TextTo, CharsTo, Joined

---------------------------------------------------------------------------
(* Where vsnprintf is in its format, its buffer and its arguments.         *)

\* s is the format after its first i pieces and o more characters.
At(f, i, o, s) ==
  /\ Len(s) = Len(Chars(f)) - (Len(CharsTo(f, i)) + o)
  /\ \A j \in 1..Len(s) : s[j] = Chars(f)[Len(CharsTo(f, i)) + o + j]
\* The buffer o holds the text t, cut to the buffer.
Holds(o, t) == \A k \in 0..(N - 1) : k < Len(t) /\ k < N - 1 => o[k] = t[k + 1]
\* v is the arguments after the conversions of the first i pieces.
Left(f, a, i, v) ==
  /\ Len(v) = Len(a) - Convs(f, i)
  /\ \A j \in 1..Len(v) : v[j] = a[Convs(f, i) + j]

\* The lengths of formats.
LEMMA CharsLens ==
  ASSUME NEW f \in Seq(Piece), NEW i \in 0..Len(f)
  PROVE  Len(CharsTo(f, i)) \in Nat /\ Len(Chars(f)) \in Nat
<1> DEFINE s == Spelled(f)
           g == Join(Char, s)
<1>1. s \in Seq(Seq(Char)) /\ Len(s) = Len(f) /\ Joined(Char, s, g)
      /\ Chars(f) = g[Len(f)] /\ CharsTo(f, i) = g[i] /\ Len(f) \in 0..Len(f)
  BY Spelling DEF CharsTo
<1> HIDE DEF s, g
<1>2. g[i] \in Seq(Char) /\ g[Len(f)] \in Seq(Char)
  BY <1>1 DEF Joined
<1> QED BY <1>1, <1>2

\* Reading a character of the format.
LEMMA AtTail ==
  ASSUME NEW f \in Seq(Piece), NEW i \in 0..Len(f), NEW o \in Nat,
         NEW s \in Seq(Char), s # << >>, At(f, i, o, s)
  PROVE  At(f, i, o + 1, Tail(s)) /\ Head(s) = Chars(f)[Len(CharsTo(f, i)) + o + 1]
<1> DEFINE l == Len(CharsTo(f, i))
<1>1. l \in Nat /\ Len(Chars(f)) \in Nat
  BY CharsLens
<1>2. Len(s) \in Nat \ {0} /\ Len(Tail(s)) = Len(s) - 1 /\ Head(s) = s[1]
      /\ \A j \in 1..Len(Tail(s)) : Tail(s)[j] = s[j + 1]
  OBVIOUS
<1>3. Len(s) = Len(Chars(f)) - (l + o) /\ \A j \in 1..Len(s) : s[j] = Chars(f)[l + o + j]
  BY DEF At
<1> HIDE DEF l
<1>4. Len(Tail(s)) = Len(Chars(f)) - (l + (o + 1))
  BY <1>1, <1>2, <1>3
<1>5. ASSUME NEW j \in 1..Len(Tail(s)) PROVE Tail(s)[j] = Chars(f)[l + (o + 1) + j]
  <2>1. j + 1 \in 1..Len(s) /\ l + o + (j + 1) = l + (o + 1) + j
    BY <1>1, <1>2
  <2>2. s[j + 1] = Chars(f)[l + o + (j + 1)]
    BY <1>3, <2>1
  <2> QED BY <1>2, <2>1, <2>2
<1>6. 1 \in 1..Len(s)
  BY <1>2
<1>7. s[1] = Chars(f)[l + o + 1]
  BY <1>3, <1>6
<1>8. At(f, i, o + 1, Tail(s))
  BY <1>4, <1>5 DEF At, l
<1> QED BY <1>2, <1>7, <1>8 DEF l

\* The character that is read is the next of its piece.
LEMMA AtHead ==
  ASSUME NEW f \in Seq(Piece), NEW i \in 0..(Len(f) - 1),
         NEW o \in 0..(Len(PieceChars(f[i + 1])) - 1),
         NEW s \in Seq(Char), At(f, i, o, s)
  PROVE  s # << >> /\ Head(s) = PieceChars(f[i + 1])[o + 1]
<1> DEFINE l == Len(CharsTo(f, i))
           m == Len(PieceChars(f[i + 1]))
<1>1. /\ l \in Nat /\ Len(Chars(f)) \in Nat /\ m \in Nat
      /\ l + m <= Len(Chars(f)) /\ Occurs(PieceChars(f[i + 1]), Chars(f), l)
  <2>1. i \in 0..Len(f)
    OBVIOUS
  <2> QED BY <2>1, CharsLens, SpellingAt
<1>2. o \in Nat /\ o + 1 \in 1..m
  BY <1>1
<1>3. Len(s) = Len(Chars(f)) - (l + o)
  BY DEF At
<1>4. Len(s) > 0
  <2> HIDE DEF l, m
  <2> QED BY <1>1, <1>2, <1>3
<1>5. s # << >>
  BY <1>4
<1>6. Head(s) = Chars(f)[l + o + 1]
  <2>1. i \in 0..Len(f)
    OBVIOUS
  <2> QED BY <1>2, <1>5, <2>1, AtTail
<1>7. Chars(f)[l + (o + 1)] = PieceChars(f[i + 1])[o + 1]
  BY <1>1, <1>2 DEF Occurs
<1>8. l + (o + 1) = l + o + 1
  <2> HIDE DEF l
  <2> QED BY <1>1, <1>2
<1> QED BY <1>5, <1>6, <1>7, <1>8

\* After its last character the piece is over.
LEMMA AtNext ==
  ASSUME NEW f \in Seq(Piece), NEW i \in 0..(Len(f) - 1), NEW s,
         At(f, i, Len(PieceChars(f[i + 1])), s)
  PROVE  At(f, i + 1, 0, s)
<1> DEFINE l == Len(CharsTo(f, i))
           m == Len(PieceChars(f[i + 1]))
           l1 == Len(CharsTo(f, i + 1))
<1>1. l \in Nat /\ m \in Nat /\ l1 = l + m
  BY SpellingAt
<1>2. Len(s) = Len(Chars(f)) - (l + m) /\ \A j \in 1..Len(s) : s[j] = Chars(f)[l + m + j]
  BY DEF At
<1> HIDE DEF l, m, l1
<1>3. l1 + 0 = l + m
  BY <1>1
<1>4. Len(s) = Len(Chars(f)) - (l1 + 0) /\ \A j \in 1..Len(s) : s[j] = Chars(f)[l1 + 0 + j]
  BY <1>2, <1>3
<1> QED BY <1>4 DEF At, l1

\* After the last piece the format is over.
LEMMA AtEnd ==
  ASSUME NEW f \in Seq(Piece), NEW s \in Seq(Char), At(f, Len(f), 0, s)
  PROVE  s = << >>
<1>1. Len(f) \in 0..Len(f)
  OBVIOUS
<1>2. Len(Chars(f)) \in Nat /\ Chars(f) = CharsTo(f, Len(f))
  BY <1>1, CharsLens, Spelling
<1>3. Len(s) = Len(Chars(f)) - (Len(CharsTo(f, Len(f))) + 0)
  BY DEF At
<1>4. Len(s) = 0
  BY <1>2, <1>3
<1> QED BY <1>4

\* Putting s at the end of the text t makes it t and s, cut to the buffer.
LEMMA HoldsNext ==
  ASSUME NEW o, NEW t \in Seq(Char \cup {NUL}), NEW s \in Seq(Char \cup {NUL}), Holds(o, t)
  PROVE  Holds(PutAll(o, Len(t), s), t \o s) /\ Len(t \o s) = Len(t) + Len(s)
<1> DEFINE q == PutAll(o, Len(t), s)
           w == t \o s
<1>1. N \in Nat \ {0}
  BY PrintfAssumption
<1>2. /\ Len(w) = Len(t) + Len(s) /\ Len(t) \in Nat /\ Len(s) \in Nat
      /\ Occurs(t, w, 0) /\ Occurs(s, w, Len(t))
  BY ConcatIs
<1>3. \A k \in 0..(N - 1) :
        q[k] = IF Len(t) <= k /\ k < Len(t) + Len(s) /\ k + 1 < N THEN s[k - Len(t) + 1] ELSE o[k]
  BY DEF PutAll
<1> HIDE DEF q, w
<1>4. ASSUME NEW k \in 0..(N - 1), k < Len(w), k < N - 1 PROVE q[k] = w[k + 1]
  <2>1. CASE k < Len(t)
    <3>1. q[k] = o[k]
      BY <1>1, <1>2, <1>3, <2>1
    <3>2. o[k] = t[k + 1]
      BY <1>4, <2>1 DEF Holds
    <3>3. k + 1 \in 1..Len(t) /\ 0 + (k + 1) = k + 1
      BY <1>1, <1>2, <2>1
    <3>4. w[0 + (k + 1)] = t[k + 1]
      BY <1>2, <3>3 DEF Occurs
    <3> QED BY <3>1, <3>2, <3>3, <3>4
  <2>2. CASE ~(k < Len(t))
    <3> DEFINE j == k - Len(t) + 1
    <3>1. j \in 1..Len(s) /\ Len(t) + j = k + 1
      BY <1>1, <1>2, <1>4, <2>2
    <3>2. q[k] = s[j]
      BY <1>1, <1>2, <1>3, <1>4, <2>2
    <3> HIDE DEF j
    <3>3. w[Len(t) + j] = s[j]
      BY <1>2, <3>1 DEF Occurs
    <3> QED BY <3>1, <3>2, <3>3
  <2> QED BY <2>1, <2>2
<1>5. Holds(q, w)
  BY <1>4 DEF Holds
<1> QED BY <1>2, <1>5 DEF q, w

\* A conversion takes the first of the arguments left.
LEMMA LeftTail ==
  ASSUME NEW f, NEW a \in Seq(Register), NEW i \in Nat, NEW v \in Seq(Register),
         Left(f, a, i, v), v # << >>, f[i + 1].kind = "conv"
  PROVE  Head(v) = a[Convs(f, i + 1)] /\ Left(f, a, i + 1, Tail(v))
<1> DEFINE n == Convs(f, i)
<1>1. n \in Nat /\ Convs(f, i + 1) = n + 1
  BY ConvsStep
<1>2. Len(v) \in Nat \ {0} /\ Len(Tail(v)) = Len(v) - 1 /\ Head(v) = v[1]
      /\ \A j \in 1..Len(Tail(v)) : Tail(v)[j] = v[j + 1]
  OBVIOUS
<1>3. Len(v) = Len(a) - n /\ \A j \in 1..Len(v) : v[j] = a[n + j]
  BY DEF Left
<1>4. Len(a) \in Nat
  OBVIOUS
<1> HIDE DEF n
<1>5. 1 \in 1..Len(v)
  BY <1>2
<1>6. v[1] = a[n + 1]
  BY <1>3, <1>5
<1>7. Len(Tail(v)) = Len(a) - (n + 1)
  BY <1>1, <1>2, <1>3, <1>4
<1>8. ASSUME NEW j \in 1..Len(Tail(v)) PROVE Tail(v)[j] = a[n + 1 + j]
  <2>1. j + 1 \in 1..Len(v) /\ n + (j + 1) = n + 1 + j
    BY <1>1, <1>2
  <2>2. v[j + 1] = a[n + (j + 1)]
    BY <1>3, <2>1
  <2> QED BY <1>2, <2>1, <2>2
<1>9. Left(f, a, i + 1, Tail(v))
  BY <1>1, <1>7, <1>8 DEF Left
<1> QED BY <1>1, <1>2, <1>6, <1>9

---------------------------------------------------------------------------
(* Formatting a message, and copying a line.                               *)

\* What f says, what of it fits into the buffer, that this would pass a second
\* formatting, and what the kernel sends.
TextOf(f, a) == TextTo(f, a, Len(f))
Line(f, a) == Prefix(TextOf(f, a), N - 1)
Clean(f, a) == {"%", NUL} \cap ToSet(Line(f, a)) = {}
ShownOf(f, a) == IF Len(TextOf(f, a)) < N THEN TextOf(f, a) ELSE Line(f, a) \o <<NUL>>

\* The kernel formats the message itself, and no conversion reads what a panic
\* did not pass.
Direct(f) == by = "kernel" \/ (by = "panic" /\ Convs(f, Len(f)) = 0)

\* The characters of piece i + 1 that were read.
Offset == IF ~format THEN 0 ELSE IF longarg THEN 2 ELSE 1

\* A position that is right, or past the end of the buffer as it should be: what
\* is counted there no buffer shows.
Agree(p, n) == p = n \/ (p >= N /\ n >= N)

\* The first i pieces were formatted, and perhaps a part of the next was read.
\* Once the buffer is full the arguments may no longer be the pieces'.
Parsed(f, a, i) ==
  /\ ~format => ~longarg
  /\ format => i < Len(f) /\ f[i + 1].kind = "conv" /\ (longarg => f[i + 1].long)
  /\ At(f, i, Offset, fmt)
  /\ Agree(pos, Len(TextTo(f, a, i))) /\ Holds(out, TextTo(f, a, i))
  /\ by # "panic" /\ pos < N => Left(f, a, i, vl)

\* The kernel copied the first d characters of a line.
Copied(w, d) ==
  /\ ~format /\ pos = d
  /\ Len(fmt) = Len(w) - d /\ \A j \in 1..Len(fmt) : fmt[j] = w[d + j]
  /\ \A k \in 0..(d - 1) : out[k] = w[k + 1]

\* A character of a format is formatted as its piece says.
LEMMA ParsedScan ==
  ASSUME NEW f \in Formats, NEW a \in Args, ProperFor(f, a), NEW i \in 0..Len(f),
         BInv, Parsed(f, a, i), Scan, by = "panic" => Convs(f, Len(f)) = 0
  PROVE  \E m \in 0..Len(f) : Parsed(f, a, m)'
<1>1. /\ f \in Seq(Piece) /\ a \in Seq(Register) /\ Len(f) \in Nat /\ i \in Nat
  BY PrintfAssumption
<1>2. /\ fmt \in Seq(Char) /\ vl \in Seq(Register) /\ format \in BOOLEAN /\ longarg \in BOOLEAN
      /\ pos \in Nat /\ stage # "written" /\ ArgsLeft /\ fmt # << >> /\ fmt' = Tail(fmt) /\ by' = by
  BY DEF BInv, TypeOK, Scan
<1> DEFINE c == Head(fmt)
           o == Offset
           t == TextTo(f, a, i)
<1>3. At(f, i, o, fmt) /\ o \in Nat
  BY <1>2 DEF Parsed, Offset
<1>4. At(f, i, o + 1, fmt')
  <2> HIDE DEF o
  <2> QED BY <1>1, <1>2, <1>3, AtTail
<1>5. Agree(pos, Len(t)) /\ Holds(out, t) /\ (by # "panic" /\ pos < N => Left(f, a, i, vl))
  BY DEF Parsed
<1>6. i < Len(f)
  <2>1. CASE format
    BY <2>1 DEF Parsed
  <2>2. CASE ~format
    <3>1. o = 0
      BY <2>2 DEF Offset
    <3>2. i # Len(f)
      BY <1>1, <1>2, <1>3, <3>1, AtEnd
    <3> QED BY <1>1, <3>2
  <2> QED BY <2>1, <2>2
<1>7. i \in 0..(Len(f) - 1) /\ i + 1 \in 1..Len(f) /\ i + 1 \in 0..Len(f)
  BY <1>1, <1>6
<1> DEFINE p == f[i + 1]
           s == PieceText(p, ArgOf(f, a, i + 1))
<1>8. /\ p \in Piece /\ p.kind \in {"char", "conv"}
      /\ p.kind = "char" => s = <<p.c>>
      /\ p.kind = "conv" => /\ a[Convs(f, i + 1)] \in Register
                            /\ s = Converted(p.c, p.long, a[Convs(f, i + 1)])
      /\ s \in Seq(Char \cup {NUL})
  BY <1>7, PieceSays
<1>9. t \in Seq(Char \cup {NUL}) /\ TextTo(f, a, i + 1) = t \o s
  BY <1>7, TextStep
<1> HIDE DEF s, t, o
<1>10. ASSUME NEW r \in Seq(Char \cup {NUL}), pos < N => r = s,
             pos' = pos + Len(r), out' = PutAll(out, pos, r)
      PROVE  Agree(pos', Len(t \o s)) /\ Holds(out', t \o s)
  <2>1. N \in Nat \ {0} /\ Len(r) \in Nat /\ s \in Seq(Char \cup {NUL}) /\ Len(t) \in Nat
    <3>1. s \in Seq(Char \cup {NUL})
      BY <1>8 DEF s
    <3>2. Len(r) \in Nat
      BY <1>10
    <3>3. Len(t) \in Nat
      BY <1>9
    <3>4. N \in Nat \ {0}
      BY PrintfAssumption
    <3> QED BY <3>1, <3>2, <3>3, <3>4
  <2>2. CASE pos < N
    <3>1. pos = Len(t) /\ r = s
      BY <1>5, <1>10, <2>2, <2>1, <1>2 DEF Agree
    <3>2. Holds(out', t \o s) /\ pos' = Len(t \o s)
      BY <1>5, <1>9, <1>10, <2>1, <3>1, HoldsNext
    <3> QED BY <3>2 DEF Agree
  <2>3. CASE ~(pos < N)
    <3>1. pos >= N /\ Len(t) >= N
      BY <1>2, <1>5, <2>1, <2>3 DEF Agree
    <3>2. Len(t \o s) = Len(t) + Len(s) /\ Len(s) \in Nat /\ Occurs(t, t \o s, 0)
      BY <1>9, <2>1, ConcatIs
    <3>3. pos' >= N /\ Len(t \o s) >= N
      BY <1>2, <1>10, <2>1, <3>1, <3>2
    <3>4. ASSUME NEW k \in 0..(N - 1), k < N - 1 PROVE out'[k] = (t \o s)[k + 1]
      <4>1. out'[k] = out[k]
        BY <1>2, <1>10, <2>1, <3>1, <3>4 DEF PutAll
      <4>2. out[k] = t[k + 1]
        BY <1>5, <2>1, <3>1, <3>4 DEF Holds
      <4>3. k + 1 \in 1..Len(t) /\ 0 + (k + 1) = k + 1
        BY <2>1, <3>1, <3>4
      <4>4. (t \o s)[0 + (k + 1)] = t[k + 1]
        BY <3>2, <4>3 DEF Occurs
      <4> QED BY <4>1, <4>2, <4>3, <4>4
    <3>5. Holds(out', t \o s)
      BY <3>4 DEF Holds
    <3> QED BY <3>3, <3>5 DEF Agree
  <2> QED BY <2>2, <2>3
\* A piece is done.
<1>11. ASSUME ~format', ~longarg', o + 1 = Len(PieceChars(p)),
              NEW r \in Seq(Char \cup {NUL}), pos < N => r = s,
              pos' = pos + Len(r), out' = PutAll(out, pos, r),
              by # "panic" /\ pos' < N => Left(f, a, i + 1, vl')
       PROVE  \E m \in 0..Len(f) : Parsed(f, a, m)'
  <2>1. At(f, i + 1, 0, fmt')
    BY <1>1, <1>4, <1>7, <1>11, AtNext
  <2>2. Offset' = 0
    BY <1>11 DEF Offset
  <2>3. Agree(pos', Len(TextTo(f, a, i + 1))) /\ Holds(out', TextTo(f, a, i + 1))
    BY <1>9, <1>10, <1>11
  <2>4. Parsed(f, a, i + 1)'
    BY <1>2, <1>11, <2>1, <2>2, <2>3 DEF Parsed, Agree, At, Holds, Left
  <2> QED BY <1>7, <2>4
\* A character of a conversion is read.
<1>12. ASSUME format', p.kind = "conv", longarg' => p.long, Offset' = o + 1,
              UNCHANGED <<pos, out, vl>>
       PROVE  \E m \in 0..Len(f) : Parsed(f, a, m)'
  <2>1. At(f, i, Offset', fmt')
    BY <1>4, <1>12
  <2>2. Agree(pos', Len(TextTo(f, a, i))) /\ Holds(out', TextTo(f, a, i))
    BY <1>5, <1>12 DEF t
  <2>3. by' # "panic" /\ pos' < N => Left(f, a, i, vl')
    BY <1>2, <1>5, <1>12
  <2>4. Parsed(f, a, i)'
    BY <1>6, <1>12, <2>1, <2>2, <2>3 DEF Parsed, Agree, At, Holds, Left
  <2> QED BY <2>4
<1>13. /\ p.kind = "char" => PieceChars(p) = <<p.c>> /\ p.c # "%"
       /\ p.kind = "conv" => /\ p.c \in Conversions /\ p.long \in BOOLEAN
                             /\ Len(PieceChars(p)) = IF p.long THEN 3 ELSE 2
                             /\ PieceChars(p)[1] = "%"
                             /\ PieceChars(p)[2] = IF p.long THEN "l" ELSE p.c
                             /\ p.long => PieceChars(p)[3] = p.c
  BY <1>8, PieceCharsAre
<1>14. "l" \notin Conversions
  BY DEF Conversions
<1>15. Scan => \/ ~format /\ c = "%" /\ format' = TRUE /\ UNCHANGED <<longarg, pos, out, vl>>
               \/ ~format /\ c # "%" /\ Emit(<<c>>) /\ UNCHANGED <<format, longarg, vl>>
               \/ format /\ c = "l" /\ longarg' = TRUE /\ UNCHANGED <<format, pos, out, vl>>
               \/ /\ format /\ c \in Conversions
                  /\ Emit(Converted(c, longarg, Head(vl)))
                  /\ vl' = IF c = "c" /\ pos + 1 >= N THEN vl ELSE Tail(vl)
                  /\ longarg' = AfterConversion /\ format' = FALSE
               \/ /\ format /\ c \notin Conversions \cup {"l"}
                  /\ UNCHANGED <<format, longarg, pos, out, vl>>
  BY DEF Scan
<1>16. ASSUME o \in 0..(Len(PieceChars(p)) - 1) PROVE c = PieceChars(p)[o + 1]
  BY <1>1, <1>2, <1>3, <1>7, <1>16, AtHead
<1> HIDE DEF p, c
<1>17. CASE ~format
  <2>1. o = 0 /\ ~longarg
    BY <1>17 DEF o, Offset, Parsed
  <2>2. CASE p.kind = "char"
    <3>1. Len(PieceChars(p)) = 1 /\ PieceChars(p)[1] = p.c
      BY <1>13, <2>2
    <3>2. c = p.c /\ c # "%"
      BY <1>13, <1>16, <2>1, <2>2, <3>1
    <3>3. Emit(<<c>>) /\ UNCHANGED <<format, longarg, vl>>
      BY <1>15, <1>17, <3>2
    <3>4. s = <<c>>
      BY <1>8, <2>2, <3>2
    <3>5. pos' = pos + Len(s) /\ out' = PutAll(out, pos, s) /\ Len(s) = 1
      BY <3>3, <3>4 DEF Emit
    <3>6. Convs(f, i + 1) = Convs(f, i)
      BY <1>1, <2>2, ConvsStep DEF p
    <3>7. by # "panic" /\ pos' < N => Left(f, a, i + 1, vl')
      <4>1. pos' < N => pos < N
        BY <1>2, <3>5, PrintfAssumption
      <4> QED BY <1>5, <3>3, <3>6, <4>1 DEF Left
    <3>8. ~format' /\ ~longarg' /\ o + 1 = Len(PieceChars(p))
      BY <1>17, <2>1, <3>1, <3>3
    <3> QED BY <1>8, <1>11, <3>5, <3>7, <3>8
  <2>3. CASE p.kind = "conv"
    <3>1. o \in 0..(Len(PieceChars(p)) - 1)
      BY <1>13, <2>1, <2>3
    <3>2. c = "%"
      BY <1>13, <1>16, <2>1, <2>3, <3>1
    <3>3. format' = TRUE /\ UNCHANGED <<longarg, pos, out, vl>>
      BY <1>15, <1>17, <3>2
    <3>4. Offset' = o + 1
      BY <2>1, <3>3 DEF Offset
    <3>5. format' /\ (longarg' => p.long)
      BY <2>1, <3>3
    <3> QED BY <1>12, <2>3, <3>3, <3>4, <3>5
  <2> QED BY <1>8, <2>2, <2>3 DEF p
<1>18. CASE format
  <2>1. p.kind = "conv" /\ (longarg => p.long)
    BY <1>18 DEF Parsed, p
  <2>2. o = IF longarg THEN 2 ELSE 1
    BY <1>18 DEF o, Offset
  <2>3. o \in 0..(Len(PieceChars(p)) - 1)
    BY <1>2, <1>13, <2>1, <2>2
  <2>4. c = PieceChars(p)[o + 1]
    BY <1>16, <2>3
  <2>5. CASE ~longarg /\ p.long
    <3>1. c = "l"
      BY <1>13, <2>1, <2>2, <2>4, <2>5
    <3>2. longarg' = TRUE /\ UNCHANGED <<format, pos, out, vl>>
      BY <1>14, <1>15, <1>18, <3>1
    <3>3. Offset' = o + 1
      BY <1>18, <2>2, <2>5, <3>2 DEF Offset
    <3>4. format' /\ (longarg' => p.long)
      BY <1>18, <2>5, <3>2
    <3> QED BY <1>12, <2>1, <3>2, <3>3, <3>4
  <2>6. CASE ~(~longarg /\ p.long)
    <3>1. longarg <=> p.long
      BY <2>1, <2>6
    <3>2. c = p.c /\ o + 1 = Len(PieceChars(p))
      BY <1>13, <2>1, <2>2, <2>4, <3>1
    <3>3. c \in Conversions /\ c # "l"
      BY <1>13, <1>14, <2>1, <3>2
    <3> DEFINE r == Converted(c, longarg, Head(vl))
    <3>4. /\ Emit(r) /\ vl' = (IF c = "c" /\ pos + 1 >= N THEN vl ELSE Tail(vl))
          /\ longarg' = FALSE /\ format' = FALSE
      BY <1>15, <1>18, <3>3 DEF AfterConversion
    <3>5. by # "panic"
      <4> SUFFICES ASSUME by = "panic" PROVE FALSE
        OBVIOUS
      <4>1. Convs(f, Len(f)) = 0
        OBVIOUS
      <4> QED BY <1>1, <1>7, <2>1, <4>1, ConvsNone DEF p
    <3>6. vl # << >>
      <4>1. Len(fmt) + 1 <= 2 * Len(vl) /\ Len(fmt) \in Nat
        BY <1>2, <1>18 DEF ArgsLeft
      <4> QED BY <4>1
    <3>7. pos < N => Head(vl) = a[Convs(f, i + 1)] /\ Left(f, a, i + 1, Tail(vl))
      BY <1>1, <1>2, <1>5, <2>1, <3>5, <3>6, LeftTail DEF p
    <3>8. longarg = p.long
      BY <1>2, <1>13, <2>1, <3>1
    <3>9. pos < N => r = s
      BY <1>8, <2>1, <3>2, <3>7, <3>8 DEF p
    <3>10. r \in Seq(Char \cup {NUL}) /\ (c = "c" => r = <<Head(vl).char>>)
      <4>1. Head(vl) \in Register
        BY <1>2, <3>6
      <4>2. r \in Seq(Char \cup {NUL})
        BY <1>2, <3>3, <4>1, ConvertedType
      <4>3. c = "c" => r = <<Head(vl).char>>
        BY DEF Converted
      <4> QED BY <4>2, <4>3
    <3> HIDE DEF r
    <3>11. pos' = pos + Len(r) /\ out' = PutAll(out, pos, r)
      BY <3>4 DEF Emit
    <3>12. pos' < N => pos < N /\ vl' = Tail(vl)
      <4>1. Len(r) \in Nat /\ (c = "c" => Len(r) = 1)
        BY <3>10
      <4>2. N \in Nat /\ pos \in Nat
        BY <1>2, PrintfAssumption
      <4>3. c = "c" => pos' = pos + 1
        BY <3>11, <4>1
      <4>4. ASSUME pos' < N PROVE pos < N /\ (c = "c" => ~(pos + 1 >= N))
        BY <3>11, <4>1, <4>2, <4>3, <4>4
      <4> QED BY <3>4, <4>4
    <3>13. by # "panic" /\ pos' < N => Left(f, a, i + 1, vl')
      BY <3>7, <3>12
    <3> QED BY <1>11, <3>2, <3>4, <3>9, <3>10, <3>11, <3>13
  <2> QED BY <2>5, <2>6
<1> QED BY <1>2, <1>17, <1>18

\* At the end of the format all pieces were formatted.
LEMMA ParsedEnd ==
  ASSUME NEW f \in Formats, NEW a \in Args, ProperFor(f, a), NEW i \in 0..Len(f),
         BInv, Parsed(f, a, i), fmt = << >>
  PROVE  Agree(pos, Len(TextOf(f, a))) /\ Holds(out, TextOf(f, a))
<1>1. f \in Seq(Piece) /\ Len(f) \in Nat /\ i \in Nat /\ fmt \in Seq(Char)
      /\ format \in BOOLEAN /\ longarg \in BOOLEAN
  BY PrintfAssumption DEF BInv, TypeOK
<1>2. i = Len(f)
  <2> SUFFICES ASSUME i < Len(f) PROVE FALSE
    BY <1>1
  <2>1. i \in 0..(Len(f) - 1) /\ i + 1 \in 1..Len(f)
    BY <1>1
  <2> DEFINE p == f[i + 1]
             o == Offset
  <2>2. p.kind \in {"char", "conv"} /\ p \in Piece
    BY <2>1, PieceSays
  <2>3. /\ p.kind = "char" => PieceChars(p) = <<p.c>>
        /\ p.kind = "conv" => /\ p.long \in BOOLEAN
                              /\ Len(PieceChars(p)) = IF p.long THEN 3 ELSE 2
    BY <2>2, PieceCharsAre
  <2>4. At(f, i, o, fmt) /\ (format => p.kind = "conv" /\ (longarg => p.long))
    BY DEF Parsed
  <2>5. o = IF ~format THEN 0 ELSE IF longarg THEN 2 ELSE 1
    BY DEF Offset
  <2> HIDE DEF o
  <2>6. o \in 0..(Len(PieceChars(p)) - 1)
    <3>1. CASE p.kind = "char"
      <4>1. Len(PieceChars(p)) = 1 /\ ~format
        BY <2>3, <2>4, <3>1
      <4> QED BY <2>5, <4>1
    <3>2. CASE p.kind = "conv"
      BY <1>1, <2>3, <2>4, <2>5, <3>2
    <3> QED BY <2>2, <3>1, <3>2
  <2>7. fmt # << >>
    BY <1>1, <2>1, <2>4, <2>6, AtHead
  <2> QED BY <2>7
<1> QED BY <1>2 DEF Parsed, TextOf

\* A line is the text, cut to the buffer.
LEMMA LineIs ==
  ASSUME NEW f \in Formats, NEW a \in Args, ProperFor(f, a)
  PROVE  /\ TextOf(f, a) \in Seq(Char \cup {NUL}) /\ Len(TextOf(f, a)) \in Nat
         /\ Line(f, a) \in Seq(Char \cup {NUL})
         /\ Len(Line(f, a)) = IF N - 1 < Len(TextOf(f, a)) THEN N - 1 ELSE Len(TextOf(f, a))
         /\ Len(Line(f, a)) \in 0..(N - 1)
         /\ \A k \in 1..Len(Line(f, a)) : Line(f, a)[k] = TextOf(f, a)[k]
<1> DEFINE t == TextOf(f, a)
           n == IF N - 1 < Len(t) THEN N - 1 ELSE Len(t)
<1>1. N \in Nat \ {0}
  BY PrintfAssumption
<1>2. t \in Seq(Char \cup {NUL}) /\ Len(t) \in Nat
  <2>1. f \in Seq(Piece)
    BY PrintfAssumption
  <2>2. Len(f) \in 0..Len(f)
    BY <2>1
  <2> QED BY <2>2, TextType DEF TextOf
<1>3. Line(f, a) = SubSeq(t, 1, n)
  BY DEF Line, Prefix
<1> HIDE DEF t
<1>4. n \in Nat /\ n <= Len(t) /\ n <= N - 1
  BY <1>1, <1>2
<1> HIDE DEF n
<1>5. /\ SubSeq(t, 1, n) \in Seq(Char \cup {NUL}) /\ Len(SubSeq(t, 1, n)) = n
      /\ \A k \in 1..n : SubSeq(t, 1, n)[k] = t[k]
  BY <1>2, <1>4
<1> QED BY <1>1, <1>2, <1>3, <1>4, <1>5 DEF t, n

\* The text that the application passes to the kernel is its line, if the line
\* has no NUL.
LEMMA LinePassed ==
  ASSUME NEW f \in Formats, NEW a \in Args, ProperFor(f, a), NUL \notin ToSet(Line(f, a)),
         NEW o \in Buffer, NEW p \in Nat, WrittenTo(o, p),
         Agree(p, Len(TextOf(f, a))), Holds(o, TextOf(f, a))
  PROVE  CString(Terminated(o, p)) = Line(f, a)
<1> DEFINE t == TextOf(f, a)
           w == Line(f, a)
           z == Terminated(o, p)
           e0 == EndOf(p)
<1>1. N \in Nat \ {0}
  BY PrintfAssumption
<1>2. /\ Len(t) \in Nat /\ w \in Seq(Char \cup {NUL}) /\ Len(w) = IF N - 1 < Len(t) THEN N - 1 ELSE Len(t)
      /\ \A k \in 1..Len(w) : w[k] = t[k]
  BY LineIs
<1>3. Len(w) = e0
  BY <1>1, <1>2 DEF EndOf, Agree
<1>4. e0 \in 0..(N - 1) /\ z[e0] = NUL /\ \A k \in 0..(e0 - 1) : k \in 0..(N - 1) /\ z[k] = o[k]
  BY TerminatedIs
<1>5. \A k \in 1..Len(w) : w[k] # NUL
  <2> SUFFICES ASSUME NEW k \in 1..Len(w), w[k] = NUL PROVE FALSE
    OBVIOUS
  <2> HIDE DEF w
  <2>1. w[k] \in ToSet(w)
    BY <1>2 DEF ToSet
  <2> QED BY <2>1 DEF w
<1>6. Holds(o, t)
  OBVIOUS
<1> HIDE DEF t, w, z, e0
<1>7. \A k \in 0..(e0 - 1) : k + 1 \in 1..Len(w) /\ z[k] = w[k + 1]
  <2> TAKE k \in 0..(e0 - 1)
  <2>1. k + 1 \in 1..Len(w) /\ k \in 0..(N - 1) /\ k < Len(t) /\ k < N - 1 /\ z[k] = o[k]
    BY <1>1, <1>2, <1>3, <1>4
  <2>2. o[k] = t[k + 1]
    BY <1>6, <2>1 DEF Holds
  <2> QED BY <1>2, <2>1, <2>2
<1>8. PICK e \in 0..e0 : /\ CString(z) = [k \in 1..e |-> z[k - 1]] /\ z[e] = NUL
                         /\ \A j \in 0..(e - 1) : z[j] # NUL
  BY <1>4, CStringIs
<1>9. e = e0
  <2> SUFFICES ASSUME e # e0 PROVE FALSE
    OBVIOUS
  <2>1. e \in 0..(e0 - 1)
    BY <1>1, <1>4
  <2> QED BY <1>5, <1>7, <1>8, <2>1
<1>10. ASSUME NEW k \in 1..Len(w) PROVE z[k - 1] = w[k]
  <2>1. k - 1 \in 0..(e0 - 1) /\ k - 1 + 1 = k
    BY <1>1, <1>3, <1>4
  <2> QED BY <1>7, <2>1
<1>11. w = [k \in 1..Len(w) |-> w[k]]
  BY <1>2
<1>12. CString(z) = w
  BY <1>3, <1>8, <1>9, <1>10, <1>11
<1> QED BY <1>12 DEF w, z

\* A character of a line without percent sign is copied.
LEMMA CopiedScan ==
  ASSUME NEW w \in Seq(Char \cup {NUL}), Len(w) \in 0..(N - 1), "%" \notin ToSet(w),
         NEW d \in 0..Len(w), BInv, Copied(w, d), Scan
  PROVE  \E e \in 0..Len(w) : Copied(w, e)'
<1>1. N \in Nat \ {0} /\ fmt \in Seq(Char) /\ fmt # << >> /\ fmt' = Tail(fmt)
  BY PrintfAssumption DEF BInv, TypeOK, Scan
<1>2. /\ ~format /\ pos = d /\ Len(fmt) = Len(w) - d
      /\ \A j \in 1..Len(fmt) : fmt[j] = w[d + j]
      /\ \A k \in 0..(d - 1) : out[k] = w[k + 1]
  BY DEF Copied
<1>3. Len(fmt) \in Nat \ {0} /\ Len(fmt') = Len(fmt) - 1 /\ Head(fmt) = fmt[1]
      /\ \A j \in 1..Len(fmt') : fmt'[j] = fmt[j + 1]
  BY <1>1
<1> DEFINE c == Head(fmt)
<1>4. d \in Nat /\ d < Len(w) /\ Len(w) <= N - 1 /\ d + 1 \in 1..Len(w) /\ 1 \in 1..Len(fmt)
  BY <1>1, <1>2, <1>3
<1>5. c = w[d + 1]
  BY <1>2, <1>3, <1>4
<1>6. c # "%"
  <2>1. w[d + 1] \in ToSet(w)
    BY <1>4 DEF ToSet
  <2> QED BY <1>5, <2>1
<1>7. Emit(<<c>>) /\ UNCHANGED <<format, longarg, vl>>
  BY <1>2, <1>6 DEF Scan
<1> HIDE DEF c
<1>8. Len(<<c>>) = 1 /\ <<c>>[1] = c
  OBVIOUS
<1>9. pos' = d + 1 /\ out' = PutAll(out, d, <<c>>)
  BY <1>2, <1>7, <1>8 DEF Emit
<1> DEFINE q == PutAll(out, d, <<c>>)
<1>10. \A k \in 0..(N - 1) : q[k] = IF d <= k /\ k < d + Len(<<c>>) /\ k + 1 < N
                                   THEN <<c>>[k - d + 1] ELSE out[k]
  BY DEF PutAll
<1> HIDE DEF q
<1>11. ASSUME NEW k \in 0..(d + 1 - 1) PROVE q[k] = w[k + 1]
  <2>1. k \in 0..(N - 1) /\ k + 1 < N
    BY <1>1, <1>4
  <2>2. CASE k = d
    <3>1. q[k] = <<c>>[k - d + 1] /\ k - d + 1 = 1
      BY <1>4, <1>8, <1>10, <2>1, <2>2
    <3> QED BY <1>5, <1>8, <2>2, <3>1
  <2>3. CASE k # d
    <3>1. k \in 0..(d - 1) /\ ~(d <= k)
      BY <1>4, <2>3
    <3>2. q[k] = out[k]
      BY <1>10, <2>1, <3>1
    <3> QED BY <1>2, <3>1, <3>2
  <2> QED BY <2>2, <2>3
<1>12. Len(fmt') = Len(w) - (d + 1)
  BY <1>2, <1>3, <1>4
<1>13. ASSUME NEW j \in 1..Len(fmt') PROVE fmt'[j] = w[d + 1 + j]
  <2>1. j + 1 \in 1..Len(fmt) /\ d + (j + 1) = d + 1 + j
    BY <1>3, <1>4
  <2>2. fmt[j + 1] = w[d + (j + 1)]
    BY <1>2, <2>1
  <2> QED BY <1>3, <2>1, <2>2
<1>14. Copied(w, d + 1)'
  <2>1. ~format' /\ out' = q
    BY <1>2, <1>7, <1>9 DEF q
  <2> QED BY <1>9, <1>11, <1>12, <1>13, <2>1 DEF Copied
<1>15. d + 1 \in 0..Len(w)
  BY <1>4
<1> QED BY <1>14, <1>15

\* What vprintk gives the host of a text that the buffer holds.
LEMMA TextWritten ==
  ASSUME NEW f \in Formats, NEW a \in Args, ProperFor(f, a),
         NEW o \in Buffer, NEW p \in Nat, WrittenTo(o, p),
         Agree(p, Len(TextOf(f, a))), Holds(o, TextOf(f, a))
  PROVE  [k \in 1..Length(p) |-> Terminated(o, p)[k - 1]] = ShownOf(f, a)
<1> DEFINE t == TextOf(f, a)
           w == Line(f, a)
           z == Terminated(o, p)
           h == [k \in 1..Length(p) |-> z[k - 1]]
<1>1. N \in Nat \ {0}
  BY PrintfAssumption
<1>2. /\ t \in Seq(Char \cup {NUL}) /\ Len(t) \in Nat /\ w \in Seq(Char \cup {NUL})
      /\ Len(w) = IF N - 1 < Len(t) THEN N - 1 ELSE Len(t)
      /\ \A k \in 1..Len(w) : w[k] = t[k]
  BY LineIs
<1>3. EndOf(p) \in 0..(N - 1) /\ z[EndOf(p)] = NUL
      /\ \A k \in 0..(EndOf(p) - 1) : k \in 0..(N - 1) /\ z[k] = o[k]
  BY TerminatedIs
<1>4. Agree(p, Len(t)) /\ Holds(o, t)
  OBVIOUS
<1>5. ShownOf(f, a) = IF Len(t) < N THEN t ELSE w \o <<NUL>>
  BY DEF ShownOf
<1> HIDE DEF t, w, z
<1>6. \A k \in 1..EndOf(p) : z[k - 1] = t[k]
  <2> TAKE k \in 1..EndOf(p)
  <2>1. k - 1 \in 0..(EndOf(p) - 1) /\ k - 1 + 1 = k
    BY <1>1, <1>3
  <2>2. k - 1 < Len(t) /\ k - 1 < N - 1
    BY <1>1, <1>2, <1>4 DEF EndOf, Agree
  <2>3. k - 1 \in 0..(N - 1) /\ z[k - 1] = o[k - 1]
    BY <1>3, <2>1
  <2>4. o[k - 1] = t[k - 1 + 1]
    BY <1>4, <2>2, <2>3 DEF Holds
  <2> QED BY <2>1, <2>3, <2>4
<1>7. CASE Len(t) < N
  <2>1. EndOf(p) = Len(t) /\ Length(p) = Len(t)
    BY <1>1, <1>2, <1>4, <1>7 DEF EndOf, Length, Agree
  <2>2. h = [k \in 1..Len(t) |-> t[k]]
    BY <1>6, <2>1
  <2>3. t = [k \in 1..Len(t) |-> t[k]]
    BY <1>2
  <2> QED BY <1>5, <1>7, <2>2, <2>3 DEF z
<1>8. CASE ~(Len(t) < N)
  <2>1. EndOf(p) = N - 1 /\ Length(p) = N /\ Len(w) = N - 1
    BY <1>1, <1>2, <1>4, <1>8 DEF EndOf, Length, Agree
  <2> DEFINE x == w \o <<NUL>>
  <2>2. x \in Seq(Char \cup {NUL}) /\ IsSnoc(x, w, NUL)
    BY <1>2, SnocIs
  <2> HIDE DEF x
  <2>3. Len(x) = N /\ x[N] = NUL /\ \A k \in 1..(N - 1) : x[k] = w[k]
    <3>1. N - 1 + 1 = N
      BY <1>1
    <3> QED BY <1>1, <2>1, <2>2, <3>1 DEF IsSnoc
  <2>4. ASSUME NEW k \in 1..N PROVE z[k - 1] = x[k]
    <3>1. CASE k = N
      BY <1>3, <2>1, <2>3, <3>1
    <3>2. CASE k # N
      <4>1. k \in 1..(N - 1)
        BY <1>1, <3>2
      <4>2. z[k - 1] = t[k]
        BY <1>6, <2>1, <4>1
      <4>3. x[k] = w[k] /\ w[k] = t[k]
        BY <1>2, <2>1, <2>3, <4>1
      <4> QED BY <4>2, <4>3
    <3> QED BY <3>1, <3>2
  <2>5. x = [k \in 1..N |-> x[k]]
    BY <2>2, <2>3
  <2>6. h = x
    BY <2>1, <2>4, <2>5
  <2> QED BY <1>5, <1>8, <2>6 DEF x, z
<1> QED BY <1>7, <1>8

\* The host gets the line that was copied.
LEMMA LineWritten ==
  ASSUME NEW w \in Seq(Char \cup {NUL}), Len(w) \in 0..(N - 1), NEW d \in 0..Len(w),
         BInv, stage # "written", Copied(w, d), fmt = << >>
  PROVE  [k \in 1..Length(pos) |-> Terminated(out, pos)[k - 1]] = w
<1>1. N \in Nat \ {0} /\ out \in Buffer /\ pos \in Nat /\ WrittenTo(out, pos)
  BY PrintfAssumption DEF BInv, TypeOK
<1>2. /\ pos = d /\ Len(fmt) = Len(w) - d /\ \A k \in 0..(d - 1) : out[k] = w[k + 1]
  BY DEF Copied
<1>3. Len(fmt) = 0 /\ Len(w) \in Nat /\ Len(w) < N
  BY <1>1
<1>4. d = Len(w)
  BY <1>2, <1>3
<1>5. EndOf(pos) = Len(w) /\ Length(pos) = Len(w)
  BY <1>2, <1>3, <1>4 DEF EndOf, Length
<1>6. \A k \in 0..(EndOf(pos) - 1) : Terminated(out, pos)[k] = out[k]
  BY <1>1, TerminatedIs
<1>7. ASSUME NEW k \in 1..Len(w) PROVE Terminated(out, pos)[k - 1] = w[k]
  <2>1. k - 1 \in 0..(Len(w) - 1) /\ k - 1 + 1 = k
    BY <1>3
  <2>2. Terminated(out, pos)[k - 1] = out[k - 1]
    BY <1>5, <1>6, <2>1
  <2>3. out[k - 1] = w[k - 1 + 1]
    BY <1>2, <1>4, <2>1
  <2> QED BY <2>1, <2>2, <2>3
<1>8. w = [k \in 1..Len(w) |-> w[k]]
  OBVIOUS
<1> QED BY <1>5, <1>7, <1>8

---------------------------------------------------------------------------
(* The message reaches the host.                                           *)

\* What holds of the message f with the arguments a on its way to the host.
Says(f, a) ==
  /\ by \in {"app", "kernel", "panic"} /\ (stage = "user" => by = "app")
  /\ ProperFor(f, a) =>
       /\ stage = "user" \/ (stage = "kernel" /\ Direct(f)) => \E i \in 0..Len(f) : Parsed(f, a, i)
       /\ stage = "kernel" /\ by = "app" /\ Clean(f, a) =>
            \E d \in 0..Len(Line(f, a)) : Copied(Line(f, a), d)
       /\ stage = "written" /\ Direct(f) => host = ShownOf(f, a)
       /\ stage = "written" /\ by = "app" /\ Clean(f, a) => host = Line(f, a)

\* The invariant of the message: first is the format and its arguments.
MInv ==
  /\ BInv
  /\ \E f \in Formats, a \in Args : first = [pieces |-> f, vl |-> a] /\ Says(f, a)

\* A call has formatted nothing.
LEMMA MInvInit == Init => MInv
<1> SUFFICES ASSUME Init PROVE MInv
  OBVIOUS
<1>1. BInv
  BY BInvInit
<1>2. PICK f \in Formats, a \in Args : fmt = Chars(f) /\ first = [pieces |-> f, vl |-> a]
  BY DEF Init
<1>3. /\ by \in {"app", "kernel", "panic"} /\ stage = IF by = "app" THEN "user" ELSE "kernel"
      /\ format = FALSE /\ longarg = FALSE /\ pos = 0 /\ (by # "panic" => vl = first.vl)
  BY DEF Init
<1>4. f \in Seq(Piece) /\ a \in Seq(Register) /\ 0 \in 0..Len(f)
  BY PrintfAssumption
<1>5. ASSUME ProperFor(f, a) PROVE Parsed(f, a, 0)
  <2>1. TextTo(f, a, 0) = << >> /\ CharsTo(f, 0) = << >>
    BY <1>5, TextStart
  <2>2. Offset = 0
    BY <1>3 DEF Offset
  <2>3. fmt \in Seq(Char) /\ Len(fmt) \in Nat
    BY <1>1 DEF BInv, TypeOK
  <2>4. At(f, 0, 0, fmt)
    <3>1. Len(CharsTo(f, 0)) = 0
      BY <2>1
    <3>2. Len(fmt) = Len(Chars(f)) - (0 + 0) /\ \A j \in 1..Len(fmt) : 0 + 0 + j = j
      BY <1>2, <2>3
    <3> QED BY <1>2, <3>1, <3>2 DEF At
  <2>5. Holds(out, << >>)
    BY DEF Holds
  <2>6. by # "panic" => Left(f, a, 0, vl)
    <3> SUFFICES ASSUME by # "panic" PROVE Left(f, a, 0, vl)
      OBVIOUS
    <3>1. vl = a
      BY <1>2, <1>3
    <3>2. Len(a) = Len(a) - 0 /\ \A j \in 1..Len(a) : 0 + j = j
      BY <1>4
    <3> QED BY <3>1, <3>2, ConvsZero DEF Left
  <2>7. Len(<< >>) = 0
    OBVIOUS
  <2> QED BY <1>3, <2>1, <2>2, <2>4, <2>5, <2>6, <2>7 DEF Parsed, Agree
<1>6. Says(f, a)
  <2>1. stage # "written" /\ (stage = "user" <=> by = "app")
    BY <1>3
  <2> QED BY <1>3, <1>4, <1>5, <2>1 DEF Says
<1> QED BY <1>1, <1>2, <1>6 DEF MInv

\* A character of the format.
LEMMA MInvScan == MInv /\ Scan => MInv'
<1> SUFFICES ASSUME MInv, Scan PROVE MInv'
  OBVIOUS
<1>1. BInv /\ BInv'
  BY BInvScan DEF MInv
<1>2. PICK f \in Formats, a \in Args : first = [pieces |-> f, vl |-> a] /\ Says(f, a)
  BY DEF MInv
<1>3. stage' = stage /\ by' = by /\ first' = first /\ host' = host /\ stage # "written"
  BY DEF Scan
<1>4. ASSUME ProperFor(f, a), stage = "user" \/ (stage = "kernel" /\ Direct(f))
      PROVE  \E i \in 0..Len(f) : Parsed(f, a, i)'
  <2>1. PICK i \in 0..Len(f) : Parsed(f, a, i)
    BY <1>2, <1>4 DEF Says
  <2>2. by = "panic" => Convs(f, Len(f)) = 0
    BY <1>2, <1>4 DEF Says, Direct
  <2> QED BY <1>1, <1>4, <2>1, <2>2, ParsedScan
<1>5. ASSUME ProperFor(f, a), stage = "kernel", by = "app", Clean(f, a)
      PROVE  \E d \in 0..Len(Line(f, a)) : Copied(Line(f, a), d)'
  <2> DEFINE w == Line(f, a)
  <2>1. PICK d \in 0..Len(w) : Copied(w, d)
    BY <1>2, <1>5 DEF Says
  <2>2. w \in Seq(Char \cup {NUL}) /\ Len(w) \in 0..(N - 1)
    BY <1>5, LineIs
  <2>3. "%" \notin ToSet(w)
    BY <1>5 DEF Clean
  <2> HIDE DEF w
  <2>4. \E e \in 0..Len(w) : Copied(w, e)'
    BY <1>1, <2>1, <2>2, <2>3, CopiedScan
  <2> QED BY <2>4 DEF w
<1>6. Direct(f)' <=> Direct(f)
  BY <1>3 DEF Direct
<1>7. by \in {"app", "kernel", "panic"} /\ (stage = "user" => by = "app")
  BY <1>2 DEF Says
<1>8. Says(f, a)'
  BY <1>3, <1>4, <1>5, <1>6, <1>7 DEF Says
<1> QED BY <1>1, <1>2, <1>3, <1>8 DEF MInv

\* The line goes to the kernel as a format.
LEMMA MInvSysUserPrint == MInv /\ SysUserPrint => MInv'
<1> SUFFICES ASSUME MInv, SysUserPrint PROVE MInv'
  OBVIOUS
<1>1. BInv /\ BInv'
  BY BInvSysUserPrint DEF MInv
<1>2. PICK f \in Formats, a \in Args : first = [pieces |-> f, vl |-> a] /\ Says(f, a)
  BY DEF MInv
<1>3. stage = "user" /\ stage' = "kernel" /\ by' = by /\ first' = first /\ fmt = << >>
  BY DEF SysUserPrint
<1>4. by = "app"
  BY <1>2, <1>3 DEF Says
<1>5. /\ fmt' = CString(Terminated(out, pos)) /\ out' = Empty
      /\ format' = FALSE /\ longarg' = FALSE /\ pos' = 0
  BY DEF SysUserPrint, Begin
<1>6. out \in Buffer /\ pos \in Nat /\ WrittenTo(out, pos)
  BY <1>1, <1>3 DEF BInv, TypeOK
<1> DEFINE w == Line(f, a)
<1>7. ASSUME ProperFor(f, a), Clean(f, a)
      PROVE  \E d \in 0..Len(w) : Copied(w, d)'
  <2>1. PICK i \in 0..Len(f) : Parsed(f, a, i)
    BY <1>2, <1>3, <1>7 DEF Says
  <2>2. Agree(pos, Len(TextOf(f, a))) /\ Holds(out, TextOf(f, a))
    BY <1>1, <1>3, <1>7, <2>1, ParsedEnd
  <2>3. NUL \notin ToSet(w)
    BY <1>7 DEF Clean
  <2>4. fmt' = w
    BY <1>5, <1>6, <1>7, <2>2, <2>3, LinePassed
  <2>5. w \in Seq(Char \cup {NUL}) /\ Len(w) \in Nat
    BY <1>7, LineIs
  <2> HIDE DEF w
  <2>6. /\ Len(w) = Len(w) - 0 /\ \A j \in 1..Len(w) : 0 + j = j
        /\ 0..(0 - 1) = {}
    BY <2>5
  <2>7. Copied(w, 0)'
    BY <1>5, <2>4, <2>6 DEF Copied
  <2>8. 0 \in 0..Len(w)
    BY <2>5
  <2> QED BY <2>7, <2>8
<1>8. ~Direct(f)'
  BY <1>3, <1>4 DEF Direct
<1>9. Says(f, a)'
  BY <1>3, <1>4, <1>7, <1>8 DEF Says
<1> QED BY <1>1, <1>2, <1>3, <1>9 DEF MInv

\* The kernel writes the line to the host.
LEMMA MInvSpikeFileWrite == MInv /\ SpikeFileWrite => MInv'
<1> SUFFICES ASSUME MInv, SpikeFileWrite PROVE MInv'
  OBVIOUS
<1>1. BInv /\ BInv'
  BY BInvSpikeFileWrite DEF MInv
<1>2. PICK f \in Formats, a \in Args : first = [pieces |-> f, vl |-> a] /\ Says(f, a)
  BY DEF MInv
<1>3. /\ stage = "kernel" /\ stage' = "written" /\ by' = by /\ first' = first /\ fmt = << >>
      /\ host' = [k \in 1..Length(pos) |-> Terminated(out, pos)[k - 1]]
  BY DEF SpikeFileWrite
<1>4. out \in Buffer /\ pos \in Nat /\ WrittenTo(out, pos)
  BY <1>1, <1>3 DEF BInv, TypeOK
<1>5. ASSUME ProperFor(f, a), Direct(f) PROVE host' = ShownOf(f, a)
  <2>1. PICK i \in 0..Len(f) : Parsed(f, a, i)
    BY <1>2, <1>3, <1>5 DEF Says
  <2>2. Agree(pos, Len(TextOf(f, a))) /\ Holds(out, TextOf(f, a))
    BY <1>1, <1>3, <1>5, <2>1, ParsedEnd
  <2> QED BY <1>3, <1>4, <1>5, <2>2, TextWritten
<1>6. ASSUME ProperFor(f, a), by = "app", Clean(f, a) PROVE host' = Line(f, a)
  <2> DEFINE w == Line(f, a)
  <2>1. PICK d \in 0..Len(w) : Copied(w, d)
    BY <1>2, <1>3, <1>6 DEF Says
  <2>2. w \in Seq(Char \cup {NUL}) /\ Len(w) \in 0..(N - 1)
    BY <1>6, LineIs
  <2> HIDE DEF w
  <2>3. host' = w
    BY <1>1, <1>3, <2>1, <2>2, LineWritten
  <2> QED BY <2>3 DEF w
<1>7. Direct(f)' <=> Direct(f)
  BY <1>3 DEF Direct
<1>8. by \in {"app", "kernel", "panic"}
  BY <1>2 DEF Says
<1>9. Says(f, a)'
  BY <1>3, <1>5, <1>6, <1>7, <1>8 DEF Says
<1> QED BY <1>1, <1>2, <1>3, <1>9 DEF MInv

\* Nothing changes.
LEMMA MInvStutter == MInv /\ UNCHANGED vars => MInv'
<1> SUFFICES ASSUME MInv, UNCHANGED vars PROVE MInv'
  OBVIOUS
<1>1. BInv'
  BY BInvStutter DEF MInv
<1>2. PICK f \in Formats, a \in Args : first = [pieces |-> f, vl |-> a] /\ Says(f, a)
  BY DEF MInv
<1>3. UNCHANGED <<by, stage, fmt, vl, format, longarg, pos, out, first, host>>
  BY DEF vars
<1>4. ASSUME NEW i, Parsed(f, a, i) PROVE Parsed(f, a, i)'
  BY <1>3, <1>4 DEF Parsed, Offset, Agree, At, Holds, Left
<1>5. ASSUME NEW w, NEW d, Copied(w, d) PROVE Copied(w, d)'
  BY <1>3, <1>5 DEF Copied
<1>6. Direct(f)' <=> Direct(f)
  BY <1>3 DEF Direct
<1>7. Says(f, a)'
  BY <1>2, <1>3, <1>4, <1>5, <1>6 DEF Says
<1> QED BY <1>1, <1>2, <1>3, <1>7 DEF MInv

\* Every step keeps the invariant.
LEMMA MInvStep == MInv /\ [Next]_vars => MInv'
<1>1. MInv /\ Written => MInv'
  BY MInvStutter DEF Written
<1> QED BY <1>1, MInvScan, MInvSysUserPrint, MInvSpikeFileWrite, MInvStutter DEF Next

\* What the line should say, of the message that was printed.
LEMMA Meaning ==
  ASSUME NEW f \in Formats, NEW a \in Args, first = [pieces |-> f, vl |-> a]
  PROVE  /\ Proper <=> ProperFor(f, a)
         /\ Nth(Len(first.pieces)) = Convs(f, Len(f))
         /\ ProperFor(f, a) => /\ Text = TextOf(f, a)
                               /\ Prefix(Text, N - 1) = Line(f, a) /\ Shown = ShownOf(f, a)
<1>1. first.pieces = f /\ first.vl = a
  OBVIOUS
<1>2. \A k : Nth(k) = Convs(f, k)
  BY <1>1 DEF Nth, Convs
<1>3. Proper <=> ProperFor(f, a)
  BY <1>1, <1>2 DEF Proper, ProperFor
<1>4. Text = FlattenSeq(Texts(f, a))
  BY <1>1, <1>2 DEF Text, Texts, ArgOf
<1>5. ASSUME ProperFor(f, a)
      PROVE  Text = TextOf(f, a) /\ Prefix(Text, N - 1) = Line(f, a) /\ Shown = ShownOf(f, a)
  <2>1. Text = TextOf(f, a)
    BY <1>4, <1>5, Saying DEF TextOf
  <2> QED BY <2>1 DEF Line, Shown, ShownOf
<1> QED BY <1>1, <1>2, <1>3, <1>5

\* A written message is the one that was meant.
LEMMA MInvExact == MInv => KernelMessageExact /\ AppLineExact
<1> SUFFICES ASSUME MInv PROVE KernelMessageExact /\ AppLineExact
  OBVIOUS
<1>1. PICK f \in Formats, a \in Args : first = [pieces |-> f, vl |-> a] /\ Says(f, a)
  BY DEF MInv
<1>2. /\ Proper <=> ProperFor(f, a)
      /\ Nth(Len(first.pieces)) = Convs(f, Len(f))
      /\ ProperFor(f, a) => Prefix(Text, N - 1) = Line(f, a) /\ Shown = ShownOf(f, a)
  BY <1>1, Meaning
<1>3. KernelMessageExact
  BY <1>1, <1>2 DEF KernelMessageExact, Says, Direct
<1>4. AppLineExact
  BY <1>1, <1>2 DEF AppLineExact, Says, Clean
<1> QED BY <1>3, <1>4

\* For any format and arguments, vsnprintf has put what the pieces it has
\* read say, and the kernel's second pass copies the application's line.
THEOREM MessageGood == Spec => []MInv
<1> QED BY MInvInit, MInvStep, PTL DEF Spec

\* What sprint was asked to print, and a panic without arguments, reaches the
\* host as its format and arguments say: every digit, sign and character.
THEOREM KernelMessageCorrect == Spec => []KernelMessageExact
<1> QED BY MessageGood, MInvExact, PTL

\* What printu was asked to print reaches the host, cut to the buffer, although
\* sys_user_print passes it to sprint as a format, if it has no percent sign
\* and no NUL.
THEOREM AppLineCorrect == Spec => []AppLineExact
<1> QED BY MessageGood, MInvExact, PTL

=============================================================================
