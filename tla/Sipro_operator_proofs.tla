----------------------- MODULE Sipro_operator_proofs ------------------------
(***************************************************************************)
(* What the operators of the emulator and of the machine code give: the    *)
(* results of the instructions for every content of the registers, and the *)
(* image of every program, whose lines stand one behind the other, each as *)
(* many bytes as it was counted.                                           *)
(***************************************************************************)
EXTENDS SiproAlu, SiproCode, TLAPS, FiniteSetTheorems, SequenceTheorems

-----------------------------------------------------------------------------
(* Numbers.                                                                *)

\* Induction over the natural numbers, for the sets that are built below.
LEMMA Induction ==
    ASSUME NEW T, 0 \in T, \A n \in T \cap Nat : n + 1 \in T
    PROVE  Nat \subseteq T
<1> DEFINE Bad == Nat \ T
<1> SUFFICES ASSUME Bad # {} PROVE FALSE
    OBVIOUS
<1>1. PICK x \in Bad : \A y \in Bad : <<y, x>> \notin OpToRel(<, Nat)
    BY WFMin, NatLessThanWellFounded, Zenon
<1>2. x # 0 /\ x \in Nat
    OBVIOUS
<1>3. x - 1 \in Nat /\ x - 1 < x
    BY <1>2
<1>4. x - 1 \notin Bad
    BY <1>1, <1>2, <1>3, Zenon DEF OpToRel
<1>5. x - 1 \in T \cap Nat
    BY <1>3, <1>4
<1>6. (x - 1) + 1 \in T
    BY <1>5
<1> QED
    BY <1>2, <1>6

\* The powers of two, as the cardinals of the sets of subsets.
LEMMA Powers ==
    ASSUME NEW n \in Nat
    PROVE  2^n \in Nat \ {0} /\ 2^(n + 1) = 2 * 2^n
<1> DEFINE S == SUBSET (1..n)
           T == {A \cup {n + 1} : A \in S}
           f == [A \in S |-> A \cup {n + 1}]
<1>1. IsFiniteSet(1..n) /\ Cardinality(1..n) = n
    BY FS_Interval
<1>2. IsFiniteSet(1..(n + 1)) /\ Cardinality(1..(n + 1)) = n + 1
    BY FS_Interval
<1>3. IsFiniteSet(S) /\ Cardinality(S) = 2^n
    BY <1>1, FS_SUBSET
<1>4. Cardinality(SUBSET (1..(n + 1))) = 2^(n + 1)
    BY <1>2, FS_SUBSET
<1>5. f \in Bijection(S, T)
  <2>1. f \in [S -> T] /\ \A t \in T : \E s \in S : f[s] = t
    OBVIOUS
  <2>2. ASSUME NEW s \in S, NEW t \in S, f[s] = f[t] PROVE s = t
    <3>1. n + 1 \notin s /\ n + 1 \notin t
        OBVIOUS
    <3>2. s \cup {n + 1} = t \cup {n + 1}
        BY <2>2
    <3> QED
        BY <3>1, <3>2
  <2> QED
    BY <2>1, <2>2 DEF Bijection, Injection, Surjection, IsInjective
<1>6. IsFiniteSet(T) /\ Cardinality(T) = 2^n
    BY <1>3, <1>5, FS_Bijection DEF ExistsBijection
<1>7. SUBSET (1..(n + 1)) = S \cup T
  <2>1. ASSUME NEW A \in SUBSET (1..(n + 1)) PROVE A \in S \cup T
    <3>1. CASE n + 1 \in A
      <4>1. A \ {n + 1} \in S
        OBVIOUS
      <4>2. A = (A \ {n + 1}) \cup {n + 1}
        BY <3>1
      <4> QED
        BY <4>1, <4>2
    <3>2. CASE n + 1 \notin A
        BY <3>2
    <3> QED
        BY <3>1, <3>2
  <2>2. ASSUME NEW A \in S \cup T PROVE A \in SUBSET (1..(n + 1))
      OBVIOUS
  <2> QED
    BY <2>1, <2>2
<1>8. S \cap T = {}
    OBVIOUS
<1>9. Cardinality(S \cup T) = 2^n + 2^n - Cardinality(S \cap T)
    BY <1>3, <1>6, FS_Union
<1>10. Cardinality(S \cap T) = 0 /\ Cardinality(S) \in Nat /\ Cardinality(S) # 0
    BY <1>3, <1>8, FS_EmptySet, FS_CardinalityType
<1>11. 2^(n + 1) = Cardinality(S \cup T)
    BY <1>4, <1>7
<1>12. 2^n \in Nat /\ 2^n # 0
    BY <1>3, <1>10
<1> HIDE DEF S, T
<1> QED
    BY <1>9, <1>10, <1>11, <1>12

\* Division with a positive divisor: the quotient and the rest are unique.
LEMMA DivisionUnique ==
    ASSUME NEW d \in Nat \ {0}, NEW q \in Int, NEW r \in 0..(d - 1)
    PROVE  (d * q + r) \div d = q /\ (d * q + r) % d = r
    OBVIOUS

\* The quotient and the remainder of natural numbers.
LEMMA Division ==
    ASSUME NEW d \in Nat \ {0}, NEW v \in Int
    PROVE  /\ v = d * (v \div d) + (v % d)
           /\ v % d \in 0..(d - 1)
           /\ v \div d \in Int
           /\ v \in Nat => v \div d \in Nat
    OBVIOUS

\* One more bit of a number.
LEMMA NextBit ==
    ASSUME NEW m \in Nat \ {0}, NEW v \in Nat
    PROVE  /\ (v \div m) % 2 \in 0..1
           /\ v % (2 * m) = (v % m) + ((v \div m) % 2) * m
<1> DEFINE q == v \div m
           r == v % m
           b == q % 2
           h == q \div 2
<1>1. v = m * q + r /\ r \in 0..(m - 1) /\ q \in Nat
    OBVIOUS
<1>2. q = 2 * h + b /\ b \in 0..1 /\ h \in Nat
    BY <1>1
<1> HIDE DEF q, r, b, h
<1>3. m * q = (2 * m) * h + b * m
    BY <1>2
<1>4. b * m + r \in 0..(2 * m - 1) /\ b * m \in Nat
  <2>1. b = 0 \/ b = 1
    BY <1>2
  <2>2. CASE b = 0
    BY <1>1, <2>2
  <2>3. CASE b = 1
    BY <1>1, <2>3
  <2> QED
    BY <2>1, <2>2, <2>3
<1>5. v = (2 * m) * h + (b * m + r)
    BY <1>1, <1>2, <1>3, <1>4
<1>6. ((2 * m) * h + (b * m + r)) % (2 * m) = b * m + r
  <2>1. 2 * m \in Nat \ {0} /\ h \in Int
    BY <1>2
  <2> QED
    BY <2>1, <1>4, DivisionUnique
<1>7. v % (2 * m) = b * m + r
    BY <1>5, <1>6
<1> QED
    BY <1>1, <1>2, <1>4, <1>7 DEF q, r, b, h

-----------------------------------------------------------------------------
(* Recursive functions.                                                    *)

\* g begins with s0, and F[i] leads from each value to the next one.
Iterates(g, n, S, s0, F) ==
    /\ g \in [0..n -> S]
    /\ g[0] = s0
    /\ \A i \in 1..n : g[i] = F[i][g[i - 1]]

\* A function given at 0 and from each number to the next one exists.
LEMMA Recursion ==
    ASSUME NEW n \in Nat, NEW S, NEW s0 \in S, NEW F \in [1..n -> [S -> S]]
    PROVE  \E g : Iterates(g, n, S, s0, F)
<1> DEFINE Good(m, g) == /\ g \in [0..m -> S]
                         /\ g[0] = s0
                         /\ \A i \in 1..m : g[i] = F[i][g[i - 1]]
           T == {m \in Nat : m <= n => \E g : Good(m, g)}
<1>1. 0 \in T
  <2>1. Good(0, [i \in 0..0 |-> s0])
    OBVIOUS
  <2> QED
    BY <2>1
<1>2. ASSUME NEW m \in T \cap Nat PROVE m + 1 \in T
  <2> SUFFICES ASSUME m + 1 <= n PROVE \E g : Good(m + 1, g)
    <3>1. m + 1 \in Nat
        OBVIOUS
    <3> HIDE DEF Good
    <3> QED
        BY <3>1
  <2>1. PICK g : Good(m, g)
    <3> HIDE DEF Good
    <3> QED
        BY <1>2
  <2> DEFINE h == [i \in 0..(m + 1) |-> IF i <= m THEN g[i] ELSE F[m + 1][g[m]]]
  <2>2. g[m] \in S /\ F[m + 1] \in [S -> S]
    BY <2>1
  <2>3. h \in [0..(m + 1) -> S] /\ h[0] = s0
    BY <2>1, <2>2
  <2>4. ASSUME NEW i \in 1..(m + 1) PROVE h[i] = F[i][h[i - 1]]
    <3>1. CASE i <= m
        <4>1. h[i] = g[i] /\ h[i - 1] = g[i - 1] /\ i \in 1..m
            BY <3>1
        <4> QED
            BY <4>1, <2>1
    <3>2. CASE i = m + 1
        BY <3>2
    <3> QED
        BY <3>1, <3>2
  <2>5. Good(m + 1, h)
    BY <2>3, <2>4
  <2> QED
    BY <2>5
<1>3. n \in T
  <2> HIDE DEF T
  <2> QED
    BY <1>1, <1>2, Induction
<1>4. PICK g : Good(n, g)
    BY <1>3
<1> QED
    BY <1>4 DEF Iterates

\* value[i] is the number whose bits are the first i bits of b.
Values(value, b, n) ==
    /\ value \in [0..n -> Nat]
    /\ value[0] = 0
    /\ \A i \in 0..(n - 1) : value[i + 1] = value[i] + (b[i] * 2^i)
    /\ \A i \in 0..n : value[i] < 2^i

\* The value of a number given by its bits, from the lowest one.
LEMMA ValueOfBits ==
    ASSUME NEW n \in Nat, NEW b \in [0..(n - 1) -> 0..1]
    PROVE  \E value : Values(value, b, n) /\ FromBits(b, n) = value[n]
<1> DEFINE value == CHOOSE v : v = [i \in 0..n |->
                        IF i = 0 THEN 0 ELSE v[i - 1] + b[i - 1] * 2^(i - 1)]
           F == [i \in 1..n |-> [s \in Nat |-> s + b[i - 1] * 2^(i - 1)]]
           T == {i \in Nat : i <= n => value[i] \in Nat /\ value[i] < 2^i}
<1>1. \A i \in 1..n : b[i - 1] \in 0..1 /\ 2^(i - 1) \in Nat \ {0}
                        /\ 2^i = 2 * 2^(i - 1)
  <2> TAKE i \in 1..n
  <2>1. b[i - 1] \in 0..1 /\ i - 1 \in Nat
    OBVIOUS
  <2>2. 2^((i - 1) + 1) = 2 * 2^(i - 1) /\ 2^(i - 1) \in Nat \ {0}
    BY <2>1, Powers
  <2>3. (i - 1) + 1 = i
    OBVIOUS
  <2> QED
    BY <2>1, <2>2, <2>3
<1>2. F \in [1..n -> [Nat -> Nat]]
  <2>1. ASSUME NEW i \in 1..n, NEW s \in Nat PROVE s + b[i - 1] * 2^(i - 1) \in Nat
    <3>1. b[i - 1] \in 0..1 /\ 2^(i - 1) \in Nat \ {0}
        BY <1>1, Zenon
    <3> QED
        BY <3>1
  <2> QED
    BY <2>1
<1>3. \E v : v = [i \in 0..n |->
                    IF i = 0 THEN 0 ELSE v[i - 1] + b[i - 1] * 2^(i - 1)]
  <2> HIDE DEF F
  <2>1. PICK g : Iterates(g, n, Nat, 0, F)
    BY <1>2, Recursion
  <2>2. ASSUME NEW i \in 1..n
        PROVE  F[i][g[i - 1]] = g[i - 1] + b[i - 1] * 2^(i - 1)
    <3>1. g[i - 1] \in Nat
        BY <2>1 DEF Iterates
    <3> QED
        BY <3>1 DEF F
  <2>3. g = [i \in 0..n |-> IF i = 0 THEN 0 ELSE g[i - 1] + b[i - 1] * 2^(i - 1)]
    BY <2>1, <2>2 DEF Iterates
  <2> QED
    BY <2>3
<1>4. value = [i \in 0..n |->
                    IF i = 0 THEN 0 ELSE value[i - 1] + b[i - 1] * 2^(i - 1)]
    BY <1>3, Zenon
<1>5. FromBits(b, n) = value[n]
    BY Zenon DEF FromBits
<1> HIDE DEF value, F
<1>6. 0 \in T
  <2>1. value[0] = 0
    BY <1>4
  <2> QED
    BY <2>1
<1>7. ASSUME NEW i \in T \cap Nat PROVE i + 1 \in T
  <2> SUFFICES ASSUME i + 1 <= n
                PROVE value[i + 1] \in Nat /\ value[i + 1] < 2^(i + 1)
    OBVIOUS
  <2>1. value[i] \in Nat /\ value[i] < 2^i
    BY <1>7
  <2>2. value[i + 1] = value[i] + b[i] * 2^i
    BY <1>4
  <2>3. b[i] \in 0..1
    OBVIOUS
  <2>4. 2^i \in Nat \ {0} /\ 2^(i + 1) = 2 * 2^i
    BY Powers
  <2>5. b[i] * 2^i = 0 \/ b[i] * 2^i = 2^i
    BY <2>3, <2>4
  <2> QED
    BY <2>1, <2>2, <2>4, <2>5
<1>8. \A i \in 0..n : value[i] \in Nat /\ value[i] < 2^i
  <2>1. Nat \subseteq T
    <3> HIDE DEF T
    <3> QED
        BY <1>6, <1>7, Induction
  <2> QED
    BY <2>1
<1>9. value \in [0..n -> Nat] /\ value[0] = 0
  <2>1. value = [i \in 0..n |-> value[i]]
    BY <1>4
  <2>2. value \in [0..n -> Nat]
    BY <2>1, <1>8
  <2> QED
    BY <2>2, <1>4
<1>10. \A i \in 0..(n - 1) : value[i + 1] = value[i] + (b[i] * 2^i)
  <2> TAKE i \in 0..(n - 1)
  <2>1. i + 1 \in 0..n /\ i + 1 # 0 /\ (i + 1) - 1 = i
    OBVIOUS
  <2> QED
    BY <1>4, <2>1
<1> QED
    BY <1>5, <1>8, <1>9, <1>10 DEF Values

-----------------------------------------------------------------------------
(* add_internal.                                                           *)

\* The words, without their interval.
LEMMA WordRange ==
    ASSUME NEW w
    PROVE  w \in Word <=> w \in Nat /\ w < 65536
<1>1. SIPRO_UINTMAX \in Nat /\ SIPRO_UINTMAX > 65534 /\ SIPRO_UINTMAX < 65536
    BY DEF SIPRO_UINTMAX
<1> QED
    BY <1>1 DEF Word

\* An unsigned int has more than 16 bits.
LEMMA UnsignedWide ==
    /\ 2^UNSIGNEDBITS \in Nat \ {0} /\ 2^UNSIGNEDBITS > 65536
    /\ Unsigned \subseteq Nat /\ Word \subseteq Unsigned
<1> DEFINE T == {i \in Nat : 2^(i + 17) > 65536}
<1>1. 0 \in T
  <2>1. 2^17 = 131072
    OBVIOUS
  <2> QED
    BY <2>1
<1>2. ASSUME NEW i \in T \cap Nat PROVE i + 1 \in T
  <2>1. 2^((i + 17) + 1) = 2 * 2^(i + 17) /\ 2^(i + 17) \in Nat
    BY Powers
  <2>2. (i + 17) + 1 = (i + 1) + 17
    OBVIOUS
  <2>3. 2^((i + 1) + 17) > 65536
    BY <2>1, <2>2, <1>2
  <2> QED
    BY <2>3
<1>3. UNSIGNEDBITS - 17 \in T
  <2> HIDE DEF T
  <2> QED
    BY <1>1, <1>2, Induction, AluAssumption
<1>4. 2^UNSIGNEDBITS > 65536
  <2>1. (UNSIGNEDBITS - 17) + 17 = UNSIGNEDBITS
    BY AluAssumption
  <2> QED
    BY <1>3, <2>1
<1>5. 2^UNSIGNEDBITS \in Nat \ {0}
    BY Powers, AluAssumption
<1> DEFINE M == 2^UNSIGNEDBITS
<1>6. Unsigned = 0..(M - 1) /\ M \in Nat /\ M > 65536
    BY <1>4, <1>5 DEF Unsigned
<1> HIDE DEF M
<1>7. Unsigned \subseteq Nat
    BY <1>6
<1>8. Word \subseteq Unsigned
    BY <1>6, WordRange
<1> QED
    BY <1>4, <1>5, <1>7, <1>8

\* The carries are bits, each one given by the bits below it.
LEMMA Carries ==
    ASSUME NEW v1, NEW v2
    PROVE  LET r == retenues(v1, v2) IN
           /\ r \in [0..16 -> 0..1]
           /\ r[0] = 0
           /\ \A i \in 0..15 :
                 r[i + 1] = retenue(BITPOS(v1, i), BITPOS(v2, i), r[i])
<1> DEFINE r == retenues(v1, v2)
           carry(i, x) == retenue(BITPOS(v1, i - 1), BITPOS(v2, i - 1), x)
           F == [i \in 1..16 |-> [x \in 0..1 |-> carry(i, x)]]
<1>1. \A i, x : carry(i, x) \in 0..1
    BY DEF retenue
<1>2. r = CHOOSE f : f = [i \in 0..16 |-> IF i = 0 THEN 0 ELSE carry(i, f[i - 1])]
    BY Zenon DEF retenues, SIPRO_REGISTERBITSIZE
<1> HIDE DEF carry, r
<1>3. F \in [1..16 -> [0..1 -> 0..1]]
    BY <1>1
<1>4. \E f : f = [i \in 0..16 |-> IF i = 0 THEN 0 ELSE carry(i, f[i - 1])]
  <2>1. PICK f : Iterates(f, 16, 0..1, 0, F)
    <3>1. 16 \in Nat /\ 0 \in 0..1
        OBVIOUS
    <3> HIDE DEF F
    <3> QED
        BY <3>1, <1>3, Recursion
  <2>2. ASSUME NEW i \in 1..16 PROVE f[i] = carry(i, f[i - 1])
    <3>1. f[i] = F[i][f[i - 1]] /\ f[i - 1] \in 0..1
        BY <2>1 DEF Iterates
    <3> QED
        BY <3>1
  <2>3. f = [i \in 0..16 |-> IF i = 0 THEN 0 ELSE carry(i, f[i - 1])]
    BY <2>1, <2>2 DEF Iterates
  <2> QED
    BY <2>3
<1>5. r = [i \in 0..16 |-> IF i = 0 THEN 0 ELSE carry(i, r[i - 1])]
    BY <1>2, <1>4, Zenon
<1>6. r \in [0..16 -> 0..1]
    BY <1>1, <1>5
<1>7. r[0] = 0
    BY <1>5
<1>8. ASSUME NEW i \in 0..15
      PROVE  r[i + 1] = retenue(BITPOS(v1, i), BITPOS(v2, i), r[i])
  <2>1. i + 1 \in 0..16 /\ i + 1 # 0 /\ (i + 1) - 1 = i
    OBVIOUS
  <2>2. r[i + 1] = carry(i + 1, r[i])
    BY <1>5, <2>1
  <2> QED
    BY <2>1, <2>2 DEF carry
<1> QED
    BY <1>6, <1>7, <1>8 DEF r

\* The bits of the sum of two registers are those of the sum of their words,
\* and what is carried out of the last bit is what the word does not hold.
LEMMA AddInternal ==
    ASSUME NEW v1 \in Unsigned, NEW v2 \in Unsigned
    PROVE  \E c \in 0..1 : \E s \in Word :
              /\ s + (65536 * c) = (v1 % 65536) + (v2 % 65536)
              /\ add_internal(v1, v2) = Sum(v1, v2, c, s)
<1> DEFINE r == retenues(v1, v2)
           b == [i \in 0..15 |-> (BITPOS(v1, i) + BITPOS(v2, i) + r[i]) % 2]
           low(i) == (v1 % 2^i) + (v2 % 2^i)
<1>1. add_internal(v1, v2) = Sum(v1, v2, r[16], FromBits(b, 16))
  <2>1. add_internal(v1, v2) = Added(v1, v2)
    BY DEF add_internal
  <2>2. 16 - 1 = 15
    OBVIOUS
  <2> QED
    BY <2>1, <2>2, Zenon DEF Added, SIPRO_REGISTERBITSIZE
<1>2. v1 \in Nat /\ v2 \in Nat
    BY UnsignedWide
<1>3. /\ r \in [0..16 -> 0..1] /\ r[0] = 0
      /\ \A i \in 0..15 :
            r[i + 1] = retenue(BITPOS(v1, i), BITPOS(v2, i), r[i])
    BY Carries
<1> HIDE DEF r
<1>4. \A i \in Nat : BITPOS(v1, i) \in 0..1 /\ BITPOS(v2, i) \in 0..1
    BY <1>2, Powers, NextBit, Zenon DEF BITPOS
<1>5. b \in [0..15 -> 0..1]
    BY <1>3, <1>4
<1>6. PICK value : Values(value, b, 16) /\ FromBits(b, 16) = value[16]
  <2>1. 16 \in Nat /\ b \in [0..(16 - 1) -> 0..1]
    BY <1>5
  <2> HIDE DEF b
  <2> QED
    BY <2>1, ValueOfBits
<1>20. /\ value \in [0..16 -> Nat]
       /\ value[0] = 0
       /\ \A i \in 0..15 : value[i + 1] = value[i] + (b[i] * 2^i)
       /\ \A i \in 0..16 : value[i] < 2^i
  <2>1. 16 - 1 = 15
    OBVIOUS
  <2> HIDE DEF b
  <2> QED
    BY <1>6, <2>1, Zenon DEF Values
<1> DEFINE T == {i \in Nat : i <= 16 => value[i] + (r[i] * 2^i) = low(i)}
<1>7. 0 \in T
  <2>1. 2^0 = 1 /\ v1 % 1 = 0 /\ v2 % 1 = 0
    BY <1>2
  <2> QED
    BY <2>1, <1>3, <1>20
<1>8. ASSUME NEW i \in T \cap Nat PROVE i + 1 \in T
  <2> SUFFICES ASSUME i + 1 <= 16
                PROVE value[i + 1] + (r[i + 1] * 2^(i + 1)) = low(i + 1)
    OBVIOUS
  <2> DEFINE m == 2^i
             x == BITPOS(v1, i)
             y == BITPOS(v2, i)
  <2>1. i \in 0..15 /\ i + 1 \in 1..16 /\ (i + 1) - 1 = i
    OBVIOUS
  <2>2. m \in Nat \ {0} /\ 2^(i + 1) = 2 * m
    BY Powers
  <2>3. x \in 0..1 /\ v1 % (2 * m) = (v1 % m) + (x * m)
    BY <1>2, <2>2, NextBit DEF BITPOS
  <2>4. y \in 0..1 /\ v2 % (2 * m) = (v2 % m) + (y * m)
    BY <1>2, <2>2, NextBit DEF BITPOS
  <2>5. b[i] = (x + y + r[i]) % 2 /\ r[i + 1] = retenue(x, y, r[i]) /\ r[i] \in 0..1
    BY <1>3, <2>1
  <2>6. value[i + 1] = value[i] + (b[i] * m) /\ value[i] \in Nat
    <3> HIDE DEF b
    <3>1. value[i + 1] = value[i] + (b[i] * 2^i)
        BY <1>20, <2>1, Zenon
    <3>2. i \in 0..16
        BY <2>1
    <3>3. value[i] \in Nat
        BY <1>20, <3>2, Zenon
    <3> QED
        BY <3>1, <3>3, Zenon
  <2>7. value[i] + (r[i] * m) = (v1 % m) + (v2 % m)
    BY <1>8
  <2>8. v1 % m \in Nat /\ v2 % m \in Nat
    BY <1>2, <2>2
  <2> DEFINE p == v1 % m
             q == v2 % m
  <2>9. value[i + 1] + (r[i + 1] * (2 * m)) = (p + (x * m)) + (q + (y * m))
    <3> DEFINE c == r[i]
               d == r[i + 1]
               e == b[i]
    <3>1. e = (x + y + c) % 2 /\ d = retenue(x, y, c) /\ c \in 0..1
        BY <2>5
    <3>2. value[i + 1] = value[i] + (e * m) /\ value[i] + (c * m) = p + q
        BY <2>6, <2>7
    <3>3. m \in Nat /\ p \in Nat /\ q \in Nat /\ value[i] \in Nat
        BY <2>2, <2>6, <2>8
    <3>4. x \in 0..1 /\ y \in 0..1
        BY <2>3, <2>4
    <3> HIDE DEF m, x, y, p, q, b, c, d, e
    <3>5. (2 * d) + e = x + y + c /\ d \in 0..1 /\ e \in 0..1
        BY <3>1, <3>4 DEF retenue
    <3>6. ((2 * d) + e) * m = (x + y + c) * m
        BY <3>5
    <3>7. ((2 * d) + e) * m = (d * (2 * m)) + (e * m)
        BY <3>3, <3>5
    <3>8. (x + y + c) * m = (x * m) + (y * m) + (c * m)
        BY <3>1, <3>3, <3>4
    <3>9. x * m \in Nat /\ y * m \in Nat /\ c * m \in Nat /\ e * m \in Nat
            /\ d * (2 * m) \in Nat
        <4>1. \A z \in 0..1 : \A k \in Nat : z * k \in Nat
            <5> TAKE z \in 0..1, k \in Nat
            <5>1. z = 0 \/ z = 1
                OBVIOUS
            <5> QED
                BY <5>1
        <4>2. 2 * m \in Nat
            BY <3>3
        <4> QED
            BY <4>1, <4>2, <3>1, <3>3, <3>4, <3>5, Zenon
    <3>10. value[i + 1] + (d * (2 * m)) = (p + (x * m)) + (q + (y * m))
        BY <3>2, <3>3, <3>6, <3>7, <3>8, <3>9
    <3> QED
        BY <3>10 DEF d
  <2> QED
    BY <2>2, <2>3, <2>4, <2>9
<1>9. 16 \in T
  <2>1. Nat \subseteq T
    <3> HIDE DEF T
    <3> QED
        BY <1>7, <1>8, Induction
  <2> QED
    BY <2>1
<1>10. 2^16 = 65536
    OBVIOUS
<1>11. value[16] + (65536 * r[16]) = (v1 % 65536) + (v2 % 65536)
    BY <1>9, <1>10, <1>3
<1>12. value[16] \in Word /\ r[16] \in 0..1
  <2>1. value[16] \in Nat /\ value[16] < 65536
    BY <1>20, <1>10
  <2>3. value[16] \in Word
    BY <2>1, WordRange
  <2> QED
    BY <1>3, <2>3
<1> QED
    BY <1>1, <1>6, <1>11, <1>12

-----------------------------------------------------------------------------
(* Signed values.                                                          *)

\* The sign bit and the signed value of a register, by its word.
LEMMA SignedValue ==
    ASSUME NEW v \in Nat
    PROVE  /\ v % 65536 \in Nat /\ v % 65536 < 65536
           /\ BITPOS(v, 15) = IF v % 65536 >= 32768 THEN 1 ELSE 0
           /\ registerSgn(v) = IF v % 65536 >= 32768 THEN -1 ELSE 1
           /\ registerToLongInt(v) =
                 IF v % 65536 >= 32768 THEN (v % 65536) - 65536 ELSE v % 65536
<1>1. 2^15 = 32768 /\ 2^16 = 65536
    OBVIOUS
<1>2. BITPOS(v, 15) = (v \div 32768) % 2
    BY <1>1 DEF BITPOS
<1>3. v % 65536 \in Nat /\ v % 65536 < 65536
    OBVIOUS
<1>4. (v \div 32768) % 2 = IF v % 65536 >= 32768 THEN 1 ELSE 0
    OBVIOUS
<1>5. 16 - 1 = 15
    OBVIOUS
<1>6. registerSgn(v) = IF v % 65536 >= 32768 THEN -1 ELSE 1
    BY <1>2, <1>4, <1>5 DEF registerSgn, SIPRO_REGISTERBITSIZE
<1>7. registerToLongInt(v) =
        IF v % 65536 >= 32768 THEN (v % 65536) - 65536 ELSE v % 65536
    BY <1>1, <1>3, <1>6 DEF registerToLongInt, SIPRO_REGISTERBITSIZE
<1> QED
    BY <1>2, <1>3, <1>4, <1>6, <1>7

\* The integers a word can stand for.
LEMMA SignedRange ==
    ASSUME NEW l \in Int
    PROVE  l \in SIPRO_INTMIN..SIPRO_INTMAX <=> -32768 <= l /\ l < 32768
<1>1. SIPRO_INTMIN \in Int /\ SIPRO_INTMIN > -32769 /\ SIPRO_INTMIN < -32767
    BY DEF SIPRO_INTMIN
<1>2. SIPRO_INTMAX \in Int /\ SIPRO_INTMAX > 32766 /\ SIPRO_INTMAX < 32768
    BY DEF SIPRO_INTMAX
<1> QED
    BY <1>1, <1>2

\* The word of an integer, and the integer of the word.
LEMMA WordOf ==
    ASSUME NEW l \in Int
    PROVE  /\ longIntToRegister(l) \in Word
           /\ longIntToRegister(l) % 65536 = longIntToRegister(l)
           /\ longIntToRegister(l) = l % 65536
           /\ -32768 <= l /\ l < 32768 => registerToLongInt(longIntToRegister(l)) = l
<1>1. longIntToRegister(l) = l % 65536
  <2>1. 2^16 = 65536
    OBVIOUS
  <2> QED
    BY <2>1 DEF longIntToRegister, SIPRO_REGISTERBITSIZE
<1>2. l % 65536 \in Nat /\ l % 65536 < 65536 /\ (l % 65536) % 65536 = l % 65536
    OBVIOUS
<1>3. registerToLongInt(l % 65536) =
        IF l % 65536 >= 32768 THEN (l % 65536) - 65536 ELSE l % 65536
  <2> DEFINE w == l % 65536
  <2>1. w \in Nat /\ w % 65536 = w
    BY <1>2
  <2> HIDE DEF w
  <2>2. registerToLongInt(w) = IF w >= 32768 THEN w - 65536 ELSE w
    BY <2>1, SignedValue
  <2> QED
    BY <2>2 DEF w
<1>4. -32768 <= l /\ l < 32768 =>
        l = IF l % 65536 >= 32768 THEN (l % 65536) - 65536 ELSE l % 65536
    OBVIOUS
<1> QED
    BY <1>1, <1>2, <1>3, <1>4, WordRange

\* fl and the word w tell an exact result, or that no word can stand for it.
Tells(w, fl, exact) ==
    /\ fl \in Flags
    /\ fl.e <=> exact \notin SIPRO_INTMIN..SIPRO_INTMAX
    /\ ~fl.e => registerToLongInt(w) = exact /\ (fl.z <=> exact = 0)

\* What add_internal leaves, for all operands: the error flag tells that the
\* signed sum is not one a word can stand for, the carry that the unsigned one
\* is not a word.
LEMMA AddIsExact ==
    ASSUME NEW v1 \in Unsigned, NEW v2 \in Unsigned
    PROVE  /\ add_internal(v1, v2).sum \in Word
           /\ Tells(add_internal(v1, v2).sum, add_internal(v1, v2).fl,
                    registerToLongInt(v1) + registerToLongInt(v2))
           /\ add_internal(v1, v2).fl.c
                <=> (v1 % 65536) + (v2 % 65536) > SIPRO_UINTMAX
<1> DEFINE a == v1 % 65536
           b == v2 % 65536
<1>1. PICK c \in 0..1, s \in Word :
          s + (65536 * c) = a + b /\ add_internal(v1, v2) = Sum(v1, v2, c, s)
    BY AddInternal
<1>2. v1 \in Nat /\ v2 \in Nat
    BY UnsignedWide
<1>3. s \in Nat /\ s < 65536 /\ s % 65536 = s
    BY WordRange
<1>4. /\ a \in Nat /\ a < 65536
      /\ BITPOS(v1, 15) = IF a >= 32768 THEN 1 ELSE 0
      /\ registerSgn(v1) = IF a >= 32768 THEN -1 ELSE 1
      /\ registerToLongInt(v1) = IF a >= 32768 THEN a - 65536 ELSE a
    BY <1>2, SignedValue
<1>5. /\ b \in Nat /\ b < 65536
      /\ BITPOS(v2, 15) = IF b >= 32768 THEN 1 ELSE 0
      /\ registerSgn(v2) = IF b >= 32768 THEN -1 ELSE 1
      /\ registerToLongInt(v2) = IF b >= 32768 THEN b - 65536 ELSE b
    BY <1>2, SignedValue
<1>6. /\ BITPOS(s, 15) = IF s >= 32768 THEN 1 ELSE 0
      /\ registerSgn(s) = IF s >= 32768 THEN -1 ELSE 1
      /\ registerToLongInt(s) = IF s >= 32768 THEN s - 65536 ELSE s
    BY <1>3, SignedValue
<1> HIDE DEF a, b
<1> DEFINE t == Sum(v1, v2, c, s)
           exact == registerToLongInt(v1) + registerToLongInt(v2)
<1>7. /\ t.sum = s
      /\ t.fl.c <=> c = 1
      /\ t.fl.z <=> s = 0
      /\ t.fl.e <=> /\ registerSgn(v1) = registerSgn(v2)
                    /\ \/ registerSgn(v1) # registerSgn(s)
                       \/ ((BITPOS(v1, 15) + BITPOS(v2, 15)) % 2 # BITPOS(s, 15))
                              # (c = 1)
      /\ t.fl \in Flags
  <2> DEFINE carry == (BITPOS(v1, 15) + BITPOS(v2, 15)) % 2 # BITPOS(s, 15)
             fl == [c |-> c = 1, z |-> s = 0,
                    e |-> /\ registerSgn(v1) = registerSgn(v2)
                          /\ \/ registerSgn(v1) # registerSgn(s)
                             \/ carry # (c = 1)]
  <2>1. 16 - 1 = 15
    OBVIOUS
  <2>2. t = [sum |-> s, fl |-> fl]
    BY <2>1, Zenon DEF Sum, SIPRO_REGISTERBITSIZE
  <2>3. fl \in Flags
    BY Zenon DEF Flags
  <2>4. t.sum = s /\ t.fl = fl
    <3> HIDE DEF t, fl
    <3> QED
        BY <2>2
  <2>5. /\ fl.c <=> c = 1
        /\ fl.z <=> s = 0
        /\ fl.e <=> /\ registerSgn(v1) = registerSgn(v2)
                    /\ \/ registerSgn(v1) # registerSgn(s)
                       \/ carry # (c = 1)
    BY Zenon
  <2> HIDE DEF t, fl
  <2> QED
    BY <2>3, <2>4, <2>5
<1> HIDE DEF t
<1>8. t.fl.e <=> ~(-32768 <= exact /\ exact < 32768)
    BY <1>1, <1>3, <1>4, <1>5, <1>6, <1>7
<1>9. ~t.fl.e => registerToLongInt(s) = exact /\ (s = 0 <=> exact = 0)
    BY <1>1, <1>3, <1>4, <1>5, <1>6, <1>8
<1>10. exact \in Int
    BY <1>4, <1>5
<1>11. t.fl.e <=> exact \notin SIPRO_INTMIN..SIPRO_INTMAX
    BY <1>8, <1>10, SignedRange
<1>12. t.fl.c <=> a + b > 65535
    BY <1>1, <1>3, <1>4, <1>5, <1>7
<1>13. t = add_internal(v1, v2)
    BY <1>1 DEF t
<1>14. t.sum \in Word /\ Tells(t.sum, t.fl, exact)
    BY <1>7, <1>9, <1>11 DEF Tells
<1>15. t.fl.c <=> (v1 % 65536) + (v2 % 65536) > SIPRO_UINTMAX
    BY <1>12 DEF a, b, SIPRO_UINTMAX
<1> QED
    BY <1>13, <1>14, <1>15

\* An unsigned int has UNSIGNEDBITS bits.
LEMMA UnsignedRange ==
    ASSUME NEW v
    PROVE  v \in Unsigned <=> v \in Nat /\ v < 2^UNSIGNEDBITS
    BY UnsignedWide DEF Unsigned

\* A word is an unsigned int.
LEMMA WordIsUnsigned ==
    ASSUME NEW w \in Word
    PROVE  w \in Unsigned
<1>1. w \in Nat /\ w < 65536
    BY WordRange
<1> QED
    BY <1>1, UnsignedWide

\* The flags and the registers an instruction leaves are of their types, and it
\* has written register i alone.
TypedResult(result, R, regs, i) ==
    /\ result.regs \in [R -> Unsigned] /\ result.fl \in Flags
    /\ \A r \in R : r # i => result.regs[r] = regs[r]

\* add adds, and leaves the other registers.
LEMMA AddResult ==
    ASSUME NEW R, NEW regs \in [R -> Unsigned], NEW i \in R, NEW j \in R
    PROVE  /\ TypedResult(add_f(regs, i, j), R, regs, i)
           /\ Tells(add_f(regs, i, j).regs[i], add_f(regs, i, j).fl,
                    registerToLongInt(regs[i]) + registerToLongInt(regs[j]))
           /\ add_f(regs, i, j).fl.c
                <=> (regs[i] % 65536) + (regs[j] % 65536) > SIPRO_UINTMAX
<1> DEFINE s == add_internal(regs[i], regs[j])
<1>1. /\ s.sum \in Word
      /\ Tells(s.sum, s.fl, registerToLongInt(regs[i]) + registerToLongInt(regs[j]))
      /\ s.fl.c <=> (regs[i] % 65536) + (regs[j] % 65536) > SIPRO_UINTMAX
    BY AddIsExact
<1>2. add_f(regs, i, j) = [regs |-> [regs EXCEPT ![i] = s.sum], fl |-> s.fl]
    BY DEF add_f, Result
<1>3. /\ add_f(regs, i, j).regs = [regs EXCEPT ![i] = s.sum]
      /\ add_f(regs, i, j).fl = s.fl
    BY <1>2
<1> HIDE DEF s
<1>4. add_f(regs, i, j).regs[i] = s.sum
    BY <1>3
<1>5. s.sum \in Unsigned /\ s.fl \in Flags
  <2>1. s.sum \in Unsigned
    BY <1>1, WordIsUnsigned
  <2>2. s.fl \in Flags
    BY <1>1 DEF Tells
  <2> QED
    BY <2>1, <2>2
<1>6. TypedResult(add_f(regs, i, j), R, regs, i)
    BY <1>3, <1>5 DEF TypedResult
<1> QED
    BY <1>1, <1>3, <1>4, <1>6

\* What the sum with the opposite of register j leaves.
LEMMA OppositeResult ==
    ASSUME NEW R, NEW regs \in [R -> Unsigned], NEW i \in R, NEW j \in R,
           NEW opposite \in Unsigned, NEW v \in Unsigned,
           i # j => v = regs[j]
    PROVE  /\ TypedResult(SumWithOpposite(regs, i, j, opposite, v), R, regs, i)
           /\ i # j =>
                /\ SumWithOpposite(regs, i, j, opposite, v).regs[i]
                      = add_internal(regs[i], opposite).sum
                /\ SumWithOpposite(regs, i, j, opposite, v).fl
                      = add_internal(regs[i], opposite).fl
                /\ SumWithOpposite(regs, i, j, opposite, v).regs[j] = v
<1> DEFINE Q == [regs EXCEPT ![j] = opposite]
           s == add_internal(Q[i], Q[j])
           result == SumWithOpposite(regs, i, j, opposite, v)
<1>1. /\ Q \in [R -> Unsigned] /\ Q[j] = opposite /\ (i # j => Q[i] = regs[i])
      /\ \A r \in R : r # j => Q[r] = regs[r]
    OBVIOUS
<1>2. result = [regs |-> [Q EXCEPT ![i] = s.sum, ![j] = v], fl |-> s.fl]
    BY Zenon DEF SumWithOpposite, Result
<1> HIDE DEF Q
<1>3. s.sum \in Unsigned /\ s.fl \in Flags
  <2>1. Q[i] \in Unsigned /\ Q[j] \in Unsigned
    BY <1>1
  <2>2. /\ s.sum \in Word
        /\ Tells(s.sum, s.fl, registerToLongInt(Q[i]) + registerToLongInt(Q[j]))
    BY <2>1, AddIsExact
  <2>3. s.sum \in Unsigned
    BY <2>2, WordIsUnsigned
  <2>4. s.fl \in Flags
    BY <2>2, Zenon DEF Tells
  <2> QED
    BY <2>3, <2>4
<1> HIDE DEF s, result
<1>4. /\ result.regs = [Q EXCEPT ![i] = s.sum, ![j] = v]
      /\ result.fl = s.fl
    BY <1>2
<1>5. TypedResult(result, R, regs, i)
    BY <1>1, <1>3, <1>4 DEF TypedResult
<1>6. i # j => result.regs[i] = s.sum /\ result.regs[j] = v
    BY <1>1, <1>4
<1>7. i # j => s = add_internal(regs[i], opposite)
    BY <1>1, Zenon DEF s
<1> QED
    BY <1>4, <1>5, <1>6, <1>7, Zenon DEF result

\* The signed value of an unsigned int.
LEMMA SignedOf ==
    ASSUME NEW v \in Unsigned
    PROVE  /\ registerToLongInt(v) \in Int
           /\ -32768 <= registerToLongInt(v) /\ registerToLongInt(v) < 32768
<1>1. v \in Nat
    BY UnsignedWide
<1>2. v % 65536 \in Nat /\ v % 65536 < 65536
    BY <1>1
<1>3. registerToLongInt(v) =
        IF v % 65536 >= 32768 THEN (v % 65536) - 65536 ELSE v % 65536
    BY <1>1, SignedValue
<1> HIDE DEF Unsigned
<1> QED
    BY <1>2, <1>3

\* sub subtracts register j from another register i, and leaves the others.
LEMMA SubResult ==
    ASSUME NEW R, NEW regs \in [R -> Unsigned], NEW i \in R, NEW j \in R
    PROVE  /\ TypedResult(sub_f(regs, i, j), R, regs, i)
           /\ i # j =>
                /\ Tells(sub_f(regs, i, j).regs[i], sub_f(regs, i, j).fl,
                         registerToLongInt(regs[i]) - registerToLongInt(regs[j]))
                /\ sub_f(regs, i, j).regs[j] = regs[j]
<1> DEFINE a == registerToLongInt(regs[i])
           b == registerToLongInt(regs[j])
           Subtracts(result) ==
             /\ TypedResult(result, R, regs, i)
             /\ i # j => /\ Tells(result.regs[i], result.fl, a - b)
                         /\ result.regs[j] = regs[j]
<1>1. regs[i] \in Unsigned /\ regs[j] \in Unsigned
    OBVIOUS
<1>2. /\ a \in Int /\ -32768 <= a /\ a < 32768
      /\ b \in Int /\ -32768 <= b /\ b < 32768
    BY <1>1, SignedOf
<1>3. SIPRO_INTMIN \in Int /\ SIPRO_INTMIN = -32768
    BY DEF SIPRO_INTMIN
<1>4. CASE b # SIPRO_INTMIN
  <2> DEFINE opposite == longIntToRegister(-b)
             s == add_internal(regs[i], opposite)
             result == SumWithOpposite(regs, i, j, opposite, regs[j])
  <2>1. -b \in Int /\ -32768 <= -b /\ -b < 32768
    BY <1>2, <1>3, <1>4
  <2>2. opposite \in Word /\ registerToLongInt(opposite) = -b
    BY <2>1, WordOf
  <2>3. opposite \in Unsigned
    BY <2>2, WordIsUnsigned
  <2>4. Tells(s.sum, s.fl, a + (-b))
    BY <1>1, <2>2, <2>3, AddIsExact
  <2>5. a + (-b) = a - b
    BY <1>2
  <2>6. Tells(s.sum, s.fl, a - b)
    BY <2>4, <2>5
  <2>7. /\ TypedResult(result, R, regs, i)
        /\ i # j => /\ result.regs[i] = s.sum /\ result.fl = s.fl
                    /\ result.regs[j] = regs[j]
    BY <1>1, <2>3, OppositeResult
  <2>8. sub_f(regs, i, j) = result
    BY <1>4, Zenon DEF sub_f, sub_only_opposite
  <2> HIDE DEF a, b, s, result
  <2>9. Subtracts(result)
    BY <2>6, <2>7
  <2> QED
    BY <2>8, <2>9 DEF a, b
<1>5. CASE b = SIPRO_INTMIN /\ a >= 0
  <2> DEFINE fl == [NoFlag EXCEPT !.e = TRUE]
  <2>1. sub_f(regs, i, j) = [regs |-> regs, fl |-> fl]
    BY <1>5, Zenon DEF sub_f, Result
  <2>2. fl \in Flags /\ fl.e
    BY DEF NoFlag, Flags
  <2> HIDE DEF fl
  <2>3. sub_f(regs, i, j).regs = regs /\ sub_f(regs, i, j).fl = fl
    BY <2>1
  <2>4. TypedResult(sub_f(regs, i, j), R, regs, i)
    BY <2>2, <2>3 DEF TypedResult
  <2>5. a - b \in Int /\ ~(a - b < 32768)
    BY <1>2, <1>3, <1>5
  <2>6. a - b \notin SIPRO_INTMIN..SIPRO_INTMAX
    BY <2>5, SignedRange
  <2>7. Tells(regs[i], fl, a - b)
    BY <2>2, <2>6, Zenon DEF Tells
  <2> QED
    BY <2>3, <2>4, <2>7
<1>6. CASE b = SIPRO_INTMIN /\ ~(a >= 0)
  <2> DEFINE Q == [regs EXCEPT ![i] = add_internal(@, 1).sum]
             opposite == longIntToRegister(-add_internal(Q[j], 1).sum)
             s == add_internal(Q[i], opposite)
             result == SumWithOpposite(Q, i, j, opposite, regs[j])
  <2>1. 1 \in Unsigned /\ registerToLongInt(1) = 1
    <3>1. 1 \in Word
        BY WordRange
    <3>2. 1 % 65536 = 1
        OBVIOUS
    <3> QED
        BY <3>1, <3>2, WordIsUnsigned, SignedValue
  <2>2. add_internal(regs[i], 1).sum \in Word
    BY <1>1, <2>1, AddIsExact
  <2>3. Q \in [R -> Unsigned] /\ Q[i] = add_internal(regs[i], 1).sum
          /\ (i # j => Q[j] = regs[j])
          /\ \A r \in R : r # i => Q[r] = regs[r]
    BY <2>2, WordIsUnsigned
  <2> HIDE DEF Q
  <2>4. Q[j] \in Unsigned /\ Q[i] \in Unsigned
    BY <2>3
  <2>5. add_internal(Q[j], 1).sum \in Word
    BY <2>1, <2>4, AddIsExact
  <2>6. add_internal(Q[j], 1).sum \in Nat /\ add_internal(Q[j], 1).sum < 65536
    BY <2>5, WordRange
  <2>7. opposite \in Unsigned
    <3>1. -add_internal(Q[j], 1).sum \in Int
        BY <2>6
    <3> QED
        BY <3>1, WordOf, WordIsUnsigned
  <2>8. /\ TypedResult(result, R, Q, i)
        /\ i # j => /\ result.regs[i] = s.sum /\ result.fl = s.fl
                    /\ result.regs[j] = regs[j]
    BY <1>1, <2>3, <2>7, OppositeResult
  <2>12. TypedResult(result, R, regs, i)
    <3> HIDE DEF result
    <3> QED
        BY <2>3, <2>8 DEF TypedResult
  <2>9. sub_f(regs, i, j) = result
    BY <1>6, Zenon DEF sub_f, Q
  <2>10. ASSUME i # j PROVE Tells(s.sum, s.fl, a - b)
    <3>1. Tells(add_internal(regs[i], 1).sum, add_internal(regs[i], 1).fl, a + 1)
        BY <1>1, <2>1, AddIsExact
    <3>2. a + 1 \in SIPRO_INTMIN..SIPRO_INTMAX
        BY <1>2, <1>6, SignedRange
    <3>3. registerToLongInt(Q[i]) = a + 1
        BY <2>3, <3>1, <3>2 DEF Tells
    <3>4. Tells(add_internal(Q[j], 1).sum, add_internal(Q[j], 1).fl, b + 1)
        BY <1>1, <2>1, <2>3, <2>10, AddIsExact
    <3>5. b + 1 \in SIPRO_INTMIN..SIPRO_INTMAX
        BY <1>2, <1>3, <1>6, SignedRange
    <3> DEFINE t == add_internal(Q[j], 1).sum
    <3>6. registerToLongInt(t) = -32767
        BY <1>3, <1>6, <3>4, <3>5 DEF Tells
    <3>7. t \in Nat /\ t < 65536 /\ t % 65536 = t
        BY <2>6
    <3>8. registerToLongInt(t) = IF t >= 32768 THEN t - 65536 ELSE t
      <4>1. registerToLongInt(t) =
               IF t % 65536 >= 32768 THEN (t % 65536) - 65536 ELSE t % 65536
        BY <3>7, SignedValue
      <4> QED
        BY <3>7, <4>1
    <3>9. t = 32769
        BY <3>6, <3>7, <3>8
    <3>10. registerToLongInt(opposite) = 32767
      <4> DEFINE d == 65536
             m == -32769
             n == -1
             r == 32767
      <4>5. /\ d \in Nat \ {0} /\ r \in 0..(d - 1) /\ n \in Int
            /\ d * n + r = m /\ m \in Int /\ r % 65536 = r
        OBVIOUS
      <4> HIDE DEF d, m, n, r
      <4>6. (d * n + r) % d = r
        BY <4>5, DivisionUnique
      <4>7. m % d = r
        BY <4>5, <4>6
      <4>1. m % 65536 = 32767 /\ 32767 % 65536 = 32767 /\ m \in Int
        BY <4>5, <4>7 DEF d, m, r
      <4>2. longIntToRegister(m) = 32767
        BY <4>1, WordOf
      <4>3. opposite = 32767
        BY <3>9, <4>2 DEF m
      <4> QED
        BY <4>1, <4>3, SignedValue
    <3> HIDE DEF t, opposite
    <3>11. Tells(s.sum, s.fl, (a + 1) + 32767)
        BY <2>4, <2>7, <3>3, <3>10, AddIsExact
    <3>12. (a + 1) + 32767 = a - b
        BY <1>2, <1>3, <1>6
    <3> QED
        BY <3>11, <3>12
  <2> HIDE DEF a, b, s, result
  <2>11. Subtracts(result)
    BY <2>8, <2>10, <2>12
  <2> QED
    BY <2>9, <2>11 DEF a, b
<1> QED
    BY <1>4, <1>5, <1>6

\* regs with v in register i.
Assigned(regs, i, v) == [regs EXCEPT ![i] = v]

\* A handler that leaves a value in register i.
LEMMA Wrote ==
    ASSUME NEW R, NEW regs \in [R -> Unsigned], NEW i \in R,
           NEW value \in Unsigned, NEW flags \in Flags
    PROVE  /\ TypedResult(Result(Assigned(regs, i, value), flags), R, regs, i)
           /\ Result(Assigned(regs, i, value), flags).regs[i] = value
           /\ Result(Assigned(regs, i, value), flags).fl = flags
<1> DEFINE Q == Assigned(regs, i, value)
<1>1. Q \in [R -> Unsigned] /\ Q[i] = value
        /\ \A r \in R : r # i => Q[r] = regs[r]
    BY DEF Assigned
<1> HIDE DEF Q
<1>2. Result(Q, flags).regs = Q /\ Result(Q, flags).fl = flags
    BY DEF Result
<1> QED
    BY <1>1, <1>2 DEF Q, TypedResult

\* mul multiplies, and leaves the other registers.
LEMMA MulResult ==
    ASSUME NEW R, NEW regs \in [R -> Unsigned], NEW i \in R, NEW j \in R
    PROVE  /\ TypedResult(mul_f(regs, i, j), R, regs, i)
           /\ Tells(mul_f(regs, i, j).regs[i], mul_f(regs, i, j).fl,
                    registerToLongInt(regs[i]) * registerToLongInt(regs[j]))
<1> DEFINE a == registerToLongInt(regs[i])
           b == registerToLongInt(regs[j])
           v == a * b
           told == [c |-> FALSE, z |-> v = 0,
                    e |-> v < SIPRO_INTMIN \/ v > SIPRO_INTMAX]
           w == longIntToRegister(v)
<1>1. regs[i] \in Unsigned /\ regs[j] \in Unsigned
    OBVIOUS
<1>2. a \in Int /\ b \in Int
    BY <1>1, SignedOf
<1> HIDE DEF a, b
<1>3. v \in Int
    BY <1>2
<1>4. mul_f(regs, i, j) = Result(Assigned(regs, i, w), told)
    BY Zenon DEF mul_f, Assigned, a, b
<1> HIDE DEF v
<1>5. w \in Word /\ (-32768 <= v /\ v < 32768 => registerToLongInt(w) = v)
    BY <1>3, WordOf
<1>6. /\ told \in Flags
      /\ told.z <=> v = 0
      /\ told.e <=> v < SIPRO_INTMIN \/ v > SIPRO_INTMAX
    BY DEF Flags
<1>7. told.e <=> ~(-32768 <= v /\ v < 32768)
    BY <1>3, <1>6 DEF SIPRO_INTMIN, SIPRO_INTMAX
<1> HIDE DEF told, w
<1>8. told.e <=> v \notin SIPRO_INTMIN..SIPRO_INTMAX
    BY <1>3, <1>7, SignedRange
<1>9. Tells(w, told, v)
    BY <1>5, <1>6, <1>7, <1>8 DEF Tells
<1>10. w \in Unsigned
    BY <1>5, WordIsUnsigned
<1>11. /\ TypedResult(mul_f(regs, i, j), R, regs, i)
       /\ mul_f(regs, i, j).regs[i] = w /\ mul_f(regs, i, j).fl = told
    BY <1>4, <1>6, <1>10, Wrote
<1> QED
    BY <1>9, <1>11 DEF v, a, b

\* The quotient of two positive numbers, and what remains.
LEMMA Truncated ==
    ASSUME NEW x \in Nat, NEW y \in Nat \ {0}
    PROVE  /\ x \div y \in Nat /\ x \div y <= x
           /\ 0 <= x - (x \div y) * y /\ x - (x \div y) * y < y
           /\ x < (x \div y) * y + y
<1> DEFINE q == x \div y
           r == x % y
<1>1. x = y * q + r /\ r \in 0..(y - 1) /\ q \in Nat
    OBVIOUS
<1> HIDE DEF q, r
<1>2. y * q = q * y /\ q * y \in Nat
    BY <1>1
<1>3. q <= q * y
  <2>1. q * y = q + q * (y - 1) /\ q * (y - 1) \in Nat
    BY <1>1
  <2> QED
    BY <1>1, <2>1
<1> QED
    BY <1>1, <1>2, <1>3 DEF q, r

\* The quotient q truncates a / b towards 0.
Truncates(q, a, b) == Abs(a - q * b) < Abs(b) /\ (a - q * b) * a >= 0

\* The truncated quotient, by the signs of its operands.
LEMMA SignedQuotient ==
    ASSUME NEW a \in Int, NEW b \in Int, b # 0
    PROVE  /\ Truncates(IF (a < 0) <=> (b < 0) THEN Abs(a) \div Abs(b)
                        ELSE -(Abs(a) \div Abs(b)), a, b)
           /\ Abs(a) \div Abs(b) \in Nat /\ Abs(a) \div Abs(b) <= Abs(a)
           /\ Abs(a) \div Abs(b) = Abs(a) => Abs(a) = 0 \/ Abs(b) = 1
<1> DEFINE x == Abs(a)
           y == Abs(b)
           v == x \div y
           p == v * y
<1>1. /\ x \in Nat /\ y \in Nat \ {0}
      /\ (a >= 0 => x = a) /\ (a < 0 => x = -a)
      /\ (b >= 0 => y = b) /\ (b < 0 => y = -b)
    BY DEF Abs
<1>2. v \in Nat /\ v <= x /\ 0 <= x - p /\ x - p < y
    BY <1>1, Truncated
<1>3. p \in Nat /\ (-v) * b = -(v * b) /\ (b >= 0 => v * b = p)
         /\ (b < 0 => v * b = -p)
  <2>1. v * (-b) = -(v * b) /\ (-v) * b = -(v * b) /\ v * b \in Int
    BY <1>2
  <2>2. p \in Nat
    BY <1>1, <1>2
  <2> HIDE DEF v, y
  <2> QED
    BY <1>1, <1>2, <2>1, <2>2
<1> HIDE DEF v
<1>4. v = x => x = 0 \/ y = 1
  <2> SUFFICES ASSUME v = x, x # 0 PROVE y = 1
    OBVIOUS
  <2>1. x * y <= x
    BY <1>1, <1>2
  <2>2. x * y = x + x * (y - 1)
    BY <1>1
  <2>3. x * (y - 1) <= 0
    BY <1>1, <2>1, <2>2
  <2>4. ASSUME y > 1 PROVE FALSE
    <3>1. x * (y - 1) >= 1
        BY <1>1, <2>4
    <3> QED
        BY <2>3, <3>1, <1>1
  <2> QED
    BY <1>1, <2>4
<1> HIDE DEF x, y, p
<1> DEFINE q == IF (a < 0) <=> (b < 0) THEN v ELSE -v
           rest == a - q * b
<1>5. rest = IF a < 0 THEN -(x - p) ELSE x - p
  <2>1. CASE (a < 0) <=> (b < 0)
    <3>1. q = v
        BY <2>1
    <3> QED
        BY <1>1, <1>2, <1>3, <2>1, <3>1
  <2>2. CASE ~((a < 0) <=> (b < 0))
    <3>1. q = -v
        BY <2>2
    <3> QED
        BY <1>1, <1>2, <1>3, <2>2, <3>1
  <2> QED
    BY <2>1, <2>2
<1>6. x - p \in Nat
    BY <1>1, <1>2, <1>3
<1> HIDE DEF rest
<1>7. Abs(rest) = x - p
    BY <1>5, <1>6 DEF Abs
<1>8. rest * a >= 0
  <2>1. rest * a = (x - p) * x
    <3> DEFINE d == x - p
    <3>1. d \in Nat
        BY <1>6
    <3> HIDE DEF d
    <3>2. (-d) * (-x) = d * x
        BY <1>1, <3>1
    <3> QED
        BY <1>1, <1>5, <3>1, <3>2 DEF d
  <2>2. (x - p) * x \in Nat
    BY <1>1, <1>6
  <2> QED
    BY <2>1, <2>2
<1>9. Truncates(q, a, b)
    BY <1>2, <1>7, <1>8 DEF Truncates, rest, y
<1> QED
    BY <1>2, <1>4, <1>9 DEF q, v, x, y

\* The division of a by b left q and fl.
Divides(q, fl, a, b) ==
    IF b = 0 THEN fl.e /\ q = a
    ELSE /\ ~fl.e /\ (fl.z <=> q = 0)
         /\ IF a = SIPRO_INTMIN /\ b = -1 THEN q = SIPRO_INTMIN
            ELSE Truncates(q, a, b)

\* div divides, and leaves the other registers.
LEMMA DivResult ==
    ASSUME NEW R, NEW regs \in [R -> Unsigned], NEW i \in R, NEW j \in R
    PROVE  /\ TypedResult(div_f(regs, i, j), R, regs, i)
           /\ Divides(registerToLongInt(div_f(regs, i, j).regs[i]),
                      div_f(regs, i, j).fl,
                      registerToLongInt(regs[i]), registerToLongInt(regs[j]))
<1> DEFINE a == registerToLongInt(regs[i])
           b == registerToLongInt(regs[j])
           x == Abs(a)
           y == Abs(b)
<1>1. /\ regs[i] \in Unsigned /\ regs[j] \in Unsigned
      /\ regs[i] \in Nat /\ regs[j] \in Nat
  <2>1. regs[i] \in Unsigned /\ regs[j] \in Unsigned
    OBVIOUS
  <2> QED
    BY <2>1, UnsignedRange
<1>2. /\ a \in Int /\ -32768 <= a /\ a < 32768
      /\ b \in Int /\ -32768 <= b /\ b < 32768
    BY <1>1, SignedOf
<1>3. registerSgn(regs[i]) = registerSgn(regs[j]) <=> ((a < 0) <=> (b < 0))
  <2>1. /\ registerSgn(regs[i]) = IF a < 0 THEN -1 ELSE 1
        /\ registerSgn(regs[j]) = IF b < 0 THEN -1 ELSE 1
    BY <1>1, SignedValue
  <2> HIDE DEF a, b
  <2> QED
    BY <2>1
<1> HIDE DEF a, b
<1>4. CASE b = 0
  <2> DEFINE told == [e |-> TRUE, c |-> FALSE, z |-> a = 0]
  <2>1. div_f(regs, i, j) = [regs |-> regs, fl |-> told]
    BY <1>4, Zenon DEF div_f, Result, a, b
  <2>2. told \in Flags /\ told.e
    BY DEF Flags
  <2> HIDE DEF told
  <2>3. div_f(regs, i, j).regs = regs /\ div_f(regs, i, j).fl = told
    BY <2>1
  <2>4. TypedResult(div_f(regs, i, j), R, regs, i)
    BY <2>2, <2>3 DEF TypedResult
  <2>5. Divides(a, told, a, b)
    BY <1>4, <2>2 DEF Divides
  <2> QED
    BY <2>3, <2>4, <2>5 DEF a, b
<1>5. CASE b # 0
  <2> DEFINE v == IF (a < 0) <=> (b < 0) THEN x \div y ELSE -(x \div y)
             told == [e |-> FALSE, c |-> FALSE, z |-> v = 0]
             w == longIntToRegister(v)
             q == registerToLongInt(w)
  <2>1. /\ Truncates(v, a, b)
        /\ x \div y \in Nat /\ x \div y <= x
        /\ x \div y = x => x = 0 \/ y = 1
    BY <1>2, <1>5, SignedQuotient
  <2>2. Quotient(regs, i, j) = v
    BY <1>3, Zenon DEF Quotient, a, b
  <2>3. div_f(regs, i, j) = Result(Assigned(regs, i, w), told)
    BY <1>5, <2>2 DEF div_f, Assigned, b
  <2>4. /\ told \in Flags /\ ~told.e
        /\ told.z <=> v = 0
    BY DEF Flags
  <2>5. /\ x \in Nat /\ y \in Nat
        /\ x = (IF a < 0 THEN -a ELSE a) /\ y = (IF b < 0 THEN -b ELSE b)
    BY <1>2 DEF Abs
  <2> DEFINE m == x \div y
  <2>6. /\ m \in Nat /\ m <= x /\ (m = x => x = 0 \/ y = 1)
        /\ v = IF (a < 0) <=> (b < 0) THEN m ELSE -m
    BY <2>1
  <2> HIDE DEF m, x, y, v
  <2>7. /\ v \in Int
        /\ a = -32768 /\ b = -1 => v = 32768
        /\ ~(a = -32768 /\ b = -1) => -32768 <= v /\ v < 32768
    <3>1. a = -32768 /\ b = -1 => m = 32768
      <4>1. 32768 \div 1 = 32768
        OBVIOUS
      <4> QED
        BY <2>5, <4>1 DEF m
    <3>2. m <= 32768
        BY <1>2, <2>5, <2>6
    <3>3. ASSUME (a < 0) <=> (b < 0), ~(a = -32768 /\ b = -1) PROVE m < 32768
      <4>1. m = 32768 => x = 32768 /\ y = 1
        BY <1>2, <2>5, <2>6
      <4>2. x = 32768 => a = -32768
        BY <1>2, <2>5
      <4>3. y = 1 => b = 1 \/ b = -1
        BY <1>2, <2>5
      <4> QED
        BY <2>6, <3>2, <3>3, <4>1, <4>2, <4>3
    <3> QED
        BY <1>2, <2>6, <3>1, <3>2, <3>3
  <2>8. w \in Word /\ (-32768 <= v /\ v < 32768 => q = v)
    BY <2>7, WordOf
  <2>9. a = -32768 /\ b = -1 => q = -32768
    <3> SUFFICES ASSUME a = -32768, b = -1 PROVE q = -32768
        OBVIOUS
    <3> DEFINE l == 32768
    <3>1. l \in Nat /\ l % 65536 = 32768 /\ l >= 32768
        OBVIOUS
    <3>2. longIntToRegister(l) = l % 65536
        BY <3>1, WordOf
    <3>3. registerToLongInt(l) =
            IF l % 65536 >= 32768 THEN (l % 65536) - 65536 ELSE l % 65536
        BY <3>1, SignedValue
    <3>4. v = l
        BY <2>7
    <3>5. registerToLongInt(l) = -32768 /\ longIntToRegister(l) = l
        BY <3>1, <3>2, <3>3
    <3> HIDE DEF l
    <3> QED
        BY <3>4, <3>5
  <2>10. w \in Unsigned
    BY <2>8, WordIsUnsigned
  <2> HIDE DEF told, w
  <2>11. /\ TypedResult(div_f(regs, i, j), R, regs, i)
         /\ div_f(regs, i, j).regs[i] = w /\ div_f(regs, i, j).fl = told
    BY <2>3, <2>4, <2>10, Wrote
  <2> HIDE DEF q
  <2>12. SIPRO_INTMIN = -32768
    BY DEF SIPRO_INTMIN
  <2>13. told.z <=> q = 0
    BY <2>4, <2>7, <2>8, <2>9
  <2>14. Divides(q, told, a, b)
    BY <1>5, <2>1, <2>4, <2>7, <2>8, <2>9, <2>12, <2>13 DEF Divides
  <2> QED
    BY <2>11, <2>14 DEF q, a, b
<1> QED
    BY <1>4, <1>5

-----------------------------------------------------------------------------
(* The other handlers.                                                     *)

\* Bits put together make an unsigned int.
LEMMA BitByBitIsUnsigned ==
    ASSUME NEW op \in [0..2 -> 0..1], NEW v \in Unsigned, NEW w \in Unsigned
    PROVE  BitByBit(op, v, w) \in Unsigned
<1> DEFINE b == [i \in 0..(UNSIGNEDBITS - 1) |-> op[BITPOS(v, i) + BITPOS(w, i)]]
<1>1. v \in Nat /\ w \in Nat
    BY UnsignedRange
<1>2. ASSUME NEW i \in 0..(UNSIGNEDBITS - 1), NEW n \in Nat
      PROVE  BITPOS(n, i) \in 0..1
  <2>1. 2^i \in Nat \ {0}
    BY Powers
  <2> QED
    BY <2>1, NextBit DEF BITPOS
<1>3. \A i \in 0..(UNSIGNEDBITS - 1) : op[BITPOS(v, i) + BITPOS(w, i)] \in 0..1
  <2> TAKE i \in 0..(UNSIGNEDBITS - 1)
  <2>1. BITPOS(v, i) \in 0..1 /\ BITPOS(w, i) \in 0..1
    BY <1>1, <1>2
  <2>2. BITPOS(v, i) + BITPOS(w, i) \in 0..2
    BY <2>1
  <2> QED
    BY <2>2
<1>4. b \in [0..(UNSIGNEDBITS - 1) -> 0..1]
    BY <1>3
<1> HIDE DEF b
<1>5. UNSIGNEDBITS \in Nat
    BY AluAssumption
<1>6. PICK value : Values(value, b, UNSIGNEDBITS)
                     /\ FromBits(b, UNSIGNEDBITS) = value[UNSIGNEDBITS]
    BY <1>4, <1>5, ValueOfBits
<1>7. value[UNSIGNEDBITS] \in Nat /\ value[UNSIGNEDBITS] < 2^UNSIGNEDBITS
    BY <1>5, <1>6 DEF Values
<1>8. BitByBit(op, v, w) = FromBits(b, UNSIGNEDBITS)
    BY DEF BitByBit, b
<1> QED
    BY <1>6, <1>7, <1>8, UnsignedRange

\* No flag is set, or only the carry.
LEMMA FewFlags ==
    /\ NoFlag \in Flags
    /\ \A p \in BOOLEAN : Carry(p) \in Flags
    /\ [NoFlag EXCEPT !.e = TRUE] \in Flags
    BY DEF NoFlag, Carry, Flags

\* The handlers of one register leave unsigned ints.
LEMMA UnaryTyped ==
    ASSUME NEW R, NEW regs \in [R -> Unsigned], NEW i \in R
    PROVE  /\ TypedResult(not_f(regs, i), R, regs, i)
           /\ TypedResult(shiftr_f(regs, i), R, regs, i)
           /\ TypedResult(shiftl_f(regs, i), R, regs, i)
<1>1. regs[i] \in Unsigned
    OBVIOUS
<1>2. regs[i] \in Nat /\ regs[i] < 2^UNSIGNEDBITS /\ 2^UNSIGNEDBITS \in Nat
    BY <1>1, UnsignedRange, UnsignedWide
<1>3. TypedResult(not_f(regs, i), R, regs, i)
  <2> DEFINE v == 2^UNSIGNEDBITS - 1 - regs[i]
  <2>1. v \in Unsigned
    BY <1>2, UnsignedRange
  <2>2. not_f(regs, i) = Result(Assigned(regs, i, v), NoFlag)
    BY DEF not_f, Assigned
  <2> HIDE DEF v
  <2> QED
    BY <2>1, <2>2, FewFlags, Wrote
<1>4. TypedResult(shiftr_f(regs, i), R, regs, i)
  <2> DEFINE v == regs[i] \div 2
             p == regs[i] % 2 = 1
  <2>1. v \in Nat /\ v <= regs[i]
    BY <1>2
  <2>2. v \in Unsigned
    BY <1>2, <2>1, UnsignedRange
  <2>3. shiftr_f(regs, i) = Result(Assigned(regs, i, v), Carry(p))
    BY DEF shiftr_f, Assigned
  <2>4. Carry(p) \in Flags
    BY FewFlags
  <2> HIDE DEF v, p
  <2> QED
    BY <2>2, <2>3, <2>4, Wrote
<1>5. TypedResult(shiftl_f(regs, i), R, regs, i)
  <2> DEFINE v == (2 * regs[i]) % 2^SIPRO_REGISTERBITSIZE
  <2>1. 2^16 = 65536
    OBVIOUS
  <2>2. v \in Nat /\ v < 65536
    BY <1>2, <2>1 DEF SIPRO_REGISTERBITSIZE
  <2>3. v \in Unsigned
    BY <2>2, WordRange, WordIsUnsigned
  <2>4. shiftl_f(regs, i) = Result(Assigned(regs, i, v), NoFlag)
    BY DEF shiftl_f, Assigned
  <2> HIDE DEF v
  <2> QED
    BY <2>3, <2>4, FewFlags, Wrote
<1> QED
    BY <1>3, <1>4, <1>5

\* The handlers of two registers that are no arithmetic leave unsigned ints.
LEMMA BinaryTyped ==
    ASSUME NEW R, NEW regs \in [R -> Unsigned], NEW i \in R, NEW j \in R
    PROVE  /\ TypedResult(and_f(regs, i, j), R, regs, i)
           /\ TypedResult(or_f(regs, i, j), R, regs, i)
           /\ TypedResult(xor_f(regs, i, j), R, regs, i)
           /\ TypedResult(cp_f(regs, i, j), R, regs, i)
           /\ TypedResult(cmp_f(regs, i, j), R, regs, i)
           /\ TypedResult(uless_f(regs, i, j), R, regs, i)
           /\ TypedResult(sless_f(regs, i, j), R, regs, i)
<1>1. regs[i] \in Unsigned /\ regs[j] \in Unsigned
    OBVIOUS
<1>2. ASSUME NEW op \in [0..2 -> 0..1]
      PROVE  TypedResult(Result(Assigned(regs, i, BitByBit(op, regs[i], regs[j])),
                                NoFlag), R, regs, i)
    BY <1>1, BitByBitIsUnsigned, FewFlags, Wrote
<1>3. AndBit \in [0..2 -> 0..1] /\ OrBit \in [0..2 -> 0..1] /\ XorBit \in [0..2 -> 0..1]
    BY DEF AndBit, OrBit, XorBit
<1>4. /\ TypedResult(and_f(regs, i, j), R, regs, i)
      /\ TypedResult(or_f(regs, i, j), R, regs, i)
      /\ TypedResult(xor_f(regs, i, j), R, regs, i)
    BY <1>2, <1>3 DEF and_f, or_f, xor_f, Assigned
<1>5. TypedResult(cp_f(regs, i, j), R, regs, i)
    BY <1>1, FewFlags, Wrote DEF cp_f, Assigned
<1>6. ASSUME NEW flags \in Flags PROVE TypedResult(Result(regs, flags), R, regs, i)
    BY DEF TypedResult, Result
<1>7. [e |-> FALSE, c |-> regs[i] = regs[j],
       z |-> regs[i] = regs[j] /\ regs[j] = 0] \in Flags
    BY DEF Flags
<1>8. TypedResult(cmp_f(regs, i, j), R, regs, i)
    BY <1>6, <1>7 DEF cmp_f
<1>9. /\ TypedResult(uless_f(regs, i, j), R, regs, i)
      /\ TypedResult(sless_f(regs, i, j), R, regs, i)
  <2> DEFINE u == regs[i] < regs[j]
             l == registerToLongInt(regs[i]) < registerToLongInt(regs[j])
  <2>1. u \in BOOLEAN /\ l \in BOOLEAN
    OBVIOUS
  <2>2. uless_f(regs, i, j) = Result(regs, Carry(u))
          /\ sless_f(regs, i, j) = Result(regs, Carry(l))
    BY Zenon DEF uless_f, sless_f
  <2> HIDE DEF u, l
  <2> QED
    BY <1>6, <2>1, <2>2, FewFlags
<1> QED
    BY <1>4, <1>5, <1>8, <1>9

-----------------------------------------------------------------------------
(* The image of a program.                                                 *)

\* A byte is below 256, and the even cells hold words.
LEMMA ByteRange ==
    ASSUME NEW v
    PROVE  v \in Byte <=> v \in Nat /\ v < 256
<1>1. 2^8 = 256
    OBVIOUS
<1> QED
    BY <1>1 DEF Byte

\* The lines of a program.
Program == Seq(Instr \cup Constante)
LEMMA LinesOf ==
    ASSUME NEW p \in Program
    PROVE  /\ Len(p) \in Nat /\ DOMAIN p = 1..Len(p)
           /\ \A i \in DOMAIN p : p[i] \in Instr \cup Constante
    BY DEF Program

\* The holes are empty or one cell.
LEMMA Holes ==
    ASSUME NEW n \in Nat
    PROVE  /\ trou(n) \in 0..1
           /\ trou(n) = 0 <=> n % 2 = 0
           /\ (n + trou(n)) % 2 = 0
    BY DEF trou

\* Sequences of bytes.
LEMMA ByteSequences ==
    /\ \A b \in Byte : <<b>> \in Seq(Byte) /\ Len(<<b>>) = 1 /\ <<b>>[1] = b
    /\ \A v \in WordValue : /\ Bytes(v) \in Seq(Byte) /\ Len(Bytes(v)) = 2
                            /\ 256 * Bytes(v)[1] + Bytes(v)[2] = v
    /\ \A n \in Nat : /\ Zeros(n) \in Seq(Byte) /\ Len(Zeros(n)) = n
                      /\ \A k \in 1..n : Zeros(n)[k] = 0
<1>1. \A b \in Byte : <<b>> \in Seq(Byte) /\ Len(<<b>>) = 1 /\ <<b>>[1] = b
    OBVIOUS
<1>2. ASSUME NEW v \in WordValue
      PROVE  /\ Bytes(v) \in Seq(Byte) /\ Len(Bytes(v)) = 2
             /\ 256 * Bytes(v)[1] + Bytes(v)[2] = v
  <2> DEFINE high == v \div 256
             low == v % 256
  <2>1. v \in Nat /\ v < 65536
    <3>1. 2^16 = 65536
        OBVIOUS
    <3> QED
        BY <3>1 DEF WordValue
  <2>2. /\ high \in Nat /\ high < 256 /\ low \in Nat /\ low < 256
        /\ 256 * high + low = v
    BY <2>1
  <2>3. high \in Byte /\ low \in Byte
    BY <2>2, ByteRange
  <2>4. Bytes(v) = <<high, low>>
    BY DEF Bytes
  <2> HIDE DEF high, low
  <2> QED
    BY <2>2, <2>3, <2>4
<1>3. ASSUME NEW n \in Nat
      PROVE  /\ Zeros(n) \in Seq(Byte) /\ Len(Zeros(n)) = n
             /\ \A k \in 1..n : Zeros(n)[k] = 0
  <2>1. 0 \in Byte
    BY ByteRange
  <2> QED
    BY <2>1 DEF Zeros
<1> QED
    BY <1>1, <1>2, <1>3

\* The kinds of a line.
LEMMA Kinds ==
    ASSUME NEW ins \in Instr \cup Constante
    PROVE  \/ /\ ins[1] \in {"const", "address"} /\ ins[2] \in AnyRegister
              /\ ins[1] = "const" => ins[3] \in WordValue
              /\ ins[1] = "address" => ins[3] \in Nat \ {0}
           \/ ins[1] = "int" /\ ins[2] \in WordValue
           \/ ins[1] = "string" /\ ins[2] \in Seq(Byte \ {0})
           \/ ins \in Plain
    BY DEF Instr, Constante

\* An instruction without a value: its name, and as many registers as it takes.
LEMMA PlainShape ==
    ASSUME NEW ins \in Plain
    PROVE  /\ ~IsConst(ins) /\ ~IsData(ins)
           /\ ins[1] \in DOMAIN opcode
           /\ Len(ins) \in 1..3
           /\ \A k \in 2..Len(ins) : ins[k] \in AnyRegister
           /\ Tail(ins) \in Seq(AnyRegister) /\ Len(Tail(ins)) = Len(ins) - 1
           /\ \A k \in 2..Len(ins) : Tail(ins)[k - 1] = ins[k]
           /\ ins[1] \in NoOperand => Len(ins) = 1
           /\ ins[1] \in OneGeneral \cup OneAny => Len(ins) = 2
           /\ ins[1] \in TwoGeneral \cup TwoAny => Len(ins) = 3
<1>1. PICK n \in NoOperand \cup OneGeneral \cup OneAny \cup TwoGeneral \cup TwoAny :
        \/ n \in NoOperand /\ ins = <<n>>
        \/ n \in OneGeneral \cup OneAny /\ \E r \in AnyRegister : ins = <<n, r>>
        \/ n \in TwoGeneral \cup TwoAny /\ \E r, q \in AnyRegister : ins = <<n, r, q>>
    BY DEF Plain, AnyRegister
<1>2. n \in DOMAIN opcode /\ n \notin {"const", "address", "int", "string"}
    BY DEF opcode, NoOperand, OneGeneral, OneAny, TwoGeneral, TwoAny
<1>3. ins[1] = n
    BY <1>1
<1>4. ~IsConst(ins) /\ ~IsData(ins)
    BY <1>2, <1>3 DEF IsConst, IsData
<1>5. /\ n \in NoOperand => n \notin OneGeneral \cup OneAny \cup TwoGeneral \cup TwoAny
      /\ n \in OneGeneral \cup OneAny => n \notin TwoGeneral \cup TwoAny
    BY DEF NoOperand, OneGeneral, OneAny, TwoGeneral, TwoAny
<1>6. CASE n \in NoOperand /\ ins = <<n>>
    BY <1>2, <1>4, <1>5, <1>6
<1>7. CASE n \in OneGeneral \cup OneAny /\ \E r \in AnyRegister : ins = <<n, r>>
    BY <1>2, <1>4, <1>5, <1>7
<1>8. CASE n \in TwoGeneral \cup TwoAny /\ \E r, q \in AnyRegister : ins = <<n, r, q>>
    BY <1>2, <1>4, <1>5, <1>8
<1> QED
    BY <1>1, <1>6, <1>7, <1>8

\* A line takes at least one cell, but for nothing between.
LEMMA SizeNat ==
    ASSUME NEW ins \in Instr \cup Constante, NEW cell \in Nat
    PROVE  Size(ins, cell) \in Nat \ {0}
<1>1. trou(cell) \in Nat
    BY Holes
<1>2. CASE IsConst(ins)
  <2>1. Size(ins, cell) = 4 + trou(cell)
    BY <1>2 DEF Size, IsConst
  <2> QED
    BY <1>1, <2>1
<1>3. CASE ins[1] = "int"
    BY <1>1, <1>3 DEF Size, IsConst, Alignment, IsData
<1>4. CASE ins[1] = "string"
  <2>1. Len(ins[2]) \in Nat
    <3>1. ins[2] \in Seq(Byte \ {0})
        BY <1>4, Kinds, PlainShape DEF IsData
    <3> QED
        BY <3>1
  <2> QED
    BY <1>1, <1>4, <2>1 DEF Size, IsConst, Alignment, IsData
<1>5. CASE ins \in Plain
  <2>1. ~IsConst(ins) /\ ~IsData(ins) /\ Len(ins) \in Nat \ {0}
    BY <1>5, PlainShape
  <2> QED
    BY <2>1 DEF Size, IsData
<1> QED
    BY <1>2, <1>3, <1>4, <1>5, Kinds DEF IsConst

\* c[i] is the cell of line i, and each line begins behind the one before.
Laid(p, c) ==
    /\ c \in Seq(Nat) /\ Len(c) = Len(p) + 1
    /\ c[1] = 0
    /\ \A i \in 1..Len(p) : c[i + 1] = c[i] + Size(p[i], c[i])

\* cells lays the lines of a program one behind the other.
LEMMA CellsLaid ==
    ASSUME NEW p \in Program
    PROVE  Laid(p, cells(p))
<1> DEFINE n == Len(p)
           S == Seq(Nat) \ {<<>>}
           Next(s, i) == Append(s, s[Len(s)] + Size(p[i], s[Len(s)]))
           F == [i \in 1..n |-> [s \in S |-> Next(s, i)]]
           placed == CHOOSE f : f = [i \in 0..n |->
                        IF i = 0 THEN <<0>> ELSE Next(f[i - 1], i)]
           T == {i \in Nat : i <= n =>
                    /\ placed[i] \in Seq(Nat) /\ Len(placed[i]) = i + 1
                    /\ placed[i][1] = 0
                    /\ \A k \in 1..i : placed[i][k + 1] =
                            placed[i][k] + Size(p[k], placed[i][k])}
<1>1. n \in Nat /\ \A i \in 1..n : p[i] \in Instr \cup Constante
    BY DEF Program
<1>2. ASSUME NEW i \in 1..n, NEW s \in S
      PROVE  /\ Next(s, i) \in S /\ Len(Next(s, i)) = Len(s) + 1
             /\ \A k \in 1..Len(s) : Next(s, i)[k] = s[k]
             /\ Next(s, i)[Len(s) + 1] = s[Len(s)] + Size(p[i], s[Len(s)])
  <2>1. s \in Seq(Nat) /\ Len(s) \in Nat \ {0} /\ s[Len(s)] \in Nat
    BY <1>1
  <2>2. Size(p[i], s[Len(s)]) \in Nat
    BY <1>1, <2>1, SizeNat
  <2> DEFINE v == s[Len(s)] + Size(p[i], s[Len(s)])
  <2>3. v \in Nat
    BY <2>1, <2>2
  <2> HIDE DEF v
  <2>4. /\ Append(s, v) \in S /\ Len(Append(s, v)) = Len(s) + 1
        /\ \A k \in 1..Len(s) : Append(s, v)[k] = s[k]
        /\ Append(s, v)[Len(s) + 1] = v
    BY <2>1, <2>3
  <2> QED
    BY <2>4 DEF v
<1>3. F \in [1..n -> [S -> S]]
  <2> HIDE DEF Next
  <2> QED
    BY <1>2
<1>4. \E f : f = [i \in 0..n |-> IF i = 0 THEN <<0>> ELSE Next(f[i - 1], i)]
  <2>1. <<0>> \in S
    OBVIOUS
  <2> HIDE DEF F, S
  <2>2. PICK g : Iterates(g, n, S, <<0>>, F)
    BY <1>1, <1>3, <2>1, Recursion
  <2>3. ASSUME NEW i \in 1..n PROVE F[i][g[i - 1]] = Next(g[i - 1], i)
    <3>1. g[i - 1] \in S
        BY <1>1, <2>2 DEF Iterates
    <3> HIDE DEF Next
    <3> QED
        BY <3>1 DEF F
  <2> HIDE DEF Next
  <2>4. g = [i \in 0..n |-> g[i]]
    BY <2>2 DEF Iterates
  <2>5. \A i \in 0..n : g[i] = IF i = 0 THEN <<0>> ELSE Next(g[i - 1], i)
    <3> TAKE i \in 0..n
    <3>1. CASE i = 0
        BY <2>2, <3>1 DEF Iterates
    <3>2. CASE i # 0
      <4>1. i \in 1..n
        BY <1>1, <3>2
      <4> QED
        BY <2>2, <2>3, <3>2, <4>1 DEF Iterates
    <3> QED
        BY <3>1, <3>2
  <2>6. g = [i \in 0..n |-> IF i = 0 THEN <<0>> ELSE Next(g[i - 1], i)]
    BY <2>4, <2>5
  <2> QED
    BY <2>6
<1>5. placed = [i \in 0..n |-> IF i = 0 THEN <<0>> ELSE Next(placed[i - 1], i)]
    BY <1>4, Zenon
<1>6. cells(p) = placed[n]
    BY Zenon DEF cells
<1> HIDE DEF placed, F
<1>7. 0 \in T
  <2>1. placed[0] = <<0>>
    <3> HIDE DEF Next
    <3> QED
        BY <1>1, <1>5
  <2>2. /\ placed[0] \in Seq(Nat) /\ Len(placed[0]) = 0 + 1
        /\ placed[0][1] = 0
    BY <2>1
  <2>3. ~\E k : k \in 1..0
    OBVIOUS
  <2> QED
    BY <2>2, <2>3
<1>8. ASSUME NEW i \in T \cap Nat PROVE i + 1 \in T
  <2> SUFFICES ASSUME i + 1 <= n
        PROVE  /\ placed[i + 1] \in Seq(Nat) /\ Len(placed[i + 1]) = i + 2
               /\ placed[i + 1][1] = 0
               /\ \A k \in 1..(i + 1) : placed[i + 1][k + 1] =
                        placed[i + 1][k] + Size(p[k], placed[i + 1][k])
    <3>1. (i + 1) + 1 = i + 2 /\ i + 1 \in Nat
        OBVIOUS
    <3> HIDE DEF Next
    <3> QED
        BY <3>1
  <2> DEFINE s == placed[i]
  <2>1. /\ s \in Seq(Nat) /\ Len(s) = i + 1 /\ s[1] = 0
        /\ \A k \in 1..i : s[k + 1] = s[k] + Size(p[k], s[k])
    BY <1>8
  <2>2. i + 1 \in 1..n
    BY <1>1
  <2>3. placed[i + 1] = Next(s, i + 1)
    <3> HIDE DEF Next
    <3>1. i + 1 \in 0..n /\ i + 1 # 0 /\ (i + 1) - 1 = i
        BY <2>2
    <3> QED
        BY <1>5, <3>1
  <2>4. s \in S
    BY <2>1
  <2> HIDE DEF s
  <2>5. /\ Next(s, i + 1) \in S /\ Len(Next(s, i + 1)) = Len(s) + 1
        /\ \A k \in 1..Len(s) : Next(s, i + 1)[k] = s[k]
        /\ Next(s, i + 1)[Len(s) + 1] = s[Len(s)] + Size(p[i + 1], s[Len(s)])
    BY <1>2, <2>2, <2>4
  <2> HIDE DEF Next
  <2>6. Next(s, i + 1)[1] = 0
    BY <2>1, <2>5
  <2>7. ASSUME NEW k \in 1..(i + 1)
        PROVE Next(s, i + 1)[k + 1] =
                Next(s, i + 1)[k] + Size(p[k], Next(s, i + 1)[k])
    <3>1. Next(s, i + 1)[k] = s[k]
        BY <2>1, <2>5
    <3>2. CASE k = i + 1
        BY <2>1, <2>5, <3>1, <3>2
    <3>3. CASE k # i + 1
      <4>1. k \in 1..i /\ k + 1 \in 1..Len(s)
        BY <2>1, <3>3
      <4>2. Next(s, i + 1)[k + 1] = s[k + 1]
        BY <2>5, <4>1
      <4> QED
        BY <2>1, <3>1, <4>1, <4>2
    <3> QED
        BY <3>2, <3>3
  <2> QED
    BY <2>1, <2>3, <2>5, <2>6, <2>7
<1>9. n \in T
  <2> HIDE DEF T
  <2> QED
    BY <1>1, <1>7, <1>8, Induction
<1>10. placed[n] = cells(p)
    BY <1>6
<1> HIDE DEF Next
<1>11. /\ cells(p) \in Seq(Nat) /\ Len(cells(p)) = n + 1 /\ cells(p)[1] = 0
       /\ \A k \in 1..n : cells(p)[k + 1] = cells(p)[k] + Size(p[k], cells(p)[k])
    BY <1>1, <1>9, <1>10
<1> QED
    BY <1>11 DEF Laid

\* The opcodes and the register numbers are bytes.
LEMMA Opcodes ==
    /\ \A name \in DOMAIN opcode : opcode[name] \in Byte
    /\ \A r \in AnyRegister : r \in Byte
<1>1. \A name \in DOMAIN opcode : opcode[name] \in Nat /\ opcode[name] < 256
    BY DEF opcode
<1>2. \A r \in AnyRegister : r \in Nat /\ r < 256
    BY DEF AnyRegister, General, ID_SP, ID_BP, ID_AX, ID_BX, ID_CX, ID_DX
<1>3. \A name \in DOMAIN opcode : opcode[name] \in Byte
    BY <1>1, ByteRange
<1> QED
    BY <1>2, <1>3, ByteRange

\* Two sequences of bytes, one behind the other.
Joint(front, back) == front \o back
\* The elements of two sequences of bytes joined.
LEMMA Joined ==
    ASSUME NEW front \in Seq(Byte), NEW back \in Seq(Byte)
    PROVE  /\ Len(front) \in Nat /\ Len(back) \in Nat
           /\ Joint(front, back) \in Seq(Byte) /\ Len(Joint(front, back)) = Len(front) + Len(back)
           /\ \A k \in 1..Len(front) : Joint(front, back)[k] = front[k]
           /\ \A k \in 1..Len(back) : Joint(front, back)[Len(front) + k] = back[k]
<1>1. Len(front) \in Nat /\ Len(back) \in Nat
    OBVIOUS
<1>2. /\ front \o back \in Seq(Byte) /\ Len(front \o back) = Len(front) + Len(back)
      /\ \A k \in 1..(Len(front) + Len(back)) :
            (front \o back)[k] = IF k <= Len(front) THEN front[k] ELSE back[k - Len(front)]
    BY ConcatProperties
<1> QED
    BY <1>1, <1>2 DEF Joint

\* The value of a const: a number or an address.
ValueOf(p, c, i) ==
    IF p[i][1] = "const" THEN p[i][3] ELSE LabelAddress(p, c, p[i][3])

\* The bytes of const: the opcode, the register, the hole and the value.
LEMMA EncodeConst ==
    ASSUME NEW p \in Program, NEW c \in Seq(Nat), NEW i \in DOMAIN p, c[i] \in Nat,
           IsConst(p[i]),
           ValueOf(p, c, i) \in WordValue
    PROVE  /\ Encode(p, c, i) \in Seq(Byte)
           /\ Len(Encode(p, c, i)) = Size(p[i], c[i])
           /\ Encode(p, c, i)[1] = opcode["const"] /\ Encode(p, c, i)[2] = p[i][2]
           /\ 256 * Encode(p, c, i)[3 + trou(c[i])] + Encode(p, c, i)[4 + trou(c[i])]
                = ValueOf(p, c, i)
<1> DEFINE ins == p[i]
           value == ValueOf(p, c, i)
           t == trou(c[i])
           z == Zeros(t)
           b == Bytes(value)
           op == opcode[ins[1]]
           E == Joint(Joint(<<op, ins[2]>>, z), b)
<1>1. ins[1] \in {"const", "address"} /\ ins[2] \in AnyRegister
  <2>1. ins \in Instr \cup Constante
    BY LinesOf
  <2> QED
    BY <2>1, Kinds, PlainShape DEF IsConst
<1>2. op = opcode["const"] /\ op \in Byte /\ ins[2] \in Byte
  <2>1. /\ {"const", "address"} \subseteq DOMAIN opcode
        /\ opcode["address"] = opcode["const"]
    BY DEF opcode
  <2> QED
    BY <1>1, <2>1, Opcodes
<1>3. t \in 0..1 /\ t \in Nat
    BY Holes
<1>4. z \in Seq(Byte) /\ Len(z) = t
    BY <1>3, ByteSequences
<1>5. b \in Seq(Byte) /\ Len(b) = 2 /\ 256 * b[1] + b[2] = value
    BY ByteSequences
<1>6. Encode(p, c, i) = E
    BY <1>1 DEF Encode, IsConst, Joint, ValueOf
<1>7. Size(ins, c[i]) = 4 + t
    BY <1>1 DEF Size, IsConst
<1> HIDE DEF z, b, t, op
<1>8. /\ E \in Seq(Byte) /\ Len(E) = 4 + t
      /\ E[1] = op /\ E[2] = ins[2] /\ E[3 + t] = b[1] /\ E[4 + t] = b[2]
  <2> DEFINE h == <<op, ins[2]>>
             hz == Joint(h, z)
  <2>1. h \in Seq(Byte) /\ Len(h) = 2 /\ h[1] = op /\ h[2] = ins[2]
    BY <1>2
  <2> HIDE DEF h
  <2>2. hz \in Seq(Byte) /\ Len(hz) = 2 + t /\ hz[1] = op /\ hz[2] = ins[2]
    <3>1. /\ Joint(h, z) \in Seq(Byte) /\ Len(Joint(h, z)) = Len(h) + Len(z)
          /\ \A k \in 1..Len(h) : Joint(h, z)[k] = h[k]
        BY <1>4, <2>1, Joined
    <3> QED
        BY <1>3, <1>4, <2>1, <3>1
  <2> HIDE DEF hz
  <2>3. /\ Joint(hz, b) \in Seq(Byte) /\ Len(Joint(hz, b)) = 4 + t
        /\ Joint(hz, b)[1] = op /\ Joint(hz, b)[2] = ins[2]
        /\ Joint(hz, b)[3 + t] = b[1] /\ Joint(hz, b)[4 + t] = b[2]
    <3>1. /\ Joint(hz, b) \in Seq(Byte) /\ Len(Joint(hz, b)) = Len(hz) + Len(b)
          /\ \A k \in 1..Len(hz) : Joint(hz, b)[k] = hz[k]
          /\ \A k \in 1..Len(b) : Joint(hz, b)[Len(hz) + k] = b[k]
        BY <1>5, <2>2, Joined
    <3>2. Len(hz) + 1 = 3 + t /\ Len(hz) + 2 = 4 + t
        BY <1>3, <2>2
    <3> QED
        BY <1>3, <1>5, <2>2, <3>1, <3>2
  <2> QED
    BY <2>3 DEF h, hz
<1> HIDE DEF E
<1> QED
    BY <1>2, <1>5, <1>6, <1>7, <1>8 DEF t

\* The bytes of the other instructions: the opcode and the registers.
LEMMA EncodePlain ==
    ASSUME NEW p \in Program, NEW c, NEW i \in DOMAIN p, p[i] \in Plain
    PROVE  /\ Encode(p, c, i) \in Seq(Byte)
           /\ Len(Encode(p, c, i)) = Size(p[i], c[i])
           /\ Encode(p, c, i)[1] = opcode[p[i][1]]
           /\ \A k \in 2..Len(p[i]) : Encode(p, c, i)[k] = p[i][k]
<1> DEFINE ins == p[i]
           h == <<opcode[ins[1]]>>
           t == Tail(ins)
<1>1. /\ ~IsConst(ins) /\ ~IsData(ins)
      /\ opcode[ins[1]] \in Byte
      /\ Len(ins) \in 1..3
      /\ t \in Seq(AnyRegister) /\ Len(t) = Len(ins) - 1
      /\ \A k \in 2..Len(ins) : t[k - 1] = ins[k]
    BY PlainShape, Opcodes
<1>2. Encode(p, c, i) = Joint(h, t) /\ Size(ins, c[i]) = Len(ins)
    BY <1>1 DEF Encode, Size, IsData, Joint
<1>3. t \in Seq(Byte)
  <2>1. \A k \in 1..Len(t) : t[k] \in Byte
    <3>1. \A k \in 1..Len(t) : t[k] \in AnyRegister
        BY <1>1, ElementOfSeq
    <3> QED
        BY <3>1, Opcodes
  <2> HIDE DEF t
  <2>2. t = [k \in 1..Len(t) |-> t[k]] /\ Len(t) \in Nat
    BY <1>1
  <2> QED
    BY <2>1, <2>2
<1>4. h \in Seq(Byte) /\ Len(h) = 1 /\ h[1] = opcode[ins[1]]
    BY <1>1
<1> HIDE DEF h, t
<1>5. /\ Joint(h, t) \in Seq(Byte) /\ Len(Joint(h, t)) = Len(ins)
      /\ Joint(h, t)[1] = opcode[ins[1]]
      /\ \A k \in 2..Len(ins) : Joint(h, t)[k] = t[k - 1]
  <2>1. /\ Joint(h, t) \in Seq(Byte) /\ Len(Joint(h, t)) = Len(h) + Len(t)
        /\ \A k \in 1..Len(h) : Joint(h, t)[k] = h[k]
        /\ \A k \in 1..Len(t) : Joint(h, t)[Len(h) + k] = t[k]
    BY <1>3, <1>4, Joined
  <2>2. ASSUME NEW k \in 2..Len(ins) PROVE Joint(h, t)[k] = t[k - 1]
    <3>1. k - 1 \in 1..Len(t) /\ Len(h) + (k - 1) = k
        BY <1>1, <1>4
    <3> QED
        BY <2>1, <3>1
  <2> QED
    BY <1>1, <1>4, <2>1, <2>2
<1> QED
    BY <1>1, <1>2, <1>5

\* The bytes of the data.
LEMMA EncodeData ==
    ASSUME NEW p \in Program, NEW c \in Seq(Nat), NEW i \in DOMAIN p, c[i] \in Nat,
           IsData(p[i])
    PROVE  /\ Encode(p, c, i) \in Seq(Byte)
           /\ Len(Encode(p, c, i)) = Size(p[i], c[i])
<1> DEFINE ins == p[i]
           t == trou(c[i])
           z == Zeros(t)
<1>1. ins \in Instr \cup Constante
    BY LinesOf
<1>2. t \in Nat /\ z \in Seq(Byte) /\ Len(z) = t
  <2>1. t \in Nat
    BY Holes
  <2> QED
    BY <2>1, ByteSequences
<1> HIDE DEF t, z
<1>3. CASE ins[1] = "int"
  <2> DEFINE b == Bytes(ins[2])
  <2>1. ins[2] \in WordValue
    BY <1>1, <1>3, Kinds, PlainShape DEF IsData
  <2>2. b \in Seq(Byte) /\ Len(b) = 2
    BY <2>1, ByteSequences
  <2>3. Encode(p, c, i) = Joint(z, b) /\ Size(ins, c[i]) = t + 2
    BY <1>3 DEF Encode, Size, IsConst, Alignment, IsData, Joint, t, z
  <2> HIDE DEF b
  <2>4. Joint(z, b) \in Seq(Byte) /\ Len(Joint(z, b)) = Len(z) + Len(b)
    BY <1>2, <2>2, Joined
  <2> QED
    BY <1>2, <2>2, <2>3, <2>4
<1>4. CASE ins[1] = "string"
  <2> DEFINE s == ins[2]
             e == <<0>>
             zs == Joint(z, s)
  <2>1. s \in Seq(Byte)
    <3>1. s \in Seq(Byte \ {0})
        BY <1>1, <1>4, Kinds, PlainShape DEF IsData
    <3> QED
        BY <3>1
  <2>2. e \in Seq(Byte) /\ Len(e) = 1
    <3>1. 0 \in Byte
        BY ByteRange
    <3> QED
        BY <3>1
  <2>3. Encode(p, c, i) = Joint(Joint(z, s), e) /\ Size(ins, c[i]) = t + Len(s) + 1
    BY <1>4 DEF Encode, Size, IsConst, Alignment, IsData, Joint, t, z
  <2> HIDE DEF s, e
  <2>4. zs \in Seq(Byte) /\ Len(zs) = t + Len(s)
    BY <1>2, <2>1, Joined
  <2> HIDE DEF zs
  <2>5. Joint(zs, e) \in Seq(Byte) /\ Len(Joint(zs, e)) = Len(zs) + Len(e)
    BY <2>2, <2>4, Joined
  <2>6. Len(Joint(zs, e)) = t + Len(s) + 1
    BY <1>2, <2>1, <2>2, <2>4, <2>5
  <2> QED
    BY <2>3, <2>5, <2>6 DEF zs
<1> QED
    BY <1>3, <1>4 DEF IsData

\* Every line becomes as many bytes as it was counted.
LEMMA Encoded ==
    ASSUME NEW p \in Program, Addressed(p), NEW i \in DOMAIN p
    PROVE  /\ Encode(p, cells(p), i) \in Seq(Byte)
           /\ Len(Encode(p, cells(p), i)) = Size(p[i], cells(p)[i])
<1> DEFINE c == cells(p)
<1>1. Laid(p, c)
    BY CellsLaid
<1>2. c \in Seq(Nat) /\ i \in 1..Len(p) /\ p[i] \in Instr \cup Constante
    BY <1>1 DEF Program, Laid
<1>3. c[i] \in Nat
    BY <1>1, <1>2 DEF Laid
<1>4. CASE IsConst(p[i])
  <2>1. ValueOf(p, c, i) \in WordValue
    <3>1. p[i][1] = "const" => p[i][3] \in WordValue
        BY <1>2, Kinds, PlainShape DEF IsConst
    <3>2. p[i][1] = "address" => LabelAddress(p, c, p[i][3]) \in WordValue
        BY DEF Addressed
    <3> QED
        BY <1>4, <3>1, <3>2 DEF IsConst, ValueOf
  <2> HIDE DEF c
  <2> QED
    BY <1>2, <1>3, <1>4, <2>1, EncodeConst DEF c
<1>5. CASE IsData(p[i])
    BY <1>2, <1>3, <1>5, EncodeData
<1>6. CASE p[i] \in Plain
    BY <1>6, EncodePlain
<1> QED
    BY <1>2, <1>4, <1>5, <1>6, Kinds DEF IsConst, IsData

\* A line begins behind every line in front of it.
LEMMA Ordered ==
    ASSUME NEW p \in Program, NEW c, Laid(p, c)
    PROVE  /\ \A i \in 1..(Len(p) + 1) : c[i] \in Nat
           /\ \A i \in 1..Len(p) : c[i] < c[i + 1]
           /\ \A i, j \in 1..(Len(p) + 1) : i < j => c[i + 1] <= c[j]
<1>1. \A i \in 1..(Len(p) + 1) : c[i] \in Nat
    BY DEF Laid, Program
<1>2. ASSUME NEW i \in 1..Len(p) PROVE c[i] < c[i + 1]
  <2>1. p[i] \in Instr \cup Constante /\ c[i] \in Nat
    BY <1>1 DEF Program
  <2>2. Size(p[i], c[i]) \in Nat \ {0}
    BY <2>1, SizeNat
  <2>3. c[i + 1] = c[i] + Size(p[i], c[i])
    BY DEF Laid
  <2> QED
    BY <2>1, <2>2, <2>3
<1> DEFINE T == {j \in Nat : \A i \in 1..Len(p) :
                    i + 1 + j <= Len(p) + 1 => c[i + 1] <= c[i + 1 + j]}
<1>3. Len(p) \in Nat
    BY DEF Program
<1>4. 0 \in T
    BY <1>1, <1>3
<1>5. ASSUME NEW j \in T \cap Nat PROVE j + 1 \in T
  <2> SUFFICES ASSUME NEW i \in 1..Len(p), i + 1 + (j + 1) <= Len(p) + 1
               PROVE  c[i + 1] <= c[i + 1 + (j + 1)]
    OBVIOUS
  <2>1. c[i + 1] <= c[i + 1 + j]
    BY <1>3, <1>5
  <2>2. i + 1 + j \in 1..Len(p) /\ (i + 1 + j) + 1 = i + 1 + (j + 1)
    BY <1>3
  <2>3. c[i + 1 + j] < c[i + 1 + (j + 1)]
    BY <1>2, <2>2
  <2>4. c[i + 1] \in Nat /\ c[i + 1 + j] \in Nat /\ c[i + 1 + (j + 1)] \in Nat
    BY <1>1, <1>3, <2>2
  <2> QED
    BY <2>1, <2>3, <2>4
<1>6. Nat \subseteq T
  <2> HIDE DEF T
  <2> QED
    BY <1>4, <1>5, Induction
<1>7. ASSUME NEW i \in 1..(Len(p) + 1), NEW j \in 1..(Len(p) + 1), i < j
      PROVE  c[i + 1] <= c[j]
  <2>1. j - i - 1 \in Nat /\ i \in 1..Len(p) /\ i + 1 + (j - i - 1) = j
    BY <1>3, <1>7
  <2>2. j - i - 1 \in T
    BY <1>6, <2>1
  <2> QED
    BY <1>3, <2>1, <2>2
<1> QED
    BY <1>1, <1>2, <1>7

\* Every cell of the code is one of exactly one line.
LEMMA LineOf ==
    ASSUME NEW p \in Program, NEW c, Laid(p, c), NEW a \in 1..c[Len(p) + 1]
    PROVE  /\ \E i \in 1..Len(p) : c[i] < a /\ a <= c[i + 1]
           /\ \A i, j \in 1..Len(p) :
                c[i] < a /\ a <= c[i + 1] /\ c[j] < a /\ a <= c[j + 1] => i = j
<1>1. /\ \A i \in 1..(Len(p) + 1) : c[i] \in Nat
      /\ \A i, j \in 1..(Len(p) + 1) : i < j => c[i + 1] <= c[j]
      /\ Len(p) \in Nat /\ c[1] = 0
  <2>1. Len(p) \in Nat /\ c[1] = 0
    BY DEF Laid, Program
  <2> QED
    BY <2>1, Ordered
<1> DEFINE T == {j \in Nat : j <= Len(p) /\ a <= c[j + 1]
                    => \E i \in 1..Len(p) : c[i] < a /\ a <= c[i + 1]}
<1>2. 0 \in T
    BY <1>1
<1>3. ASSUME NEW j \in T \cap Nat PROVE j + 1 \in T
  <2> SUFFICES ASSUME j + 1 <= Len(p), a <= c[(j + 1) + 1]
               PROVE  \E i \in 1..Len(p) : c[i] < a /\ a <= c[i + 1]
    OBVIOUS
  <2>1. j + 1 \in 1..Len(p) /\ c[j + 1] \in Nat
    BY <1>1
  <2>2. CASE c[j + 1] < a
    BY <2>1, <2>2
  <2>3. CASE a <= c[j + 1]
    BY <1>1, <1>3, <2>1, <2>3
  <2> QED
    BY <2>1, <2>2, <2>3
<1>4. Len(p) \in T
  <2> HIDE DEF T
  <2> QED
    BY <1>1, <1>2, <1>3, Induction
<1>5. \E i \in 1..Len(p) : c[i] < a /\ a <= c[i + 1]
    BY <1>1, <1>4
<1>6. ASSUME NEW i \in 1..Len(p), NEW j \in 1..Len(p), i < j,
             a <= c[i + 1], c[j] < a
      PROVE  FALSE
  <2>1. c[i + 1] <= c[j] /\ c[i + 1] \in Nat /\ c[j] \in Nat
    BY <1>1, <1>6
  <2> QED
    BY <1>6, <2>1
<1> QED
    BY <1>1, <1>5, <1>6

\* The file holds the bytes of each line where the line was laid, and two cells
\* for the label pile.
LEMMA ImageCells ==
    ASSUME NEW p \in Program, Addressed(p)
    PROVE  /\ Image(p) \in Seq(Byte)
           /\ Pile(p) \in Nat /\ Pile(p) % 2 = 0 /\ cells(p)[Len(p) + 1] <= Pile(p)
           /\ Len(Image(p)) = Pile(p) + 2
           /\ \A i \in 1..Len(p) : \A k \in 1..Size(p[i], cells(p)[i]) :
                Image(p)[cells(p)[i] + k] = Encode(p, cells(p), i)[k]
           /\ \A k \in 1..(Pile(p) + 2 - cells(p)[Len(p) + 1]) :
                Image(p)[cells(p)[Len(p) + 1] + k] = 0
<1> DEFINE c == cells(p)
           n == Len(p)
           size == c[n + 1]
           line(a) == CHOOSE i \in DOMAIN p : c[i] < a /\ a <= c[i + 1]
           code == [a \in 1..size |-> Encode(p, c, line(a))[a - c[line(a)]]]
           rest == Zeros(PileBehind(c) + 2 - size)
<1>1. Laid(p, c) /\ n \in Nat /\ DOMAIN p = 1..n
    BY CellsLaid DEF Program
<1>2. /\ \A i \in 1..(n + 1) : c[i] \in Nat
      /\ \A i \in 1..n : c[i] < c[i + 1] /\ c[i + 1] = c[i] + Size(p[i], c[i])
      /\ Len(c) = n + 1 /\ size \in Nat
  <2>1. \A i \in 1..(n + 1) : c[i] \in Nat
    BY <1>1, Ordered
  <2>2. \A i \in 1..n : c[i] < c[i + 1]
    BY <1>1, Ordered
  <2>3. Len(c) = n + 1 /\ \A i \in 1..n : c[i + 1] = c[i] + Size(p[i], c[i])
    BY <1>1 DEF Laid
  <2> QED
    BY <1>1, <2>1, <2>2, <2>3
<1>3. ASSUME NEW i \in 1..n
      PROVE  /\ Encode(p, c, i) \in Seq(Byte)
             /\ Len(Encode(p, c, i)) = c[i + 1] - c[i]
  <2>1. Len(Encode(p, c, i)) = Size(p[i], c[i]) /\ Encode(p, c, i) \in Seq(Byte)
    BY <1>1, Encoded
  <2>2. c[i] \in Nat /\ c[i + 1] \in Nat /\ c[i + 1] = c[i] + Size(p[i], c[i])
    BY <1>1, <1>2
  <2>3. Len(Encode(p, c, i)) \in Nat
    BY <2>1
  <2> QED
    BY <2>1, <2>2, <2>3
<1> HIDE DEF c
<1>4. ASSUME NEW a \in 1..size
      PROVE  line(a) \in 1..n /\ c[line(a)] < a /\ a <= c[line(a) + 1]
  <2>1. \E i \in 1..n : c[i] < a /\ a <= c[i + 1]
    BY <1>1, LineOf
  <2> QED
    BY <1>1, <2>1
<1>5. ASSUME NEW i \in 1..n, NEW k \in 1..(c[i + 1] - c[i])
      PROVE  c[i] + k \in 1..size /\ line(c[i] + k) = i
  <2>1. c[i] \in Nat /\ c[i + 1] \in Nat /\ c[i + 1] <= size
    <3>1. \A j \in 1..(n + 1) : i < j => c[i + 1] <= c[j]
        BY <1>1, Ordered
    <3> QED
        BY <1>1, <1>2, <3>1
  <2>2. c[i] + k \in 1..size /\ c[i] < c[i] + k /\ c[i] + k <= c[i + 1]
    BY <1>2, <2>1
  <2>3. /\ line(c[i] + k) \in 1..n
        /\ c[line(c[i] + k)] < c[i] + k /\ c[i] + k <= c[line(c[i] + k) + 1]
    BY <1>4, <2>2
  <2> HIDE DEF line
  <2>4. line(c[i] + k) = i
    BY <1>1, <2>2, <2>3, LineOf
  <2> QED
    BY <2>2, <2>4
<1>6. ASSUME NEW a \in 1..size
      PROVE  Encode(p, c, line(a))[a - c[line(a)]] \in Byte
  <2>1. line(a) \in 1..n /\ c[line(a)] < a /\ a <= c[line(a) + 1]
    BY <1>4
  <2> HIDE DEF line
  <2>2. c[line(a)] \in Nat /\ c[line(a) + 1] \in Nat
    BY <1>1, <1>2, <2>1
  <2>3. a - c[line(a)] \in 1..(c[line(a) + 1] - c[line(a)])
    BY <1>2, <2>1, <2>2
  <2>4. /\ Encode(p, c, line(a)) \in Seq(Byte)
        /\ Len(Encode(p, c, line(a))) = c[line(a) + 1] - c[line(a)]
    BY <1>3, <2>1
  <2> HIDE DEF line
  <2> QED
    BY <2>3, <2>4, ElementOfSeq
<1> HIDE DEF line
<1>7. code \in Seq(Byte) /\ Len(code) = size
    BY <1>2, <1>6
<1>8. /\ PileBehind(c) \in Nat /\ PileBehind(c) % 2 = 0
      /\ size <= PileBehind(c)
  <2>1. trou(size) \in 0..1 /\ (size + trou(size)) % 2 = 0
    BY <1>2, Holes
  <2>2. PileBehind(c) = size + trou(size)
    BY <1>2 DEF PileBehind
  <2> QED
    BY <1>2, <2>1, <2>2
<1>9. /\ rest \in Seq(Byte) /\ Len(rest) = PileBehind(c) + 2 - size
      /\ \A k \in 1..(PileBehind(c) + 2 - size) : rest[k] = 0
  <2>1. PileBehind(c) + 2 - size \in Nat
    <3>1. size \in Nat /\ PileBehind(c) \in Nat /\ size <= PileBehind(c)
        BY <1>2, <1>8
    <3> QED
        BY <3>1
  <2> QED
    BY <2>1, ByteSequences
<1>10. Image(p) = Joint(code, rest)
    BY <1>1 DEF Image, Joint, c, line
<1>11. Pile(p) = PileBehind(c)
    BY DEF Pile, c
<1> HIDE DEF rest
<1>12. ASSUME NEW i \in 1..n, NEW k \in 1..(c[i + 1] - c[i])
       PROVE  code[c[i] + k] = Encode(p, c, i)[k]
  <2>1. c[i] + k \in 1..size /\ line(c[i] + k) = i
    BY <1>5
  <2>2. (c[i] + k) - c[i] = k
    BY <1>1, <1>2
  <2> QED
    BY <2>1, <2>2
<1> HIDE DEF code
<1>13. /\ Joint(code, rest) \in Seq(Byte)
       /\ Len(Joint(code, rest)) = Len(code) + Len(rest)
       /\ \A k \in 1..Len(code) : Joint(code, rest)[k] = code[k]
    BY <1>7, <1>9, Joined
<1>14. ASSUME NEW k \in 1..(Pile(p) + 2 - size)
       PROVE  Image(p)[size + k] = 0
  <2>1. rest[k] = 0 /\ k \in 1..Len(rest)
    BY <1>9, <1>11
  <2>2. \A l \in 1..Len(rest) : Joint(code, rest)[Len(code) + l] = rest[l]
    BY <1>7, <1>9, Joined
  <2>3. Joint(code, rest)[Len(code) + k] = 0
    BY <2>1, <2>2
  <2> QED
    BY <1>7, <1>10, <2>3
<1>15. ASSUME NEW i \in 1..n, NEW k \in 1..Size(p[i], c[i])
       PROVE  Image(p)[c[i] + k] = Encode(p, c, i)[k]
  <2>1. Size(p[i], c[i]) = c[i + 1] - c[i]
    <3>1. c[i] \in Nat /\ c[i + 1] \in Nat /\ c[i + 1] = c[i] + Size(p[i], c[i])
        BY <1>1, <1>2
    <3>2. p[i] \in Instr \cup Constante
        BY DEF Program
    <3>3. Size(p[i], c[i]) \in Nat
        BY <3>1, <3>2, SizeNat
    <3> QED
        BY <3>1, <3>3
  <2>2. c[i] + k \in 1..Len(code)
    BY <1>5, <1>7, <2>1
  <2>3. Joint(code, rest)[c[i] + k] = code[c[i] + k]
    BY <1>13, <2>2
  <2> QED
    BY <1>10, <1>12, <2>1, <2>3
<1>16. Len(code) + Len(rest) = PileBehind(c) + 2
    BY <1>2, <1>7, <1>8, <1>9
<1> QED
    BY <1>8, <1>10, <1>11, <1>13, <1>15, <1>16, <1>14 DEF c

\* The same without what the cells behind the code hold.
LEMMA ImageOf ==
    ASSUME NEW p \in Program, Addressed(p)
    PROVE  /\ Image(p) \in Seq(Byte)
           /\ Pile(p) \in Nat /\ Pile(p) % 2 = 0 /\ cells(p)[Len(p) + 1] <= Pile(p)
           /\ Len(Image(p)) = Pile(p) + 2
           /\ \A i \in 1..Len(p) : \A k \in 1..Size(p[i], cells(p)[i]) :
                Image(p)[cells(p)[i] + k] = Encode(p, cells(p), i)[k]
  BY ImageCells
=============================================================================
