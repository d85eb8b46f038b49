---------------------------- MODULE NumericsProofs ----------------------------
(* Theorems about Numerics, for integers, words, vectors and matrices of any      *)
(* widths and sizes.  What the loops of the operators compute is proved by         *)
(* induction over their turns.                                                     *)
EXTENDS Numerics, FiniteSetTheorems, SequenceTheorems, TLAPS
-------------------------------------------------------------------------------
(* Naturals.                                                                      *)

\* A set of naturals that is not empty has a least one.
LEMMA LeastExists ==
    ASSUME NEW T, T \subseteq Nat, T # {}
    PROVE  \E x \in T : \A y \in T : x <= y
<1> DEFINE R == OpToRel(<, Nat)
<1>1. IsWellFoundedOn(R, Nat)  BY NatLessThanWellFounded
<1>2. \E x \in T : \A y \in T : ~ (<<y, x>> \in R)
  <2> HIDE DEF R
  <2> QED BY <1>1, WFMin
<1>3. \A x, y \in Nat : <<y, x>> \in R <=> y < x  BY DEF OpToRel
<1> HIDE DEF R
<1>4. PICK x \in T : \A y \in T : ~ (<<y, x>> \in R)  BY <1>2
<1>5. ASSUME NEW y \in T PROVE x <= y
  <2>1. x \in Nat /\ y \in Nat  OBVIOUS
  <2>2. ~ (y < x)  BY <1>3, <1>4, <2>1
  <2> QED BY <2>1, <2>2
<1> QED BY <1>5

\* Induction up to N, with a set for the formula.
LEMMA InductionUpTo ==
    ASSUME NEW N \in Nat, NEW E, 0 \in E,
           \A n \in 1 .. N : n - 1 \in E => n \in E
    PROVE  \A n \in 0 .. N : n \in E
<1> DEFINE T == {n \in 0 .. N : n \notin E}
<1>1. SUFFICES ASSUME T # {} PROVE FALSE  OBVIOUS
<1>2. T \subseteq Nat  OBVIOUS
<1>3. PICK n \in T : \A m \in T : n <= m
  <2> HIDE DEF T
  <2> QED BY <1>1, <1>2, LeastExists
<1>4. n \in 1 .. N /\ n - 1 \in 0 .. N /\ n - 1 \notin T  BY <1>3
<1> QED BY <1>3, <1>4

-------------------------------------------------------------------------------
(* Powers of two: what the provers do not know of them comes from counting the    *)
(* subsets of a set.                                                              *)

LEMMA PowerCounts ==
    ASSUME NEW n \in Nat
    PROVE  /\ IsFiniteSet(SUBSET (1 .. n)) /\ Cardinality(SUBSET (1 .. n)) = 2 ^ n
           /\ 2 ^ n \in Nat
<1>1. IsFiniteSet(1 .. n) /\ Cardinality(1 .. n) = n  BY FS_Interval
<1>2. Cardinality(SUBSET (1 .. n)) = 2 ^ n /\ IsFiniteSet(SUBSET (1 .. n))  BY <1>1, FS_SUBSET
<1> QED BY <1>2, FS_CardinalityType

LEMMA PowerNext ==
    ASSUME NEW n \in Nat
    PROVE  2 ^ (n + 1) = 2 * 2 ^ n
<1> DEFINE A == SUBSET (1 .. n)
           B == {s \cup {n + 1} : s \in A}
           f == [s \in A |-> s \cup {n + 1}]
<1>1. SUBSET (1 .. n + 1) = A \cup B
  <2>1. ASSUME NEW s \in SUBSET (1 .. n + 1), n + 1 \in s PROVE s \in B
    <3>1. s \ {n + 1} \in A /\ s = (s \ {n + 1}) \cup {n + 1}  BY <2>1
    <3> QED BY <3>1
  <2>2. ASSUME NEW s \in SUBSET (1 .. n + 1), n + 1 \notin s PROVE s \in A
    <3>1. \A x \in 1 .. n + 1 : x = n + 1 \/ x \in 1 .. n  OBVIOUS
    <3> QED BY <2>2, <3>1
  <2>3. \A x \in 1 .. n : x \in 1 .. n + 1  OBVIOUS
  <2>4. n + 1 \in 1 .. n + 1  OBVIOUS
  <2>5. A \subseteq SUBSET (1 .. n + 1)  BY <2>3
  <2>6. B \subseteq SUBSET (1 .. n + 1)  BY <2>4, <2>5
  <2> HIDE DEF A, B
  <2> QED BY <2>1, <2>2, <2>5, <2>6
<1>2. A \cap B = {}
  <2>1. n + 1 \notin 1 .. n  OBVIOUS
  <2> QED BY <2>1
<1>3. IsFiniteSet(A) /\ Cardinality(A) = 2 ^ n /\ 2 ^ n \in Nat  BY PowerCounts
<1>4. f \in Bijection(A, B)
  <2>1. f \in [A -> B]  OBVIOUS
  <2>2. \A s, t \in A : s \cup {n + 1} = t \cup {n + 1} => s = t
    <3>1. n + 1 \notin 1 .. n  OBVIOUS
    <3>2. \A s \in A : s = (s \cup {n + 1}) \ {n + 1}  BY <3>1
    <3> QED BY <3>2, Zenon
  <2>3. IsInjective(f)  BY <2>1, <2>2 DEF IsInjective
  <2>4. \A b \in B : \E s \in A : f[s] = b  OBVIOUS
  <2> HIDE DEF f, A, B
  <2> QED BY <2>1, <2>3, <2>4 DEF Bijection, Injection, Surjection
<1>5. IsFiniteSet(B) /\ Cardinality(B) = 2 ^ n
  <2>1. ExistsBijection(A, B)  BY <1>4, Zenon DEF ExistsBijection
  <2> HIDE DEF A, B
  <2> QED BY <1>3, <2>1, FS_Bijection
<1> HIDE DEF A, B
<1>6. Cardinality(A \cup B) = Cardinality(A) + Cardinality(B) - Cardinality({})
  BY <1>2, <1>3, <1>5, FS_Union
<1>7. Cardinality({}) = 0  BY FS_EmptySet
<1>8. Cardinality(SUBSET (1 .. n + 1)) = 2 ^ (n + 1)  BY PowerCounts
<1> DEFINE p == 2 ^ n
           q == 2 ^ (n + 1)
<1>9. p \in Nat /\ q = p + p - 0  BY <1>1, <1>3, <1>5, <1>6, <1>7, <1>8
<1> HIDE DEF p, q
<1>10. q = 2 * p  BY <1>9
<1> QED BY <1>10 DEF p, q

\* A power of two is positive, and grows with its exponent.
LEMMA PowerGrows ==
    ASSUME NEW N \in Nat
    PROVE  \A n \in 0 .. N : /\ 2 ^ n \in Nat /\ 2 ^ n >= 1
                             /\ \A m \in 0 .. n : 2 ^ m <= 2 ^ n
<1> DEFINE E == {n \in 0 .. N : 2 ^ n \in Nat /\ 2 ^ n >= 1 /\ \A m \in 0 .. n : 2 ^ m <= 2 ^ n}
<1>1. 0 \in E
  <2>1. \A m \in 0 .. 0 : m = 0  OBVIOUS
  <2>2. 2 ^ 0 = 1 /\ 0 \in 0 .. N  OBVIOUS
  <2>3. \A m \in 0 .. 0 : 2 ^ m = 1  BY <2>1, <2>2
  <2>4. 1 \in Nat /\ 1 >= 1 /\ \A m \in 0 .. 0 : 2 ^ m <= 1  BY <2>3
  <2> QED BY <2>2, <2>4
<1>2. ASSUME NEW n \in 1 .. N, n - 1 \in E PROVE n \in E
  <2>1. n - 1 \in Nat /\ (n - 1) + 1 = n /\ n \in 0 .. N /\ n \in Nat  OBVIOUS
  <2>2. 2 ^ n = 2 * 2 ^ (n - 1)  BY <2>1, PowerNext
  <2>3. 2 ^ (n - 1) \in Nat /\ 2 ^ (n - 1) >= 1 /\ \A m \in 0 .. n - 1 : 2 ^ m <= 2 ^ (n - 1)
    BY <1>2
  <2>4. 2 ^ n \in Nat /\ 2 ^ n >= 1 /\ 2 ^ (n - 1) <= 2 ^ n  BY <2>2, <2>3
  <2>5. ASSUME NEW m \in 0 .. n PROVE 2 ^ m <= 2 ^ n
    <3>1. CASE m = n  BY <2>4, <3>1
    <3>2. CASE m # n
      <4>1. m \in 0 .. n - 1 /\ m \in Nat  BY <3>2
      <4>2. 2 ^ m <= 2 ^ (n - 1) /\ 2 ^ m \in Nat  BY <2>3, <4>1, PowerCounts
      <4> QED BY <2>3, <2>4, <4>2
    <3> QED BY <3>1, <3>2
  <2> QED BY <2>1, <2>4, <2>5
<1> HIDE DEF E
<1>3. \A n \in 0 .. N : n \in E  BY <1>1, <1>2, InductionUpTo
<1> QED BY <1>3 DEF E

LEMMA Powers ==
    ASSUME NEW n \in Nat
    PROVE  /\ 2 ^ n \in Nat \ {0} /\ 2 ^ (n + 1) = 2 * 2 ^ n
           /\ \A m \in 0 .. n : 2 ^ m \in Nat \ {0} /\ 2 ^ m <= 2 ^ n
<1>1. n \in 0 .. n /\ \A m \in 0 .. n : m \in 0 .. n  OBVIOUS
<1> QED BY <1>1, PowerGrows, PowerNext
-------------------------------------------------------------------------------
(* Division.                                                                      *)

LEMMA Division ==
    ASSUME NEW n \in Int, NEW d \in Nat \ {0}
    PROVE  /\ n \div d \in Int /\ n % d \in 0 .. d - 1 /\ n % d \in Nat
           /\ n = (n \div d) * d + (n % d)
           /\ n >= 0 => n \div d \in Nat
<1>1. n \div d \in Int /\ n % d \in 0 .. d - 1  OBVIOUS
<1>2. n = (n \div d) * d + (n % d)  OBVIOUS
<1>3. n >= 0 => n \div d \in Nat  OBVIOUS
<1> QED BY <1>1, <1>2, <1>3

LEMMA Quotients ==
    ASSUME NEW d \in Nat \ {0}, NEW j \in Int, NEW k \in Int,
           NEW r \in 0 .. d - 1, NEW s \in 0 .. d - 1, j * d + r = k * d + s
    PROVE  j = k /\ r = s
<1>1. ~ (j < k)
  <2>1. SUFFICES ASSUME j < k PROVE FALSE  OBVIOUS
  <2>2. j * d + d <= k * d  BY <2>1
  <2>3. j * d \in Int /\ k * d \in Int  OBVIOUS
  <2> QED BY <2>2, <2>3
<1>2. ~ (k < j)
  <2>1. SUFFICES ASSUME k < j PROVE FALSE  OBVIOUS
  <2>2. k * d + d <= j * d  BY <2>1
  <2>3. j * d \in Int /\ k * d \in Int  OBVIOUS
  <2> QED BY <2>2, <2>3
<1>3. j = k  BY <1>1, <1>2
<1> QED BY <1>3

\* The quotient and the remainder are the only ones.
LEMMA DivisionIs ==
    ASSUME NEW n \in Int, NEW d \in Nat \ {0}, NEW k \in Int, NEW r \in 0 .. d - 1,
           n = k * d + r
    PROVE  n \div d = k /\ n % d = r
BY Division, Quotients

-------------------------------------------------------------------------------
(* Types.                                                                         *)

IsType(T) == T.signed \in BOOLEAN /\ T.bits \in Nat \ {0}

\* The types of math.h are types.
LEMMA TypesAre == \A T \in Types : IsType(T) /\ T.bits \in {Width, 2 * Width}
BY WidthAssumption DEF Types, IsType

\* The values of a type are as many as the remainders by Size(T), 0 among them.
Size(T) == 2 ^ T.bits

LEMMA ValuesAre ==
    ASSUME NEW T, IsType(T), NEW M, M = Size(T), NEW least, least = Least(T)
    PROVE  /\ M \in Nat \ {0} /\ least \in Int /\ least <= 0 /\ least + M > 0
           /\ Values(T) = least .. least + M - 1
<1> DEFINE H == 2 ^ (T.bits - 1)
<1>1. T.bits - 1 \in Nat /\ (T.bits - 1) + 1 = T.bits  BY DEF IsType
<1>2. H \in Nat \ {0} /\ M = 2 * H  BY <1>1, Powers DEF Size
<1>3. T.signed => least = -H /\ Greatest(T) = H - 1  BY DEF Least, Greatest
<1>4. ~T.signed => least = 0 /\ Greatest(T) = M - 1  BY DEF Least, Greatest, Size
<1>5. Values(T) = least .. Greatest(T)  BY DEF Values
<1> HIDE DEF H
<1>6. \/ least = -H /\ Values(T) = -H .. H - 1
      \/ least = 0 /\ Values(T) = 0 .. M - 1
  BY <1>3, <1>4, <1>5
<1>7. /\ M \in Nat \ {0} /\ -H \in Int /\ -H <= 0 /\ -H + M > 0
      /\ -H + M - 1 = H - 1 /\ 0 + M - 1 = M - 1
  BY <1>2
<1> QED BY <1>6, <1>7

\* A conversion stays in its type, and moves a number by a multiple of Size(T);
\* a number of the type it leaves alone.
LEMMA AsIs ==
    ASSUME NEW T, IsType(T), NEW k \in Int
    PROVE  /\ Size(T) \in Nat \ {0} /\ As(T, k) \in Values(T) /\ As(T, k) \in Int
           /\ \E c \in Int : As(T, k) = k + c * Size(T)
           /\ k \in Values(T) => As(T, k) = k
<1> DEFINE M     == Size(T)
           least == Least(T)
           q     == k \div M
           r     == k % M
           a     == As(T, k)
<1>1. /\ M \in Nat \ {0} /\ least \in Int /\ least <= 0 /\ least + M > 0
      /\ Values(T) = least .. least + M - 1
  BY ValuesAre
<1>2. a = IF r \in least .. least + M - 1 THEN r ELSE r - M  BY <1>1 DEF As, Size
<1>3. q \in Int /\ r \in 0 .. M - 1 /\ k = q * M + r /\ r = k % M  BY <1>1, Division
<1> HIDE DEF M, least, q, r, a
<1>4. q * M \in Int  BY <1>1, <1>3
<1>5. \/ a = r /\ r \in least .. least + M - 1
      \/ a = r - M /\ r > least + M - 1
  BY <1>1, <1>2, <1>3
<1>6. a \in Values(T) /\ a \in Int  BY <1>1, <1>3, <1>5
<1>7. \E c \in Int : a = k + c * M
  <2>1. CASE a = r
    <3>1. -q \in Int /\ (-q) * M = -(q * M)  BY <1>1, <1>3
    <3>2. a = k + (-q) * M  BY <1>1, <1>3, <1>4, <2>1, <3>1
    <3> QED BY <3>1, <3>2
  <2>2. CASE a = r - M
    <3> DEFINE c == -q - 1
    <3>1. c \in Int /\ c * M = -(q * M) - M  BY <1>1, <1>3
    <3> HIDE DEF c
    <3>2. a = k + c * M  BY <1>1, <1>3, <1>4, <2>2, <3>1
    <3> QED BY <3>1, <3>2
  <2> QED BY <1>5, <2>1, <2>2
<1>8. ASSUME k \in least .. least + M - 1 PROVE a = k
  <2>1. CASE k >= 0
    <3>1. k \in 0 .. M - 1  BY <1>1, <1>8, <2>1
    <3>2. k = 0 * M + k  BY <1>1
    <3>3. r = k  BY <1>1, <1>3, <3>1, <3>2, DivisionIs, 0 \in Int
    <3> QED BY <1>1, <1>5, <1>8, <3>3
  <2>2. CASE k < 0
    <3>1. k + M \in 0 .. M - 1  BY <1>1, <1>8, <2>2
    <3>2. k = (-1) * M + (k + M)  BY <1>1
    <3>3. r = k + M  BY <1>1, <1>3, <3>1, <3>2, DivisionIs, -1 \in Int
    <3> QED BY <1>1, <1>5, <1>8, <3>3
  <2> QED BY <2>1, <2>2
<1> QED BY <1>1, <1>6, <1>7, <1>8 DEF M, a

LEMMA ValuesSeen == \A T : IsType(T) => Values(T) \subseteq Int
BY ValuesAre
-------------------------------------------------------------------------------
(* math.h.                                                                        *)

\* A quotient is a number over a positive one.
LEMMA QuotientIs ==
    ASSUME NEW a \in Int, NEW b \in Int, b # 0, NEW x, x = Quotient(a, b)
    PROVE  /\ x.num \in Int /\ x.den \in Nat \ {0}
           /\ x.num > 0 <=> a * b > 0
           /\ b > 0 => x.num = a /\ x.den = b
<1>1. CASE b > 0
  <2>1. a * b > 0 <=> a > 0  BY <1>1
  <2> QED BY <1>1, <2>1 DEF Quotient
<1>2. CASE b < 0
  <2>1. a * b > 0 <=> -a > 0  BY <1>2
  <2> QED BY <1>2, <2>1 DEF Quotient
<1> QED BY <1>1, <1>2

\* Towards zero, and what is left.
LEMMA Remains ==
    ASSUME NEW n \in Nat, NEW d \in Nat \ {0}, NEW p, p = n \div d
    PROVE  p \in Nat /\ p * d \in Nat /\ p * d <= n /\ n < p * d + d
<1>1. n \div d \in Nat  OBVIOUS
<1>2. n % d \in 0 .. d - 1 /\ n = p * d + (n % d)  BY Division
<1>3. p * d \in Nat  BY <1>1
<1> QED BY <1>1, <1>2, <1>3

\* A cast rounds towards zero.
LEMMA CastIs ==
    ASSUME NEW x, NEW n \in Int, NEW d \in Nat \ {0}, x.num = n, x.den = d,
           NEW q, q = Cast(x)
    PROVE  /\ q \in Int /\ q * d \in Int
           /\ n >= 0 => q * d <= n /\ n < q * d + d
           /\ n < 0  => n <= q * d /\ q * d - d < n
<1>1. CASE n >= 0
  <2>1. q = n \div d /\ n \in Nat  BY <1>1 DEF Cast
  <2>2. q \in Nat /\ q * d \in Nat /\ q * d <= n /\ n < q * d + d  BY <2>1, Remains
  <2> QED BY <1>1, <2>2
<1>2. CASE n < 0
  <2> DEFINE m == -n
             p == m \div d
  <2>1. q = -p /\ m \in Nat  BY <1>2 DEF Cast
  <2>2. p \in Nat /\ p * d \in Nat /\ p * d <= m /\ m < p * d + d  BY <2>1, Remains
  <2> HIDE DEF p
  <2>3. q \in Int /\ q * d = -(p * d)  BY <2>1, <2>2
  <2> QED BY <1>2, <2>2, <2>3
<1> QED BY <1>1, <1>2

\* A multiple of d that is near another.
LEMMA Near ==
    ASSUME NEW d \in Nat \ {0}, NEW j \in Int, NEW k \in Int, j * d < k * d + d
    PROVE  j <= k
<1>1. SUFFICES ASSUME k < j PROVE FALSE  OBVIOUS
<1>2. k * d + d <= j * d  BY <1>1
<1>3. j * d \in Int /\ k * d \in Int  OBVIOUS
<1> QED BY <1>2, <1>3

\* The integers next to a quotient, where it is not one itself.
LEMMA RoundIs ==
    ASSUME NEW x, NEW n \in Int, NEW d \in Nat \ {0}, x.num = n, x.den = d,
           NEW q, q = Cast(x), NEW k \in Int
    PROVE  /\ IsCeil(k, x) => k = IF n # q * d /\ n > 0 THEN q + 1 ELSE q
           /\ IsFloor(k, x) => k = IF n # q * d /\ n < 0 THEN q - 1 ELSE q
<1>1. /\ q \in Int /\ q * d \in Int
      /\ n >= 0 => q * d <= n /\ n < q * d + d
      /\ n < 0  => n <= q * d /\ q * d - d < n
  BY CastIs
<1>2. /\ k * d \in Int /\ (k - 1) * d = k * d - d /\ (k + 1) * d = k * d + d
      /\ (q - 1) * d = q * d - d /\ (q + 1) * d = q * d + d
  BY <1>1
<1>3. \A i, j \in Int : i * d < j * d + d => i <= j  BY Near
<1>4. ASSUME IsCeil(k, x) PROVE k = IF n # q * d /\ n > 0 THEN q + 1 ELSE q
  <2>1. k * d - d < n /\ n <= k * d  BY <1>2, <1>4 DEF IsCeil
  <2>2. CASE n # q * d /\ n > 0
    <3>0. q * d < n /\ n < q * d + d  BY <1>1, <2>2
    <3>1. k * d < q * d + d + d /\ q * d + d < k * d + d  BY <1>1, <1>2, <2>1, <3>0
    <3>2. q + 1 \in Int  BY <1>1
    <3>3. k <= q + 1 /\ q + 1 <= k  BY <1>2, <1>3, <3>1, <3>2
    <3> QED BY <1>1, <2>2, <3>3
  <2>3. CASE ~ (n # q * d /\ n > 0)
    <3>1. k * d < q * d + d /\ q * d < k * d + d  BY <1>1, <1>2, <2>1, <2>3
    <3>2. k <= q /\ q <= k  BY <1>1, <1>3, <3>1
    <3> QED BY <1>1, <2>3, <3>2
  <2> QED BY <2>2, <2>3
<1>5. ASSUME IsFloor(k, x) PROVE k = IF n # q * d /\ n < 0 THEN q - 1 ELSE q
  <2>1. k * d <= n /\ n < k * d + d  BY <1>2, <1>5 DEF IsFloor
  <2>2. CASE n # q * d /\ n < 0
    <3>0. q * d - d < n /\ n < q * d  BY <1>1, <2>2
    <3>1. k * d < q * d - d + d /\ q * d - d < k * d + d  BY <1>1, <1>2, <2>1, <3>0
    <3>2. q - 1 \in Int  BY <1>1
    <3>3. k <= q - 1 /\ q - 1 <= k  BY <1>2, <1>3, <3>1, <3>2
    <3> QED BY <1>1, <2>2, <3>3
  <2>3. CASE ~ (n # q * d /\ n < 0)
    <3>1. k * d < q * d + d /\ q * d < k * d + d  BY <1>1, <1>2, <2>1, <2>3
    <3>2. k <= q /\ q <= k  BY <1>1, <1>3, <3>1
    <3>3. k = q  BY <1>1, <3>2
    <3> QED BY <2>3, <3>3
  <2> QED BY <2>2, <2>3
<1> QED BY <1>4, <1>5

\* The four functions return what they are named for.
LEMMA RoundingAgrees ==
    ASSUME NEW a \in Int, NEW b \in Int, b # 0, NEW x, x = Quotient(a, b),
           NEW T, IsType(T), Castable(T, x), NEW k \in Values(T)
    PROVE  /\ IsCeil(k, x)  => ceil(T, x) = k
           /\ IsFloor(k, x) => floor(T, x) = k
           /\ (IF a * b > 0 THEN IsFloor(k, x) ELSE IsCeil(k, x)) => trunc(T, x) = k
           /\ (IF a * b > 0 THEN IsCeil(k, x) ELSE IsFloor(k, x)) => ntrunc(T, x) = k
<1> DEFINE q == Cast(x)
<1>1. x.num \in Int /\ x.den \in Nat \ {0} /\ (x.num > 0 <=> a * b > 0)  BY QuotientIs
<1>2. q \in Int /\ q * x.den \in Int  BY <1>1, CastIs
<1>3. k \in Int /\ As(T, k) = k  BY AsIs, ValuesSeen
<1>4. /\ IsCeil(k, x) => k = IF x.num # q * x.den /\ x.num > 0 THEN q + 1 ELSE q
      /\ IsFloor(k, x) => k = IF x.num # q * x.den /\ x.num < 0 THEN q - 1 ELSE q
  BY <1>1, <1>3, RoundIs
<1>5. /\ ceil(T, x) = IF x.num = q * x.den THEN q
                      ELSE As(T, q + (IF x.num > 0 THEN 1 ELSE 0))
      /\ floor(T, x) = IF x.num = q * x.den THEN q
                       ELSE As(T, q - (IF x.num < 0 THEN 1 ELSE 0))
  BY DEF ceil, floor
<1>6. q \in Values(T) /\ As(T, q) = q  BY <1>2, AsIs DEF Castable
<1> HIDE DEF q
<1>7. IsCeil(k, x) => ceil(T, x) = k  BY <1>1, <1>2, <1>3, <1>4, <1>5, <1>6
<1>8. IsFloor(k, x) => floor(T, x) = k  BY <1>1, <1>2, <1>3, <1>4, <1>5, <1>6
<1> QED BY <1>1, <1>7, <1>8 DEF trunc, ntrunc

\* The numbers below a number of a type and not negative are in it.
LEMMA Between ==
    ASSUME NEW T, IsType(T), NEW k \in Values(T), NEW j \in Int, 0 <= j, j <= k
    PROVE  j \in Values(T)
<1> DEFINE M == Size(T)
           least == Least(T)
<1>1. /\ M \in Nat \ {0} /\ least \in Int /\ least <= 0 /\ least + M > 0
      /\ Values(T) = least .. least + M - 1
  BY ValuesAre
<1> HIDE DEF M, least
<1> QED BY <1>1

\* div_ceil is the ceil of the quotient.
LEMMA DivCeilAgrees ==
    ASSUME NEW T, IsType(T), NEW a \in Nat, NEW b \in Nat \ {0}, a + b - 1 \in Values(T)
    PROVE  div_ceil(T, a, b) = ceil(T, Quotient(a, b))
<1> DEFINE x == Quotient(a, b)
           q == Cast(x)
           n == a + b - 1
           p == n \div b
<1>1. x.num = a /\ x.den = b  BY DEF Quotient
<1>2. q \in Int /\ q * b \in Int /\ q * b <= a /\ a < q * b + b
  <2> HIDE DEF x
  <2> QED BY <1>1, CastIs
<1>3. n \in Nat /\ p \in Nat /\ p * b \in Nat /\ p * b <= n /\ n < p * b + b
  <2>1. n \in Nat  OBVIOUS
  <2> HIDE DEF n
  <2> QED BY <2>1, Remains
<1>4. div_ceil(T, a, b) = p
  <2>1. As(T, n) = n  BY <1>3, AsIs
  <2> QED BY <2>1 DEF div_ceil
<1>5. ceil(T, x) = IF a = q * b THEN q ELSE As(T, q + (IF a > 0 THEN 1 ELSE 0))
  BY <1>1 DEF ceil
<1> HIDE DEF x, q, p
<1>6. \A i, j \in Int : i * b < j * b + b => i <= j  BY Near
<1>7. CASE a = q * b
  <2>1. p * b < q * b + b /\ q * b < p * b + b  BY <1>2, <1>3, <1>7
  <2>2. p <= q /\ q <= p  BY <1>2, <1>3, <1>6, <2>1
  <2>3. p = q  BY <1>2, <1>3, <2>2
  <2> QED BY <1>4, <1>5, <1>7, <2>3 DEF x
<1>8. CASE a # q * b
  <2>1. q * b < a  BY <1>2, <1>8
  <2>2. a > 0
    <3>1. CASE q >= 0
      <4>1. q * b >= 0  BY <1>2, <3>1
      <4> QED BY <1>2, <2>1, <4>1
    <3>2. CASE q < 0
      <4>1. q + 1 <= 0 /\ q * b + b = (q + 1) * b  BY <1>2, <3>2
      <4>2. (q + 1) * b <= 0  BY <1>2, <4>1
      <4> QED BY <1>2, <4>1, <4>2
    <3> QED BY <1>2, <3>1, <3>2
  <2>3. q + 1 \in Int /\ (q + 1) * b = q * b + b  BY <1>2
  <2>4. p * b < (q + 1) * b + b /\ (q + 1) * b < p * b + b
    BY <1>2, <1>3, <2>1, <2>3
  <2>5. p <= q + 1 /\ q + 1 <= p  BY <1>2, <1>3, <1>6, <2>3, <2>4
  <2>6. p = q + 1  BY <1>2, <1>3, <2>5
  <2>7. p <= n
    <3>1. p <= p * b  BY <1>3
    <3> QED BY <1>3, <3>1
  <2>8. p \in Values(T)  BY <1>3, <2>7, Between
  <2>9. As(T, q + 1) = p  BY <1>3, <2>6, <2>8, AsIs
  <2> QED BY <1>4, <1>5, <1>8, <2>2, <2>9 DEF x
<1> QED BY <1>7, <1>8 DEF x

\* The least power of two that is not less than a number is the one ceil2 finds.
LEMMA ExponentIs ==
    ASSUME NEW a \in Nat, a > 1, NEW j \in 1 .. 2 * Width, 2 ^ (j - 1) < a, a <= 2 ^ j
    PROVE  Exponent(a) = j
<1> DEFINE Fits(k) == 2 ^ (k - 1) <= a - 1 /\ a - 1 < 2 ^ k
           e == CHOOSE k \in 1 .. 2 * Width : Fits(k)
<1>1. \A k \in 1 .. 2 * Width : /\ k \in Nat /\ k - 1 \in Nat
                                /\ 2 ^ k \in Nat /\ 2 ^ (k - 1) \in Nat
  <2>1. TAKE k \in 1 .. 2 * Width
  <2>2. k \in Nat /\ k - 1 \in Nat  BY WidthAssumption
  <2> QED BY <2>2, Powers
<1>2. Fits(j)
  <2> DEFINE lo == 2 ^ (j - 1)
             hi == 2 ^ j
  <2>1. lo \in Nat /\ hi \in Nat /\ lo < a /\ a <= hi  BY <1>1
  <2> HIDE DEF lo, hi
  <2>2. lo <= a - 1 /\ a - 1 < hi  BY <2>1
  <2> QED BY <2>2 DEF lo, hi
<1>3. e \in 1 .. 2 * Width /\ Fits(e)
  <2> HIDE DEF Fits
  <2> QED BY <1>2
<1> HIDE DEF e
<1>4. ASSUME NEW i \in 1 .. 2 * Width, NEW k \in 1 .. 2 * Width, Fits(i), Fits(k), i < k
      PROVE  FALSE
  <2>1. i \in Nat /\ k - 1 \in Nat /\ i \in 0 .. k - 1  BY <1>1, <1>4
  <2> DEFINE ti == 2 ^ i
             tk == 2 ^ (k - 1)
  <2>2. ti <= tk  BY <2>1, Powers
  <2>3. ti \in Nat /\ tk \in Nat /\ tk <= a - 1 /\ a - 1 < ti  BY <1>1, <1>4
  <2> HIDE DEF ti, tk
  <2> QED BY <2>2, <2>3
<1>5. e = j
  <2>1. ~ (e < j) /\ ~ (j < e)  BY <1>2, <1>3, <1>4
  <2>2. e \in Nat /\ j \in Nat  BY <1>1, <1>3
  <2> QED BY <2>1, <2>2
<1> QED BY <1>5 DEF e, Exponent

\* ceil2 is that power.
LEMMA PowerAgrees ==
    ASSUME NEW T, IsType(T), NEW a \in Nat, NEW k \in Values(T), IsCeil2(k, a)
    PROVE  ceil2(T, a) = k
<1>1. PICK j \in 0 .. 2 * Width : k = 2 ^ j /\ (j = 0 \/ 2 ^ (j - 1) < a)
  BY DEF IsCeil2
<1>2. k \in Int /\ a <= k  BY ValuesSeen DEF IsCeil2
<1>3. j # 0 => /\ j \in 1 .. 2 * Width /\ j - 1 \in Nat /\ 2 ^ (j - 1) \in Nat \ {0}
  <2>1. j # 0 => j \in 1 .. 2 * Width /\ j - 1 \in Nat  BY WidthAssumption
  <2> QED BY <2>1, Powers
<1>4. CASE a <= 1
  <2>1. j = 0
    <3>1. SUFFICES ASSUME j # 0 PROVE FALSE  OBVIOUS
    <3> DEFINE lo == 2 ^ (j - 1)
    <3>2. lo \in Nat \ {0} /\ lo < a  BY <1>1, <1>3, <3>1
    <3> HIDE DEF lo
    <3> QED BY <1>4, <3>2
  <2>2. k = 1  BY <1>1, <2>1
  <2> QED BY <1>4, <2>2 DEF ceil2
<1>5. CASE a > 1
  <2>1. j # 0
    <3>1. SUFFICES ASSUME j = 0 PROVE FALSE  OBVIOUS
    <3>2. k = 1  BY <1>1, <3>1
    <3> QED BY <1>2, <1>5, <3>2
  <2>2. Exponent(a) = j
    <3>1. j \in 1 .. 2 * Width /\ 2 ^ (j - 1) < a /\ a <= 2 ^ j  BY <1>1, <1>2, <1>3, <2>1
    <3> QED BY <1>5, <3>1, ExponentIs
  <2>3. As(T, 2 ^ j) = k  BY <1>1, <1>2, AsIs
  <2>4. ceil2(T, a) = As(T, 2 ^ Exponent(a))  BY <1>5 DEF ceil2
  <2> QED BY <2>2, <2>3, <2>4
<1> QED BY <1>4, <1>5

-------------------------------------------------------------------------------
(* What the program computes has its type.                                        *)

WordVectors(n) == [1 .. n -> Word]

TypedMemory ==
    \/ kind = "integer" /\ memory \in [Objects -> Values(Scalar)]
    \/ kind = "vector"  /\ memory \in [Objects -> WordVectors(VecSize)]
    \/ kind = "matrix"  /\ memory \in [Objects -> WordVectors(Dim * Dim)]

\* What math.h is used with is a type.
LEMMA ScalarIs == IsType(Scalar) /\ Scalar.bits \in {Width, 2 * Width}
BY ScalarAssumption, TypesAre

\* A quotient rounded is a number of the type.
LEMMA RoundTyped ==
    ASSUME NEW T, IsType(T), NEW x, x.num \in Int, x.den \in Nat \ {0}, Castable(T, x)
    PROVE  /\ ceil(T, x) \in Values(T) /\ floor(T, x) \in Values(T)
           /\ trunc(T, x) \in Values(T) /\ ntrunc(T, x) \in Values(T)
<1> DEFINE q == Cast(x)
           u == IF x.num > 0 THEN 1 ELSE 0
           d == IF x.num < 0 THEN 1 ELSE 0
<1>1. q \in Values(T) /\ q \in Int  BY ValuesSeen DEF Castable
<1>2. u \in Int /\ d \in Int  OBVIOUS
<1>3. /\ ceil(T, x) = IF x.num = q * x.den THEN q ELSE As(T, q + u)
      /\ floor(T, x) = IF x.num = q * x.den THEN q ELSE As(T, q - d)
  BY DEF ceil, floor
<1> HIDE DEF q, u, d
<1>4. q + u \in Int /\ q - d \in Int  BY <1>1, <1>2
<1>5. As(T, q + u) \in Values(T) /\ As(T, q - d) \in Values(T)  BY <1>4, AsIs
<1>6. ceil(T, x) \in Values(T) /\ floor(T, x) \in Values(T)  BY <1>1, <1>3, <1>5
<1> QED BY <1>6 DEF trunc, ntrunc

\* 1 is a number of every type of more than one bit.
LEMMA OneTyped ==
    ASSUME NEW T, IsType(T), T.bits >= 2
    PROVE  1 \in Values(T)
<1> DEFINE M == Size(T)
           least == Least(T)
           b == T.bits - 2
           P == 2 ^ b
<1>1. /\ M \in Nat \ {0} /\ least \in Int /\ least <= 0 /\ least + M > 0
      /\ Values(T) = least .. least + M - 1
  BY ValuesAre
<1>2. T.signed => least = -(2 ^ (T.bits - 1))  BY DEF Least
<1>3. ~T.signed => least = 0  BY DEF Least
<1>4. b \in Nat /\ T.bits - 1 = b + 1 /\ T.bits = (b + 1) + 1 /\ b + 1 \in Nat
  BY DEF IsType
<1>5. P \in Nat \ {0} /\ 2 ^ (T.bits - 1) = 2 * P /\ M = 2 * (2 * P)
  <2>1. 2 ^ (b + 1) = 2 * 2 ^ b /\ 2 ^ ((b + 1) + 1) = 2 * 2 ^ (b + 1) /\ P \in Nat \ {0}
    BY <1>4, Powers
  <2> QED BY <1>4, <2>1 DEF Size
<1> HIDE DEF M, least, b, P
<1>6. least = -(2 * P) \/ least = 0  BY <1>2, <1>3, <1>5
<1> QED BY <1>1, <1>5, <1>6

\* A number of the types of math.h has an exponent.
LEMMA ExponentTyped ==
    ASSUME NEW T \in Types, NEW a \in Values(T), a > 1
    PROVE  Exponent(a) \in 1 .. 2 * Width
<1> DEFINE W == 2 * Width
           S == {k \in 0 .. W : a - 1 < 2 ^ k}
<1>1. W \in Nat /\ T.bits \in 0 .. W /\ IsType(T)  BY TypesAre, WidthAssumption
<1>2. a \in Int /\ a - 1 \in Nat /\ a <= Size(T)
  <2> DEFINE M == Size(T)
             least == Least(T)
  <2>1. /\ M \in Nat \ {0} /\ least \in Int /\ least <= 0 /\ least + M > 0
        /\ Values(T) = least .. least + M - 1
    BY <1>1, ValuesAre
  <2> HIDE DEF M, least
  <2> QED BY <2>1 DEF M
<1>3. \A k \in 0 .. W : 2 ^ k \in Nat \ {0} /\ 2 ^ k <= 2 ^ W  BY <1>1, Powers
<1>4. W \in S
  <2> DEFINE top == 2 ^ W
             M   == Size(T)
  <2>1. M <= top /\ M \in Nat /\ top \in Nat  BY <1>1, <1>3 DEF Size
  <2> HIDE DEF top, M
  <2>2. a - 1 < top  BY <1>2, <2>1 DEF M
  <2> QED BY <1>1, <2>2 DEF top
<1>5. PICK k \in S : \A j \in S : k <= j
  <2>1. S \subseteq Nat  OBVIOUS
  <2> HIDE DEF S
  <2> QED BY <1>4, <2>1, LeastExists
<1>6. k # 0
  <2>1. SUFFICES ASSUME k = 0 PROVE FALSE  OBVIOUS
  <2>2. a - 1 < 1  BY <2>1
  <2> QED BY <1>2, <2>2
<1>7. k \in 1 .. W /\ k - 1 \in 0 .. W /\ k - 1 \notin S  BY <1>1, <1>5, <1>6
<1>8. 2 ^ (k - 1) <= a - 1
  <2> DEFINE low == 2 ^ (k - 1)
  <2>1. ~ (a - 1 < low) /\ low \in Nat  BY <1>3, <1>7
  <2> HIDE DEF low
  <2>2. low <= a - 1  BY <1>2, <2>1
  <2> QED BY <2>2 DEF low
<1>9. 2 ^ (k - 1) <= a - 1 /\ a - 1 < 2 ^ k  BY <1>8
<1> QED BY <1>7, <1>9 DEF Exponent

\* ceil2 gives a number of the type.
LEMMA CeilTwoTyped ==
    ASSUME NEW T \in Types, NEW a \in Values(T), a >= 0
    PROVE  ceil2(T, a) \in Values(T) /\ ceil2(T, a) \in Int
<1>1. IsType(T) /\ T.bits >= 2  BY TypesAre, WidthAssumption
<1>2. 1 \in Values(T) /\ Values(T) \subseteq Int  BY <1>1, OneTyped, ValuesSeen
<1>3. CASE a <= 1  BY <1>2, <1>3 DEF ceil2
<1>4. CASE a > 1
  <2>1. Exponent(a) \in Nat  BY <1>4, ExponentTyped
  <2>2. 2 ^ Exponent(a) \in Int  BY <2>1, Powers
  <2>3. As(T, 2 ^ Exponent(a)) \in Values(T)  BY <1>1, <2>2, AsIs
  <2> QED BY <1>2, <1>4, <2>3 DEF ceil2
<1> QED BY <1>2, <1>3, <1>4

\* A step with integers leaves integers of the type.
LEMMA IntegersStay ==
    ASSUME memory \in [Objects -> Values(Scalar)], IntegerStep
    PROVE  memory' \in [Objects -> Values(Scalar)]
<1>1. IsType(Scalar) /\ Scalar \in Types /\ Values(Scalar) \subseteq Int
  BY ScalarAssumption, ScalarIs, ValuesSeen
<1>2. ASSUME NEW o \in Objects, NEW v \in Values(Scalar), Put(o, v)
      PROVE  memory' \in [Objects -> Values(Scalar)]
  BY <1>2 DEF Put
<1>3. \A o \in Objects : memory[o] \in Values(Scalar) /\ memory[o] \in Int  BY <1>1
<1>4. ASSUME NEW o \in Objects, NEW p \in Objects, Round(o, p)
      PROVE  memory' \in [Objects -> Values(Scalar)]
  <2> DEFINE x == Quotient(memory[o], memory[p])
  <2>1. memory[p] # 0 /\ Castable(Scalar, x)  BY <1>4 DEF Round
  <2>2. x.num \in Int /\ x.den \in Nat \ {0}  BY <1>3, <2>1, QuotientIs
  <2>3. \/ Put(o, ceil(Scalar, x)) \/ Put(o, floor(Scalar, x))
        \/ Put(o, trunc(Scalar, x)) \/ Put(o, ntrunc(Scalar, x))
    BY <1>4 DEF Round
  <2> HIDE DEF x
  <2>4. /\ ceil(Scalar, x) \in Values(Scalar) /\ floor(Scalar, x) \in Values(Scalar)
        /\ trunc(Scalar, x) \in Values(Scalar) /\ ntrunc(Scalar, x) \in Values(Scalar)
    BY <1>1, <2>1, <2>2, RoundTyped
  <2> QED BY <1>2, <2>3, <2>4
<1>5. ASSUME NEW o \in Objects, RoundToPower(o)
      PROVE  memory' \in [Objects -> Values(Scalar)]
  <2> DEFINE a == memory[o]
  <2>1. a \in Values(Scalar) /\ a \in Int  BY <1>3
  <2>2. CASE a >= 0 /\ Put(o, ceil2(Scalar, a))
    <3> HIDE DEF a
    <3>1. ceil2(Scalar, a) \in Values(Scalar)  BY <1>1, <2>1, <2>2, CeilTwoTyped
    <3> QED BY <1>2, <2>2, <3>1
  <2>3. CASE a < 0 /\ -a \in Values(Scalar) /\ Put(o, As(Scalar, -ceil2(Scalar, -a)))
    <3> HIDE DEF a
    <3>1. -a >= 0  BY <2>1, <2>3
    <3>2. ceil2(Scalar, -a) \in Int  BY <1>1, <2>3, <3>1, CeilTwoTyped
    <3>3. As(Scalar, -ceil2(Scalar, -a)) \in Values(Scalar)  BY <1>1, <3>2, AsIs
    <3> QED BY <1>2, <2>3, <3>3
  <2> QED BY <1>5, <2>2, <2>3 DEF RoundToPower
<1>6. ASSUME NEW o \in Objects, NEW p \in Objects, Divide(o, p)
      PROVE  memory' \in [Objects -> Values(Scalar)]
  <2> DEFINE a == memory[o]
             b == memory[p]
             s == As(Scalar, a + b - 1)
  <2>1. a \in Int /\ b \in Int /\ a >= 0 /\ b > 0 /\ Addable(Scalar, a, b)
    BY <1>3, <1>6 DEF Divide
  <2>2. s \in Values(Scalar) /\ s \in Int  BY <1>1, <2>1, AsIs
  <2>3. s >= 0
    <3>1. CASE Scalar.signed
      <4>1. a + b - 1 \in Values(Scalar)  BY <2>1, <3>1 DEF Addable
      <4> QED BY <1>1, <2>1, <4>1, AsIs
    <3>2. CASE ~Scalar.signed
      <4>1. \A k \in Values(Scalar) : k >= 0  BY <3>2 DEF Values, Least
      <4> QED BY <2>2, <4>1
    <3> QED BY <3>1, <3>2
  <2>4. Put(o, s \div b)  BY <1>6 DEF Divide, div_ceil
  <2> HIDE DEF a, b, s
  <2>5. s \div b \in Nat /\ s \div b <= s
    <3> DEFINE p1 == s \div b
    <3>1. p1 \in Nat /\ p1 * b \in Nat /\ p1 * b <= s  BY <2>1, <2>2, <2>3, Remains
    <3> HIDE DEF p1
    <3>2. p1 <= p1 * b  BY <2>1, <3>1
    <3>3. p1 <= s  BY <2>2, <3>1, <3>2
    <3> QED BY <3>1, <3>3 DEF p1
  <2>6. s \div b \in Values(Scalar)
    <3> DEFINE p1 == s \div b
    <3>1. p1 \in Int /\ 0 <= p1 /\ p1 <= s  BY <2>5
    <3> HIDE DEF p1
    <3>2. p1 \in Values(Scalar)  BY <1>1, <2>2, <3>1, Between
    <3> QED BY <3>2 DEF p1
  <2> QED BY <1>2, <2>4, <2>6
<1>7. ASSUME NEW o \in Objects, Square(o)
      PROVE  memory' \in [Objects -> Values(Scalar)]
  <2>1. memory[o] * memory[o] \in Int  BY <1>3
  <2>2. Put(o, As(Scalar, memory[o] * memory[o]))  BY <1>7 DEF Square, pow2
  <2>3. As(Scalar, memory[o] * memory[o]) \in Values(Scalar)  BY <1>1, <2>1, AsIs
  <2> QED BY <1>2, <2>2, <2>3
<1> QED BY <1>4, <1>5, <1>6, <1>7 DEF IntegerStep

\* The functions of math.h agree with their definitions.
LEMMA IntegersAgree == TypedMemory => ScalarsAgree
<1> SUFFICES ASSUME TypedMemory, kind = "integer", NEW o \in Objects, NEW p \in Objects,
                    NEW a, a = memory[o], NEW b, b = memory[p], NEW x, x = Quotient(a, b)
             PROVE
    /\ b # 0 => \A T \in Types : Castable(T, x) => \A k \in Values(T) :
             /\ IsCeil(k, x)  => ceil(T, x) = k
             /\ IsFloor(k, x) => floor(T, x) = k
             /\ (IF a * b > 0 THEN IsFloor(k, x) ELSE IsCeil(k, x)) => trunc(T, x) = k
             /\ (IF a * b > 0 THEN IsCeil(k, x) ELSE IsFloor(k, x)) => ntrunc(T, x) = k
    /\ a >= 0 /\ b > 0 /\ a + b - 1 \in Values(Scalar)
             => div_ceil(Scalar, a, b) = ceil(Scalar, x)
    /\ a >= 0 /\ Shiftable(a) =>
             \A k \in Values(Scalar) : IsCeil2(k, a) => ceil2(Scalar, a) = k
  BY DEF ScalarsAgree
<1>1. a \in Int /\ b \in Int /\ IsType(Scalar)
  <2>1. memory \in [Objects -> Values(Scalar)]  BY DEF TypedMemory
  <2> QED BY <2>1, ScalarIs, ValuesSeen
<1>2. ASSUME b # 0, NEW T \in Types, Castable(T, x), NEW k \in Values(T)
      PROVE  /\ IsCeil(k, x)  => ceil(T, x) = k
             /\ IsFloor(k, x) => floor(T, x) = k
             /\ (IF a * b > 0 THEN IsFloor(k, x) ELSE IsCeil(k, x)) => trunc(T, x) = k
             /\ (IF a * b > 0 THEN IsCeil(k, x) ELSE IsFloor(k, x)) => ntrunc(T, x) = k
  <2>1. IsType(T)  BY TypesAre
  <2> QED BY <1>1, <1>2, <2>1, RoundingAgrees
<1>3. ASSUME a >= 0, b > 0, a + b - 1 \in Values(Scalar)
      PROVE  div_ceil(Scalar, a, b) = ceil(Scalar, x)
  <2>1. a \in Nat /\ b \in Nat \ {0}  BY <1>1, <1>3
  <2> QED BY <1>1, <1>3, <2>1, DivCeilAgrees
<1>4. ASSUME a >= 0, NEW k \in Values(Scalar), IsCeil2(k, a)
      PROVE  ceil2(Scalar, a) = k
  <2>1. a \in Nat  BY <1>1, <1>4
  <2> QED BY <1>1, <1>4, <2>1, PowerAgrees
<1> QED BY <1>2, <1>3, <1>4

-------------------------------------------------------------------------------
(* Folds.  FoldLeft goes through the sets of the first indexes.                   *)

\* The greatest of the first numbers is the last.
LEMMA UpTo ==
    ASSUME NEW k \in Nat \ {0}
    PROVE  1 .. k # {} /\ Max(1 .. k) = k /\ (1 .. k) \ {k} = 1 .. k - 1
<1>1. k \in 1 .. k /\ \A y \in 1 .. k : k >= y  OBVIOUS
<1>2. Max(1 .. k) \in 1 .. k /\ \A y \in 1 .. k : Max(1 .. k) >= y
  BY <1>1, Zenon DEF Max
<1>3. Max(1 .. k) = k  BY <1>1, <1>2
<1> QED BY <1>1, <1>3

\* The greatest of some numbers.
LEMMA MaxIn ==
    ASSUME NEW n \in Nat, NEW s \in SUBSET (1 .. n), s # {}
    PROVE  Max(s) \in s
<1> DEFINE T == {n - x : x \in s}
<1>1. PICK t \in T : \A y \in T : t <= y
  <2>0. \A x \in s : n - x \in Nat  OBVIOUS
  <2>1. T \subseteq Nat /\ T # {}  BY <2>0
  <2> HIDE DEF T
  <2> QED BY <2>1, LeastExists
<1>2. PICK x \in s : t = n - x  BY <1>1
<1>3. \A y \in s : x >= y
  <2>1. TAKE y \in s
  <2>2. t <= n - y  BY <1>1
  <2> QED BY <1>2, <2>2
<1> QED BY <1>2, <1>3, Zenon DEF Max

\* There is such a pass, if the steps stay in a set.
Passes(f, n, base, G) == \A s \in SUBSET (1 .. n) :
    f[s] = IF s = {} THEN base ELSE G[<<f[s \ {Max(s)}], Max(s)>>]

LEMMA PassExists ==
    ASSUME NEW S, NEW base \in S, NEW n \in Nat, NEW G \in [S \X (1 .. n) -> S]
    PROVE  \E f \in [SUBSET (1 .. n) -> S] : Passes(f, n, base, G)
<1> DEFINE E == {k \in 0 .. n : \E f \in [SUBSET (1 .. k) -> S] : Passes(f, k, base, G)}
<1>1. 0 \in E
  <2> DEFINE f == [s \in SUBSET (1 .. 0) |-> base]
  <2>1. \A s \in SUBSET (1 .. 0) : s = {}  OBVIOUS
  <2>2. f \in [SUBSET (1 .. 0) -> S] /\ Passes(f, 0, base, G)  BY <2>1 DEF Passes
  <2> HIDE DEF f
  <2>3. 0 \in 0 .. n  OBVIOUS
  <2> QED BY <2>2, <2>3
<1>2. ASSUME NEW k \in 1 .. n, k - 1 \in E PROVE k \in E
  <2>1. PICK f \in [SUBSET (1 .. k - 1) -> S] : Passes(f, k - 1, base, G)  BY <1>2
  <2> DEFINE h == [s \in SUBSET (1 .. k) |-> IF k \in s THEN G[<<f[s \ {k}], k>>] ELSE f[s]]
  <2>2. \A s \in SUBSET (1 .. k) : /\ s \ {k} \in SUBSET (1 .. k - 1)
                                   /\ k \notin s => s \in SUBSET (1 .. k - 1)
    <3>1. \A x \in 1 .. k : x = k \/ x \in 1 .. k - 1  OBVIOUS
    <3> QED BY <3>1
  <2>3. h \in [SUBSET (1 .. k) -> S]
    <3>1. ASSUME NEW s \in SUBSET (1 .. k) PROVE h[s] \in S
      <4>1. f[s \ {k}] \in S /\ (k \notin s => f[s] \in S)  BY <2>1, <2>2
      <4>2. <<f[s \ {k}], k>> \in S \X (1 .. n)  BY <4>1
      <4> QED BY <4>1, <4>2
    <3>2. h = [s \in SUBSET (1 .. k) |-> h[s]]  OBVIOUS
    <3> HIDE DEF h
    <3> QED BY <3>1, <3>2
  <2>4. ASSUME NEW s \in SUBSET (1 .. k)
        PROVE  h[s] = IF s = {} THEN base ELSE G[<<h[s \ {Max(s)}], Max(s)>>]
    <3>1. CASE k \in s
      <4>1. k \in s /\ (\A y \in s : k >= y) /\ s # {}  BY <3>1
      <4>2. Max(s) \in s /\ \A y \in s : Max(s) >= y  BY <4>1, Zenon DEF Max
      <4>3. Max(s) = k
        <5> DEFINE x == Max(s)
        <5>1. x \in s /\ x >= k  BY <4>1, <4>2
        <5> HIDE DEF x
        <5>2. x \in 1 .. k  BY <5>1
        <5> QED BY <5>1, <5>2 DEF x
      <4>4. h[s \ {k}] = f[s \ {k}]
        <5>1. s \ {k} \in SUBSET (1 .. k) /\ k \notin s \ {k}  OBVIOUS
        <5> QED BY <5>1
      <4>5. h[s] = G[<<f[s \ {k}], k>>]  BY <3>1
      <4> HIDE DEF h
      <4> QED BY <4>1, <4>3, <4>4, <4>5
    <3>2. CASE k \notin s
      <4>1. s \in SUBSET (1 .. k - 1)  BY <2>2, <3>2
      <4>2. f[s] = IF s = {} THEN base ELSE G[<<f[s \ {Max(s)}], Max(s)>>]
        BY <2>1, <4>1 DEF Passes
      <4>3. h[s] = f[s]  BY <3>2
      <4>4. h[s \ {Max(s)}] = f[s \ {Max(s)}]
        <5>1. s \ {Max(s)} \in SUBSET (1 .. k) /\ k \notin s \ {Max(s)}  BY <3>2
        <5> QED BY <5>1
      <4> HIDE DEF h
      <4> QED BY <4>2, <4>3, <4>4
    <3> QED BY <3>1, <3>2
  <2> HIDE DEF h
  <2>5. Passes(h, k, base, G)  BY <2>4 DEF Passes
  <2> QED BY <2>3, <2>5
<1> HIDE DEF E
<1>3. n \in E  BY <1>1, <1>2, InductionUpTo
<1> QED BY <1>3 DEF E

\* What such a pass makes of the first indexes, one after the other.
Runs(g, n, S, base, G) == /\ g \in [0 .. n -> S] /\ g[0] = base
                          /\ \A k \in 1 .. n : g[k - 1] \in S /\ g[k] = G[<<g[k - 1], k>>]

PassesIn(f, n, S, base, G) ==
    /\ f[{}] = base
    /\ \A s \in SUBSET (1 .. n) : s # {} /\ f[s \ {Max(s)}] \in S =>
           f[s] = G[<<f[s \ {Max(s)}], Max(s)>>]

RunsTo(f, n, S, base, G) == \E g : Runs(g, n, S, base, G) /\ g[n] = f[1 .. n]

\* Such a pass does run like this.
LEMMA PassRuns ==
    ASSUME NEW S, NEW base \in S, NEW n \in Nat, NEW G \in [S \X (1 .. n) -> S],
           NEW f, PassesIn(f, n, S, base, G)
    PROVE  RunsTo(f, n, S, base, G)
<1> DEFINE g == [k \in 0 .. n |-> f[1 .. k]]
           E == {k \in 0 .. n : g[k] \in S}
<1>1. 0 \in 0 .. n /\ n \in 0 .. n /\ 1 .. 0 = {}  OBVIOUS
<1>2. g[0] = base /\ g[n] = f[1 .. n]  BY <1>1 DEF PassesIn
<1>3. ASSUME NEW k \in 1 .. n, g[k - 1] \in S
      PROVE  g[k] = G[<<g[k - 1], k>>] /\ g[k] \in S
  <2>1. k \in Nat \ {0} /\ k \in 0 .. n /\ k - 1 \in 0 .. n /\ 1 .. k \in SUBSET (1 .. n)
    OBVIOUS
  <2>2. 1 .. k # {} /\ Max(1 .. k) = k /\ (1 .. k) \ {k} = 1 .. k - 1  BY <2>1, UpTo
  <2>3. g[k] = f[1 .. k] /\ g[k - 1] = f[1 .. k - 1]  BY <2>1
  <2>4. f[1 .. k] = G[<<f[1 .. k - 1], k>>]
    <3>1. f[(1 .. k) \ {Max(1 .. k)}] \in S  BY <1>3, <2>2, <2>3
    <3>2. f[1 .. k] = G[<<f[(1 .. k) \ {Max(1 .. k)}], Max(1 .. k)>>]
      BY <2>1, <2>2, <3>1 DEF PassesIn
    <3> QED BY <2>2, <3>2
  <2>5. <<g[k - 1], k>> \in S \X (1 .. n)  BY <1>3
  <2> HIDE DEF g
  <2> QED BY <2>3, <2>4, <2>5
<1>4. g = [k \in 0 .. n |-> g[k]]  OBVIOUS
<1> HIDE DEF g
<1>5. \A k \in 0 .. n : k \in E
  <2>1. 0 \in E  BY <1>1, <1>2
  <2>2. ASSUME NEW k \in 1 .. n, k - 1 \in E PROVE k \in E
    <3>1. g[k] \in S  BY <1>3, <2>2
    <3> QED BY <3>1
  <2> HIDE DEF E
  <2> QED BY <2>1, <2>2, InductionUpTo
<1>6. \A k \in 0 .. n : g[k] \in S  BY <1>5
<1>7. g \in [0 .. n -> S]  BY <1>4, <1>6
<1>8. \A k \in 1 .. n : g[k - 1] \in S /\ g[k] = G[<<g[k - 1], k>>]
  <2>1. TAKE k \in 1 .. n
  <2>2. g[k - 1] \in S  BY <1>6, k - 1 \in 0 .. n
  <2> QED BY <1>3, <2>2
<1>9. Runs(g, n, S, base, G)  BY <1>2, <1>7, <1>8 DEF Runs
<1> QED BY <1>2, <1>9 DEF RunsTo

-------------------------------------------------------------------------------
(* Vectors.                                                                       *)

\* The loops take the elements in their order.
LEMMA PlacesAre ==
    ASSUME NEW n \in Nat, NEW W, NEW v \in [1 .. n -> W]
    PROVE  /\ Len(v) = n /\ DOMAIN v = 1 .. n
           /\ DOMAIN Places(v) = 1 .. n /\ \A i \in 1 .. n : Places(v)[i] = i
<1>1. v \in Seq(W) /\ Len(v) = n /\ DOMAIN v = 1 .. n  OBVIOUS
<1> QED BY <1>1 DEF Places

Memories(O, n) == [O -> WordVectors(n)]

\* mem when a loop has given o the elements of new at the indexes in s.
Partly(mem, o, new, s) ==
    [mem EXCEPT ![o] = [i \in DOMAIN mem[o] |-> IF i \in s THEN new[i] ELSE mem[o][i]]]

IsPartly(m, O, n, mem, o, new, s) ==
    /\ DOMAIN m = O /\ m = [q \in O |-> m[q]]
    /\ \A q \in O : q # o => m[q] = mem[q]
    /\ DOMAIN m[o] = 1 .. n /\ m[o] = [i \in 1 .. n |-> m[o][i]]
    /\ \A i \in 1 .. n : m[o][i] = IF i \in s THEN new[i] ELSE mem[o][i]

\* Which elements are the new ones.
LEMMA PartlyIs ==
    ASSUME NEW O, NEW n \in Nat, NEW mem \in Memories(O, n), NEW o \in O, NEW new,
           NEW s \in SUBSET (1 .. n)
    PROVE  IsPartly(Partly(mem, o, new, s), O, n, mem, o, new, s)
<1> DEFINE m == Partly(mem, o, new, s)
<1>1. DOMAIN mem = O /\ DOMAIN mem[o] = 1 .. n  BY DEF Memories, WordVectors
<1>2. /\ DOMAIN m = O /\ m = [q \in O |-> m[q]]
      /\ \A q \in O : q # o => m[q] = mem[q]
      /\ m[o] = [i \in 1 .. n |-> IF i \in s THEN new[i] ELSE mem[o][i]]
  BY <1>1 DEF Partly
<1> HIDE DEF m
<1>3. /\ DOMAIN m[o] = 1 .. n /\ m[o] = [i \in 1 .. n |-> m[o][i]]
      /\ \A i \in 1 .. n : m[o][i] = IF i \in s THEN new[i] ELSE mem[o][i]
  BY <1>2
<1>4. IsPartly(m, O, n, mem, o, new, s)  BY <1>2, <1>3 DEF IsPartly
<1> QED BY <1>4 DEF m

\* One more element.
Stored(m, o, x, y) == [m EXCEPT ![o][x] = y]

LEMMA PartlyNext ==
    ASSUME NEW O, NEW n \in Nat, NEW mem \in Memories(O, n), NEW o \in O, NEW new,
           NEW s \in SUBSET (1 .. n), NEW x \in s
    PROVE  Stored(Partly(mem, o, new, s \ {x}), o, x, new[x]) = Partly(mem, o, new, s)
<1> DEFINE m    == Partly(mem, o, new, s \ {x})
           next == Partly(mem, o, new, s)
           r    == [m EXCEPT ![o][x] = new[x]]
<1>1. IsPartly(m, O, n, mem, o, new, s \ {x}) /\ IsPartly(next, O, n, mem, o, new, s)
  <2>1. s \ {x} \in SUBSET (1 .. n)  OBVIOUS
  <2> QED BY <2>1, PartlyIs
<1> HIDE DEF m, next
<1>2. /\ DOMAIN m = O /\ m = [q \in O |-> m[q]]
      /\ \A q \in O : q # o => m[q] = mem[q]
      /\ DOMAIN m[o] = 1 .. n /\ m[o] = [i \in 1 .. n |-> m[o][i]]
      /\ \A i \in 1 .. n : m[o][i] = IF i \in s \ {x} THEN new[i] ELSE mem[o][i]
  BY <1>1 DEF IsPartly
<1>3. /\ DOMAIN next = O /\ next = [q \in O |-> next[q]]
      /\ \A q \in O : q # o => next[q] = mem[q]
      /\ DOMAIN next[o] = 1 .. n /\ next[o] = [i \in 1 .. n |-> next[o][i]]
      /\ \A i \in 1 .. n : next[o][i] = IF i \in s THEN new[i] ELSE mem[o][i]
  BY <1>1 DEF IsPartly
<1>4. /\ r = [q \in O |-> IF q = o THEN [m[o] EXCEPT ![x] = new[x]] ELSE m[q]]
  BY <1>2
<1>5. [m[o] EXCEPT ![x] = new[x]] = [i \in 1 .. n |-> IF i = x THEN new[x] ELSE m[o][i]]
  BY <1>2
<1> HIDE DEF r
<1>6. [i \in 1 .. n |-> IF i = x THEN new[x] ELSE m[o][i]] = next[o]
  <2>1. \A i \in 1 .. n : (IF i = x THEN new[x] ELSE m[o][i]) = next[o][i]  BY <1>2, <1>3
  <2> QED BY <1>3, <2>1
<1>7. \A q \in O : (IF q = o THEN [m[o] EXCEPT ![x] = new[x]] ELSE m[q]) = next[q]
  BY <1>2, <1>3, <1>5, <1>6
<1>8. r = next  BY <1>3, <1>4, <1>7
<1> QED BY <1>8 DEF r, m, next, Stored

\* Before the first one.
LEMMA PartlyNone ==
    ASSUME NEW O, NEW n \in Nat, NEW mem \in Memories(O, n), NEW o \in O, NEW new
    PROVE  Partly(mem, o, new, {}) = mem
<1> DEFINE m == Partly(mem, o, new, {})
<1>0. IsPartly(m, O, n, mem, o, new, {})  BY PartlyIs
<1> HIDE DEF m
<1>1. /\ m = [q \in O |-> m[q]]
      /\ \A q \in O : q # o => m[q] = mem[q]
      /\ m[o] = [i \in 1 .. n |-> m[o][i]]
      /\ \A i \in 1 .. n : m[o][i] = mem[o][i]
  BY <1>0 DEF IsPartly
<1>2. mem = [q \in O |-> mem[q]] /\ mem[o] = [i \in 1 .. n |-> mem[o][i]]
  BY DEF Memories, WordVectors
<1>3. m[o] = mem[o]  BY <1>1, <1>2
<1>4. m = mem  BY <1>1, <1>2, <1>3
<1> QED BY <1>4 DEF m

\* A loop that gives o the elements of new, one after the other.
Fills(f, mem, o, new, n) ==
    /\ f[{}] = mem
    /\ \A s \in SUBSET (1 .. n) :
          s # {} /\ f[s \ {Max(s)}] = Partly(mem, o, new, s \ {Max(s)}) =>
              f[s] = Partly(mem, o, new, s)

\* In the end it has given all of them.
LEMMA FillsIs ==
    ASSUME NEW O, NEW n \in Nat, NEW mem \in Memories(O, n), NEW o \in O,
           NEW new, new = [i \in 1 .. n |-> new[i]], NEW f, Fills(f, mem, o, new, n)
    PROVE  f[1 .. n] = [mem EXCEPT ![o] = new]
<1> DEFINE E == {k \in 0 .. n : f[1 .. k] = Partly(mem, o, new, 1 .. k)}
<1>1. 0 \in E
  <2>1. 1 .. 0 = {} /\ 0 \in 0 .. n  OBVIOUS
  <2>2. Partly(mem, o, new, {}) = mem  BY PartlyNone
  <2> QED BY <2>1, <2>2 DEF Fills
<1>2. ASSUME NEW k \in 1 .. n, k - 1 \in E PROVE k \in E
  <2>1. k \in Nat \ {0} /\ k \in 0 .. n /\ 1 .. k \in SUBSET (1 .. n)  OBVIOUS
  <2>2. 1 .. k # {} /\ Max(1 .. k) = k /\ (1 .. k) \ {k} = 1 .. k - 1  BY <2>1, UpTo
  <2>3. f[1 .. k - 1] = Partly(mem, o, new, 1 .. k - 1)  BY <1>2
  <2> QED BY <2>1, <2>2, <2>3 DEF Fills
<1> HIDE DEF E
<1>3. n \in E
  <2>1. n \in 0 .. n  OBVIOUS
  <2> QED BY <1>1, <1>2, <2>1, InductionUpTo
<1>4. f[1 .. n] = Partly(mem, o, new, 1 .. n)  BY <1>3 DEF E
<1>5. Partly(mem, o, new, 1 .. n) = [mem EXCEPT ![o] = new]
  <2>1. DOMAIN mem[o] = 1 .. n  BY DEF Memories, WordVectors
  <2>2. new = [i \in 1 .. n |-> new[i]]  OBVIOUS
  <2>3. [i \in DOMAIN mem[o] |-> IF i \in 1 .. n THEN new[i] ELSE mem[o][i]] = new
    BY <2>1, <2>2
  <2> QED BY <2>3 DEF Partly
<1> QED BY <1>4, <1>5

\* o op= p, p being another object or the same one: element by element.
Combined(m, o, op, p, i) == [m EXCEPT ![o][i] = Apply(op, @, m[p][i])]

LEMMA CompoundIs ==
    ASSUME NEW O, NEW n \in Nat, NEW mem \in Memories(O, n), NEW o \in O, NEW p \in O, NEW op
    PROVE  Compound(mem, o, op, p)
             = [mem EXCEPT ![o] = [i \in 1 .. n |-> Apply(op, mem[o][i], mem[p][i])]]
<1> DEFINE seq   == Places(mem[o])
           new   == [i \in 1 .. n |-> Apply(op, mem[o][i], mem[p][i])]
           P(s)  == Partly(mem, o, new, s)
           Is(f) == f = [s \in SUBSET DOMAIN seq |->
                            IF s = {} THEN mem
                            ELSE Combined(f[s \ {Max(s)}], o, op, p, seq[Max(s)])]
           f     == CHOOSE f : Is(f)
<1>1. DOMAIN seq = 1 .. n /\ \A i \in 1 .. n : seq[i] = i
  <2>1. mem[o] \in [1 .. n -> Word]  BY DEF Memories, WordVectors
  <2> QED BY <2>1, PlacesAre
<1>2. Compound(mem, o, op, p) = f[DOMAIN seq]
  BY Zenon DEF Compound, FoldLeft, MapThenFoldSet, Combined
<1>3. \A i \in 1 .. n : new[i] = Apply(op, mem[o][i], mem[p][i])  OBVIOUS
<1> HIDE DEF seq, new
<1>4. ASSUME NEW s \in SUBSET (1 .. n), s # {}
      PROVE  Combined(P(s \ {Max(s)}), o, op, p, seq[Max(s)]) = P(s)
  <2> DEFINE x == Max(s)
             m == P(s \ {x})
  <2>1. x \in s /\ x \in 1 .. n /\ seq[x] = x  BY <1>1, <1>4, MaxIn
  <2> HIDE DEF x
  <2>2. s \ {x} \in SUBSET (1 .. n) /\ x \in 1 .. n \ (s \ {x})  BY <2>1
  <2>3. m[o][x] = mem[o][x] /\ m[p][x] = mem[p][x]
    <3>1. IsPartly(m, O, n, mem, o, new, s \ {x})  BY <2>2, PartlyIs
    <3> HIDE DEF m
    <3> QED BY <2>2, <3>1 DEF IsPartly
  <2>4. Combined(m, o, op, p, x) = Stored(m, o, x, new[x])
    <3> HIDE DEF m
    <3> QED BY <1>3, <2>1, <2>3 DEF Combined, Stored
  <2>5. Stored(m, o, x, new[x]) = P(s)  BY <2>1, PartlyNext
  <2> QED BY <2>1, <2>4, <2>5 DEF x
<1>5. \E h : Is(h)
  <2> DEFINE h == [s \in SUBSET (1 .. n) |-> P(s)]
  <2>1. P({}) = mem  BY PartlyNone
  <2> HIDE DEF P
  <2>2. ASSUME NEW s \in SUBSET (1 .. n)
        PROVE  P(s) = IF s = {} THEN mem
                      ELSE Combined(h[s \ {Max(s)}], o, op, p, seq[Max(s)])
    <3>1. h[s \ {Max(s)}] = P(s \ {Max(s)})  OBVIOUS
    <3> QED BY <1>4, <2>1, <3>1 DEF P
  <2>3. h = [s \in SUBSET (1 .. n) |->
                IF s = {} THEN mem ELSE Combined(h[s \ {Max(s)}], o, op, p, seq[Max(s)])]
    BY <2>2
  <2> HIDE DEF h
  <2>4. Is(h)  BY <1>1, <2>3
  <2> QED BY <2>4
<1>6. Is(f)
  <2> HIDE DEF Is
  <2> QED BY <1>5
<1> HIDE DEF f
<1>7. Fills(f, mem, o, new, n)
  <2>1. \A s \in SUBSET (1 .. n) :
           f[s] = IF s = {} THEN mem ELSE Combined(f[s \ {Max(s)}], o, op, p, seq[Max(s)])
    BY <1>1, <1>6
  <2> QED BY <1>4, <2>1 DEF Fills
<1>8. new = [i \in 1 .. n |-> new[i]]  BY DEF new
<1>9. f[1 .. n] = [mem EXCEPT ![o] = new]  BY <1>7, <1>8, FillsIs
<1> QED BY <1>1, <1>2, <1>9 DEF new

\* o op= rhs, a scalar.
CombinedScalar(m, o, op, rhs, i) == [m EXCEPT ![o][i] = Apply(op, @, rhs)]

LEMMA CompoundScalarIs ==
    ASSUME NEW O, NEW n \in Nat, NEW mem \in Memories(O, n), NEW o \in O, NEW op, NEW rhs
    PROVE  CompoundScalar(mem, o, op, rhs)
             = [mem EXCEPT ![o] = [i \in 1 .. n |-> Apply(op, mem[o][i], rhs)]]
<1> DEFINE seq   == Places(mem[o])
           new   == [i \in 1 .. n |-> Apply(op, mem[o][i], rhs)]
           P(s)  == Partly(mem, o, new, s)
           Is(f) == f = [s \in SUBSET DOMAIN seq |->
                            IF s = {} THEN mem
                            ELSE CombinedScalar(f[s \ {Max(s)}], o, op, rhs, seq[Max(s)])]
           f     == CHOOSE f : Is(f)
<1>1. DOMAIN seq = 1 .. n /\ \A i \in 1 .. n : seq[i] = i
  <2>1. mem[o] \in [1 .. n -> Word]  BY DEF Memories, WordVectors
  <2> QED BY <2>1, PlacesAre
<1>2. CompoundScalar(mem, o, op, rhs) = f[DOMAIN seq]
  BY Zenon DEF CompoundScalar, FoldLeft, MapThenFoldSet, CombinedScalar
<1>3. \A i \in 1 .. n : new[i] = Apply(op, mem[o][i], rhs)  OBVIOUS
<1> HIDE DEF seq, new
<1>4. ASSUME NEW s \in SUBSET (1 .. n), s # {}
      PROVE  CombinedScalar(P(s \ {Max(s)}), o, op, rhs, seq[Max(s)]) = P(s)
  <2> DEFINE x == Max(s)
             m == P(s \ {x})
  <2>1. x \in s /\ x \in 1 .. n /\ seq[x] = x  BY <1>1, <1>4, MaxIn
  <2> HIDE DEF x
  <2>2. s \ {x} \in SUBSET (1 .. n) /\ x \in 1 .. n \ (s \ {x})  BY <2>1
  <2>3. m[o][x] = mem[o][x]
    <3>1. IsPartly(m, O, n, mem, o, new, s \ {x})  BY <2>2, PartlyIs
    <3> HIDE DEF m
    <3> QED BY <2>2, <3>1 DEF IsPartly
  <2>4. CombinedScalar(m, o, op, rhs, x) = Stored(m, o, x, new[x])
    <3> HIDE DEF m
    <3> QED BY <1>3, <2>1, <2>3 DEF CombinedScalar, Stored
  <2>5. Stored(m, o, x, new[x]) = P(s)  BY <2>1, PartlyNext
  <2> QED BY <2>1, <2>4, <2>5 DEF x
<1>5. \E h : Is(h)
  <2> DEFINE h == [s \in SUBSET (1 .. n) |-> P(s)]
  <2>1. P({}) = mem  BY PartlyNone
  <2> HIDE DEF P
  <2>2. ASSUME NEW s \in SUBSET (1 .. n)
        PROVE  P(s) = IF s = {} THEN mem
                      ELSE CombinedScalar(h[s \ {Max(s)}], o, op, rhs, seq[Max(s)])
    <3>1. h[s \ {Max(s)}] = P(s \ {Max(s)})  OBVIOUS
    <3> QED BY <1>4, <2>1, <3>1 DEF P
  <2>3. h = [s \in SUBSET (1 .. n) |->
                IF s = {} THEN mem ELSE CombinedScalar(h[s \ {Max(s)}], o, op, rhs, seq[Max(s)])]
    BY <2>2
  <2> HIDE DEF h
  <2>4. Is(h)  BY <1>1, <2>3
  <2> QED BY <2>4
<1>6. Is(f)
  <2> HIDE DEF Is
  <2> QED BY <1>5
<1> HIDE DEF f
<1>7. Fills(f, mem, o, new, n)
  <2>1. \A s \in SUBSET (1 .. n) :
           f[s] = IF s = {} THEN mem ELSE CombinedScalar(f[s \ {Max(s)}], o, op, rhs, seq[Max(s)])
    BY <1>1, <1>6
  <2> QED BY <1>4, <2>1 DEF Fills
<1>8. new = [i \in 1 .. n |-> new[i]]  BY DEF new
<1>9. f[1 .. n] = [mem EXCEPT ![o] = new]  BY <1>7, <1>8, FillsIs
<1> QED BY <1>1, <1>2, <1>9 DEF new

\* apply.
Applied(m, o, func, i) == [m EXCEPT ![o][i] = func[@]]

LEMMA InPlaceIs ==
    ASSUME NEW O, NEW n \in Nat, NEW mem \in Memories(O, n), NEW o \in O, NEW func
    PROVE  InPlace(mem, o, func)
             = [mem EXCEPT ![o] = [i \in 1 .. n |-> func[mem[o][i]]]]
<1> DEFINE seq   == Places(mem[o])
           new   == [i \in 1 .. n |-> func[mem[o][i]]]
           P(s)  == Partly(mem, o, new, s)
           Is(f) == f = [s \in SUBSET DOMAIN seq |->
                            IF s = {} THEN mem
                            ELSE Applied(f[s \ {Max(s)}], o, func, seq[Max(s)])]
           f     == CHOOSE f : Is(f)
<1>1. DOMAIN seq = 1 .. n /\ \A i \in 1 .. n : seq[i] = i
  <2>1. mem[o] \in [1 .. n -> Word]  BY DEF Memories, WordVectors
  <2> QED BY <2>1, PlacesAre
<1>2. InPlace(mem, o, func) = f[DOMAIN seq]
  BY Zenon DEF InPlace, FoldLeft, MapThenFoldSet, Applied
<1>3. \A i \in 1 .. n : new[i] = func[mem[o][i]]  OBVIOUS
<1> HIDE DEF seq, new
<1>4. ASSUME NEW s \in SUBSET (1 .. n), s # {}
      PROVE  Applied(P(s \ {Max(s)}), o, func, seq[Max(s)]) = P(s)
  <2> DEFINE x == Max(s)
             m == P(s \ {x})
  <2>1. x \in s /\ x \in 1 .. n /\ seq[x] = x  BY <1>1, <1>4, MaxIn
  <2> HIDE DEF x
  <2>2. s \ {x} \in SUBSET (1 .. n) /\ x \in 1 .. n \ (s \ {x})  BY <2>1
  <2>3. m[o][x] = mem[o][x]
    <3>1. IsPartly(m, O, n, mem, o, new, s \ {x})  BY <2>2, PartlyIs
    <3> HIDE DEF m
    <3> QED BY <2>2, <3>1 DEF IsPartly
  <2>4. Applied(m, o, func, x) = Stored(m, o, x, new[x])
    <3> HIDE DEF m
    <3> QED BY <1>3, <2>1, <2>3 DEF Applied, Stored
  <2>5. Stored(m, o, x, new[x]) = P(s)  BY <2>1, PartlyNext
  <2> QED BY <2>1, <2>4, <2>5 DEF x
<1>5. \E h : Is(h)
  <2> DEFINE h == [s \in SUBSET (1 .. n) |-> P(s)]
  <2>1. P({}) = mem  BY PartlyNone
  <2> HIDE DEF P
  <2>2. ASSUME NEW s \in SUBSET (1 .. n)
        PROVE  P(s) = IF s = {} THEN mem
                      ELSE Applied(h[s \ {Max(s)}], o, func, seq[Max(s)])
    <3>1. h[s \ {Max(s)}] = P(s \ {Max(s)})  OBVIOUS
    <3> QED BY <1>4, <2>1, <3>1 DEF P
  <2>3. h = [s \in SUBSET (1 .. n) |->
                IF s = {} THEN mem ELSE Applied(h[s \ {Max(s)}], o, func, seq[Max(s)])]
    BY <2>2
  <2> HIDE DEF h
  <2>4. Is(h)  BY <1>1, <2>3
  <2> QED BY <2>4
<1>6. Is(f)
  <2> HIDE DEF Is
  <2> QED BY <1>5
<1> HIDE DEF f
<1>7. Fills(f, mem, o, new, n)
  <2>1. \A s \in SUBSET (1 .. n) :
           f[s] = IF s = {} THEN mem ELSE Applied(f[s \ {Max(s)}], o, func, seq[Max(s)])
    BY <1>1, <1>6
  <2> QED BY <1>4, <2>1 DEF Fills
<1>8. new = [i \in 1 .. n |-> new[i]]  BY DEF new
<1>9. f[1 .. n] = [mem EXCEPT ![o] = new]  BY <1>7, <1>8, FillsIs
<1> QED BY <1>1, <1>2, <1>9 DEF new

-------------------------------------------------------------------------------
(* The arithmetic of words.                                                       *)

\* Words are the naturals below Size(Element).
LEMMA WordsAre ==
    /\ IsType(Element) /\ Size(Element) \in Nat \ {0}
    /\ Word = 0 .. Size(Element) - 1 /\ Word \subseteq Nat
<1> DEFINE M == Size(Element)
<1>1. IsType(Element) /\ ~Element.signed  BY VectorsAssumption DEF Element, IsType
<1>2. Least(Element) = 0  BY <1>1 DEF Least
<1>3. M \in Nat \ {0} /\ Values(Element) = 0 .. 0 + M - 1  BY <1>1, <1>2, ValuesAre
<1> HIDE DEF M
<1>4. Values(Element) = 0 .. M - 1 /\ 0 .. M - 1 \subseteq Nat  BY <1>3
<1> QED BY <1>1, <1>3, <1>4 DEF M, Word

\* The numbers that differ by a multiple of Size(Element) are the same word.
LEMMA WrapIs ==
    ASSUME NEW k \in Int
    PROVE  /\ Wrap(k) \in Word /\ Wrap(k) \in Int /\ (k \in Word => Wrap(k) = k)
           /\ \E c \in Int : Wrap(k) = k + c * Size(Element)
BY AsIs, WordsAre DEF Wrap, Word

LEMMA SameWord ==
    ASSUME NEW a \in Int, NEW b \in Int, NEW c \in Int, a = b + c * Size(Element)
    PROVE  Wrap(a) = Wrap(b)
<1> DEFINE M == Size(Element)
           x == Wrap(a)
           y == Wrap(b)
<1>1. M \in Nat \ {0} /\ Word = 0 .. M - 1  BY WordsAre
<1>2. PICK c1 \in Int : x = a + c1 * M  BY WrapIs
<1>3. PICK c2 \in Int : y = b + c2 * M  BY WrapIs
<1>4. x \in 0 .. M - 1 /\ y \in 0 .. M - 1  BY <1>1, WrapIs
<1>5. a = b + c * M  OBVIOUS
<1> HIDE DEF M, x, y
<1> DEFINE k == c + c1 - c2
<1>6. k \in Int /\ k * M = c * M + c1 * M - c2 * M  BY <1>1
<1>7. c * M \in Int /\ c1 * M \in Int /\ c2 * M \in Int /\ 0 * M = 0  BY <1>1
<1> HIDE DEF k
<1>8. 0 * M + x = k * M + y  BY <1>2, <1>3, <1>5, <1>6, <1>7
<1>9. x = y  BY <1>1, <1>4, <1>6, <1>8, Quotients, 0 \in Int
<1> QED BY <1>9 DEF x, y

\* A sum or a product of which a part is wrapped early.
LEMMA WrapEarly ==
    ASSUME NEW a \in Int, NEW b \in Int
    PROVE  /\ Wrap(Wrap(a) + b) = Wrap(a + b) /\ Wrap(b + Wrap(a)) = Wrap(b + a)
           /\ Wrap(b - Wrap(a)) = Wrap(b - a) /\ Wrap(-Wrap(a)) = Wrap(-a)
           /\ Wrap(Wrap(a) * b) = Wrap(a * b) /\ Wrap(b * Wrap(a)) = Wrap(b * a)
<1> DEFINE M == Size(Element)
           x == Wrap(a)
<1>1. M \in Nat \ {0}  BY WordsAre
<1>2. PICK c \in Int : x = a + c * M  BY WrapIs
<1>3. x \in Int  BY WrapIs
<1>0. \A i, j, k \in Int : i = j + k * M => Wrap(i) = Wrap(j)  BY SameWord
<1> HIDE DEF M, x
<1> DEFINE d == c * M
<1>4. d \in Int /\ x = a + d /\ (-c) * M = -d /\ (c * b) * M = d * b /\ d = c * M
  BY <1>1, <1>2
<1> HIDE DEF d
<1>5. /\ x + b = (a + b) + d /\ b + x = (b + a) + d /\ b - x = (b - a) + -d
      /\ -x = -a + -d
  BY <1>4
<1>6. x * b = a * b + d * b /\ b * x = b * a + d * b  BY <1>4
<1>7. Wrap(x + b) = Wrap(a + b) /\ Wrap(b + x) = Wrap(b + a)
  <2>1. x + b \in Int /\ a + b \in Int /\ b + x \in Int /\ b + a \in Int  BY <1>3
  <2> QED BY <1>0, <1>4, <1>5, <2>1
<1>8. Wrap(b - x) = Wrap(b - a) /\ Wrap(-x) = Wrap(-a)
  <2>1. b - x \in Int /\ b - a \in Int /\ -x \in Int /\ -a \in Int /\ -c \in Int  BY <1>3
  <2> QED BY <1>0, <1>4, <1>5, <2>1
<1>9. Wrap(x * b) = Wrap(a * b) /\ Wrap(b * x) = Wrap(b * a)
  <2>1. x * b \in Int /\ a * b \in Int /\ b * x \in Int /\ b * a \in Int /\ c * b \in Int
    BY <1>3
  <2> QED BY <1>0, <1>4, <1>6, <2>1
<1> QED BY <1>7, <1>8, <1>9 DEF x

\* What an operator gives is a word.
LEMMA ApplyTyped ==
    ASSUME NEW op \in Operators, NEW x \in Word, NEW y \in Word, Defined(op, y)
    PROVE  Apply(op, x, y) \in Word
<1>1. x \in Nat /\ y \in Nat  BY WordsAre
<1>2. CASE op = "+"
  <2>1. Wrap(x + y) \in Word  BY <1>1, WrapIs, x + y \in Int
  <2> QED BY <1>2, <2>1 DEF Apply
<1>3. CASE op = "-"
  <2>1. Wrap(x - y) \in Word  BY <1>1, WrapIs, x - y \in Int
  <2> QED BY <1>3, <2>1 DEF Apply
<1>4. CASE op = "*"
  <2>1. Wrap(x * y) \in Word  BY <1>1, WrapIs, x * y \in Int
  <2> QED BY <1>4, <2>1 DEF Apply
<1>5. CASE op = "/"
  <2>1. y \in Nat \ {0}  BY <1>1, <1>5 DEF Defined
  <2> DEFINE q == x \div y
  <2>2. q \in Nat /\ q * y \in Nat /\ q * y <= x  BY <1>1, <2>1, Remains
  <2> HIDE DEF q
  <2>3. q <= q * y  BY <2>1, <2>2
  <2>4. q <= x  BY <1>1, <2>2, <2>3
  <2>5. q \in Word  BY <1>1, <2>2, <2>4, WordsAre
  <2>6. Apply(op, x, y) = q  BY <1>5 DEF Apply, q
  <2> QED BY <2>5, <2>6
<1> QED BY <1>2, <1>3, <1>4, <1>5 DEF Operators

-------------------------------------------------------------------------------
(* Sums.                                                                          *)

\* A pass that adds the terms of t, and its results one after the other.
Sum(f, n, t) == f = [s \in SUBSET (1 .. n) |->
    IF s = {} THEN 0 ELSE Wrap(f[s \ {Max(s)}] + t[Max(s)])]

Sums(g, n, t) == /\ g \in [0 .. n -> Int] /\ g[0] = 0
                 /\ \A k \in 1 .. n : g[k - 1] \in Int /\ g[k] = Wrap(g[k - 1] + t[k])

\* There is such a pass, and every one ends with the last of these results.
LEMMA SumIs ==
    ASSUME NEW n \in Nat, NEW t \in [1 .. n -> Int]
    PROVE  /\ \E h : Sum(h, n, t)
           /\ \A f : Sum(f, n, t) => \E g : Sums(g, n, t) /\ g[n] = f[1 .. n]
<1> DEFINE G == [p \in Int \X (1 .. n) |-> Wrap(p[1] + t[p[2]])]
<1>1. \A r \in Int, k \in 1 .. n : <<r, k>> \in Int \X (1 .. n)
                                   /\ G[<<r, k>>] = Wrap(r + t[k])
  OBVIOUS
<1>2. G \in [Int \X (1 .. n) -> Int]
  <2>1. \A p \in Int \X (1 .. n) : p[1] + t[p[2]] \in Int  OBVIOUS
  <2>2. \A p \in Int \X (1 .. n) : Wrap(p[1] + t[p[2]]) \in Int  BY <2>1, WrapIs
  <2> QED BY <2>2
<1> HIDE DEF G
<1>3. \A s \in SUBSET (1 .. n) : s # {} => Max(s) \in 1 .. n /\ s \ {Max(s)} \in SUBSET (1 .. n)
  BY MaxIn
<1>4. \E h : Sum(h, n, t)
  <2>1. PICK h \in [SUBSET (1 .. n) -> Int] : Passes(h, n, 0, G)  BY <1>2, PassExists, 0 \in Int
  <2>2. ASSUME NEW s \in SUBSET (1 .. n)
        PROVE  h[s] = IF s = {} THEN 0 ELSE Wrap(h[s \ {Max(s)}] + t[Max(s)])
    <3>1. h[s] = IF s = {} THEN 0 ELSE G[<<h[s \ {Max(s)}], Max(s)>>]  BY <2>1 DEF Passes
    <3>2. s # {} => h[s \ {Max(s)}] \in Int /\ Max(s) \in 1 .. n  BY <1>3, <2>1
    <3> QED BY <1>1, <3>1, <3>2
  <2>3. h = [s \in SUBSET (1 .. n) |-> h[s]]  BY <2>1
  <2> QED BY <2>2, <2>3 DEF Sum
<1>5. ASSUME NEW f, Sum(f, n, t) PROVE \E g : Sums(g, n, t) /\ g[n] = f[1 .. n]
  <2>1. \A s \in SUBSET (1 .. n) :
           f[s] = IF s = {} THEN 0 ELSE Wrap(f[s \ {Max(s)}] + t[Max(s)])
    BY <1>5 DEF Sum
  <2>2. PassesIn(f, n, Int, 0, G)  BY <1>1, <1>3, <2>1 DEF PassesIn
  <2>3. \E g : Runs(g, n, Int, 0, G) /\ g[n] = f[1 .. n]
    <3>1. RunsTo(f, n, Int, 0, G)  BY <1>2, <2>2, PassRuns, 0 \in Int
    <3> QED BY <3>1 DEF RunsTo
  <2>4. PICK g : Runs(g, n, Int, 0, G) /\ g[n] = f[1 .. n]  BY <2>3
  <2>5. Sums(g, n, t)  BY <1>1, <2>4 DEF Runs, Sums
  <2> QED BY <2>4, <2>5
<1> QED BY <1>4, <1>5

\* Two sums of which one is what F makes of the other, all along.
Maps(F, n, t, u) ==
    F[0] = 0 /\ \A k \in 1 .. n, r \in Int : F[Wrap(r + t[k])] = Wrap(F[r] + u[k])

LEMMA SumsAgree ==
    ASSUME NEW n \in Nat, NEW t, NEW u, NEW g, NEW h, Sums(g, n, t), Sums(h, n, u),
           NEW F, Maps(F, n, t, u)
    PROVE  h[n] = F[g[n]]
<1> DEFINE E == {k \in 0 .. n : h[k] = F[g[k]]}
<1>1. 0 \in E  BY DEF Sums, Maps
<1>2. ASSUME NEW k \in 1 .. n, k - 1 \in E PROVE k \in E
  <2>1. h[k - 1] = F[g[k - 1]] /\ g[k - 1] \in Int  BY <1>2 DEF Sums
  <2>2. g[k] = Wrap(g[k - 1] + t[k]) /\ h[k] = Wrap(h[k - 1] + u[k])  BY DEF Sums
  <2>3. k \in 0 .. n  OBVIOUS
  <2> QED BY <2>1, <2>2, <2>3 DEF Maps
<1> HIDE DEF E
<1>3. n \in E  BY <1>1, <1>2, InductionUpTo
<1> QED BY <1>3 DEF E

\* A dot product is such a sum.
LEMMA DotIs ==
    ASSUME NEW n \in Nat, NEW v \in WordVectors(n), NEW w \in WordVectors(n),
           NEW t, t = [i \in 1 .. n |-> Apply("*", v[i], w[i])]
    PROVE  t \in [1 .. n -> Int] /\ \E g : Sums(g, n, t) /\ Dot(v, w) = g[n]
<1> DEFINE seq   == Places(v)
           Is(f) == f = [s \in SUBSET DOMAIN seq |->
               IF s = {} THEN 0
               ELSE Wrap(f[s \ {Max(s)}] + Apply("*", v[seq[Max(s)]], w[seq[Max(s)]]))]
           f     == CHOOSE f : Is(f)
<1>1. DOMAIN seq = 1 .. n /\ \A i \in 1 .. n : seq[i] = i  BY PlacesAre DEF WordVectors
<1>2. Dot(v, w) = f[DOMAIN seq]  BY Zenon DEF Dot, FoldLeft, MapThenFoldSet
<1>3. t \in [1 .. n -> Int]
  <2>1. ASSUME NEW i \in 1 .. n PROVE Apply("*", v[i], w[i]) \in Int
    <3>1. v[i] \in Int /\ w[i] \in Int  BY WordsAre DEF WordVectors
    <3>2. v[i] * w[i] \in Int  BY <3>1
    <3> QED BY <3>2, WrapIs DEF Apply
  <2> QED BY <2>1
<1>4. \A i \in 1 .. n : t[i] = Apply("*", v[i], w[i])  OBVIOUS
<1> HIDE DEF seq
<1>5. ASSUME NEW h PROVE Is(h) <=> Sum(h, n, t)
  <2>1. ASSUME NEW s \in SUBSET (1 .. n)
        PROVE  (IF s = {} THEN 0
                ELSE Wrap(h[s \ {Max(s)}] + Apply("*", v[seq[Max(s)]], w[seq[Max(s)]])))
               = (IF s = {} THEN 0 ELSE Wrap(h[s \ {Max(s)}] + t[Max(s)]))
    <3>1. s # {} => Max(s) \in 1 .. n  BY MaxIn
    <3> QED BY <1>1, <1>4, <3>1
  <2>2. [s \in SUBSET (1 .. n) |->
               IF s = {} THEN 0
               ELSE Wrap(h[s \ {Max(s)}] + Apply("*", v[seq[Max(s)]], w[seq[Max(s)]]))]
        = [s \in SUBSET (1 .. n) |->
               IF s = {} THEN 0 ELSE Wrap(h[s \ {Max(s)}] + t[Max(s)])]
    BY <2>1
  <2> QED BY <1>1, <2>2, Zenon DEF Sum
<1> HIDE DEF Is
<1>6. Is(f)
  <2>1. \E h : Is(h)  BY <1>3, <1>5, SumIs
  <2> QED BY <2>1
<1> HIDE DEF f
<1>7. Sum(f, n, t)  BY <1>5, <1>6
<1>8. \E g : Sums(g, n, t) /\ g[n] = f[1 .. n]  BY <1>3, <1>7, SumIs
<1>9. Dot(v, w) = f[1 .. n]  BY <1>1, <1>2
<1> QED BY <1>3, <1>8, <1>9

-------------------------------------------------------------------------------
(* The operators of vectors agree.                                                *)

\* The operators that work on a copy of their left operand.
LEMMA BinaryIs ==
    ASSUME NEW n \in Nat, NEW v \in WordVectors(n), NEW w \in WordVectors(n), NEW op
    PROVE  Binary(op, v, w) = [i \in 1 .. n |-> Apply(op, v[i], w[i])]
<1> DEFINE mem == [lhs |-> v, rhs |-> w]
           O   == {"lhs", "rhs"}
           sum == [i \in 1 .. n |-> Apply(op, v[i], w[i])]
<1>1. DOMAIN mem = O /\ mem["lhs"] = v /\ mem["rhs"] = w  OBVIOUS
<1>2. mem \in Memories(O, n)
  <2>1. mem = [q \in O |-> mem[q]]  OBVIOUS
  <2> HIDE DEF mem
  <2>2. \A q \in O : mem[q] \in WordVectors(n)  BY <1>1
  <2> QED BY <2>1, <2>2 DEF Memories
<1>3. Binary(op, v, w) = Compound(mem, "lhs", op, "rhs").lhs  BY DEF Binary
<1> HIDE DEF mem
<1>4. Compound(mem, "lhs", op, "rhs")
        = [mem EXCEPT !["lhs"] = [i \in 1 .. n |-> Apply(op, mem["lhs"][i], mem["rhs"][i])]]
  BY <1>2, CompoundIs, "lhs" \in O, "rhs" \in O
<1>5. Compound(mem, "lhs", op, "rhs").lhs = sum  BY <1>1, <1>4
<1> QED BY <1>3, <1>5

LEMMA BinaryScalarIs ==
    ASSUME NEW n \in Nat, NEW v \in WordVectors(n), NEW op, NEW rhs
    PROVE  BinaryScalar(op, v, rhs) = [i \in 1 .. n |-> Apply(op, v[i], rhs)]
<1> DEFINE mem == [lhs |-> v]
           O   == {"lhs"}
           sum == [i \in 1 .. n |-> Apply(op, v[i], rhs)]
<1>1. DOMAIN mem = O /\ mem["lhs"] = v  OBVIOUS
<1>2. mem \in Memories(O, n)
  <2>1. mem = [q \in O |-> mem[q]]  OBVIOUS
  <2> HIDE DEF mem
  <2>2. \A q \in O : mem[q] \in WordVectors(n)  BY <1>1
  <2> QED BY <2>1, <2>2 DEF Memories
<1>3. BinaryScalar(op, v, rhs) = CompoundScalar(mem, "lhs", op, rhs).lhs  BY DEF BinaryScalar
<1> HIDE DEF mem
<1>4. CompoundScalar(mem, "lhs", op, rhs)
        = [mem EXCEPT !["lhs"] = [i \in 1 .. n |-> Apply(op, mem["lhs"][i], rhs)]]
  BY <1>2, CompoundScalarIs, "lhs" \in O
<1>5. CompoundScalar(mem, "lhs", op, rhs).lhs = sum  BY <1>1, <1>4
<1> QED BY <1>3, <1>5

\* Subtraction is the opposite of the one the other way round, and addition undoes it.
LEMMA Subtraction ==
    ASSUME NEW x \in Word, NEW y \in Word
    PROVE  /\ Apply("-", x, y) \in Word /\ Apply("-", x, y) \in Int
           /\ Apply("-", x, y) = Wrap(-Apply("-", y, x))
           /\ Apply("+", Apply("-", x, y), y) = x
<1>1. x \in Int /\ y \in Int /\ x - y \in Int /\ y - x \in Int  BY WordsAre
<1>2. Apply("-", x, y) = Wrap(x - y) /\ Apply("-", y, x) = Wrap(y - x)  BY DEF Apply
<1>3. Apply("+", Apply("-", x, y), y) = Wrap(Wrap(x - y) + y)  BY <1>2 DEF Apply
<1>4. -(y - x) = x - y /\ (x - y) + y = x  BY <1>1
<1>5. Wrap(-Wrap(y - x)) = Wrap(x - y)  BY <1>1, <1>4, WrapEarly
<1>6. Wrap(Wrap(x - y) + y) = x
  <2>1. Wrap(Wrap(x - y) + y) = Wrap((x - y) + y)  BY <1>1, WrapEarly
  <2>2. Wrap(x) = x  BY <1>1, WrapIs
  <2> QED BY <1>4, <2>1, <2>2
<1>7. Wrap(x - y) \in Word /\ Wrap(x - y) \in Int  BY <1>1, WrapIs
<1> QED BY <1>2, <1>3, <1>5, <1>6, <1>7

\* The terms are the same the other way round.
LEMMA DotCommutes ==
    ASSUME NEW n \in Nat, NEW v \in WordVectors(n), NEW w \in WordVectors(n)
    PROVE  Dot(v, w) = Dot(w, v)
<1> DEFINE t == [i \in 1 .. n |-> Apply("*", v[i], w[i])]
           u == [i \in 1 .. n |-> Apply("*", w[i], v[i])]
           F == [r \in Int |-> r]
<1>1. PICK g : Sums(g, n, t) /\ Dot(v, w) = g[n]  BY DotIs
<1>2. PICK h : Sums(h, n, u) /\ Dot(w, v) = h[n]  BY DotIs
<1>3. \A i \in 1 .. n : t[i] = u[i] /\ t[i] \in Int
  <2>1. TAKE i \in 1 .. n
  <2>2. v[i] \in Int /\ w[i] \in Int  BY WordsAre DEF WordVectors
  <2>3. v[i] * w[i] = w[i] * v[i] /\ v[i] * w[i] \in Int  BY <2>2
  <2>4. t[i] = Wrap(v[i] * w[i]) /\ u[i] = Wrap(w[i] * v[i])  BY DEF Apply
  <2> QED BY <2>3, <2>4, WrapIs
<1> HIDE DEF t, u
<1>4. Maps(F, n, t, u)
  <2>1. \A k \in 1 .. n, r \in Int : Wrap(r + t[k]) \in Int  BY <1>3, WrapIs
  <2> QED BY <1>3, <2>1 DEF Maps
<1>5. g[n] \in Int  BY <1>1 DEF Sums
<1> HIDE DEF F
<1>6. h[n] = F[g[n]]  BY <1>1, <1>2, <1>4, SumsAgree
<1> QED BY <1>1, <1>2, <1>5, <1>6 DEF F

\* A factor of a vector is a factor of its products.
LEMMA DotScales ==
    ASSUME NEW n \in Nat, NEW v \in WordVectors(n), NEW w \in WordVectors(n), NEW x \in Word
    PROVE  Dot(BinaryScalar("*", v, x), w) = Apply("*", x, Dot(v, w))
<1> DEFINE vx == [i \in 1 .. n |-> Apply("*", v[i], x)]
           t  == [i \in 1 .. n |-> Apply("*", v[i], w[i])]
           u  == [i \in 1 .. n |-> Apply("*", vx[i], w[i])]
           F  == [r \in Int |-> Wrap(x * r)]
<1>0. x \in Int  BY WordsAre
<1>1. vx \in WordVectors(n) /\ BinaryScalar("*", v, x) = vx
  <2>1. ASSUME NEW i \in 1 .. n PROVE Apply("*", v[i], x) \in Word
    BY ApplyTyped DEF WordVectors, Defined, Operators
  <2> QED BY <2>1, BinaryScalarIs DEF WordVectors
<1>2. PICK g : Sums(g, n, t) /\ Dot(v, w) = g[n]  BY DotIs
<1>3. PICK h : Sums(h, n, u) /\ Dot(vx, w) = h[n]  BY <1>1, DotIs
<1>4. F[0] = 0
  <2>1. x * 0 = 0 /\ 0 \in Int  BY <1>0
  <2>2. Wrap(0) = 0
    <3>1. 0 \in Word  BY WordsAre
    <3> QED BY <3>1, WrapIs
  <2> QED BY <2>1, <2>2
<1>5. ASSUME NEW k \in 1 .. n, NEW r \in Int PROVE F[Wrap(r + t[k])] = Wrap(F[r] + u[k])
  <2> DEFINE a == v[k]
             b == w[k]
             p == a * b
  <2>1. a \in Int /\ b \in Int  BY WordsAre DEF WordVectors
  <2>2. t[k] = Wrap(a * b) /\ u[k] = Wrap(Wrap(a * x) * b)  BY DEF Apply
  <2> HIDE DEF a, b, t, u
  <2>3. p \in Int /\ (a * x) * b = x * p /\ a * x \in Int  BY <1>0, <2>1
  <2> HIDE DEF p
  <2>4. u[k] = Wrap(x * p)  BY <2>1, <2>2, <2>3, WrapEarly
  <2>5. x * r \in Int /\ x * p \in Int /\ r + p \in Int /\ x * (r + p) = x * r + x * p
    BY <1>0, <2>3
  <2>6. Wrap(r + t[k]) = Wrap(r + p) /\ Wrap(r + t[k]) \in Int
    <3>1. t[k] = Wrap(p)  BY <2>2 DEF p
    <3> QED BY <2>3, <2>5, <3>1, WrapEarly, WrapIs
  <2>7. F[Wrap(r + t[k])] = Wrap(x * (r + p))
    <3>1. F[Wrap(r + t[k])] = Wrap(x * Wrap(r + t[k]))  BY <2>6
    <3>2. Wrap(x * Wrap(r + p)) = Wrap(x * (r + p))  BY <1>0, <2>5, WrapEarly
    <3> QED BY <2>6, <3>1, <3>2
  <2>8. Wrap(F[r] + u[k]) = Wrap(x * r + x * p)
    <3> DEFINE c == x * r
               d == x * p
    <3>1. F[r] = Wrap(c) /\ u[k] = Wrap(d) /\ c \in Int /\ d \in Int  BY <2>4, <2>5
    <3> HIDE DEF c, d, F
    <3>2. Wrap(Wrap(c) + Wrap(d)) = Wrap(c + d)
      <4>1. Wrap(c) \in Int  BY <3>1, WrapIs
      <4>2. Wrap(Wrap(c) + Wrap(d)) = Wrap(Wrap(c) + d)  BY <3>1, <4>1, WrapEarly
      <4>3. Wrap(Wrap(c) + d) = Wrap(c + d)  BY <3>1, WrapEarly
      <4> QED BY <4>2, <4>3
    <3> QED BY <3>1, <3>2 DEF c, d
  <2> QED BY <2>5, <2>7, <2>8
<1>6. g[n] \in Int  BY <1>2 DEF Sums
<1>7. Maps(F, n, t, u)
  <2> HIDE DEF F, t, u
  <2> QED BY <1>4, <1>5 DEF Maps
<1> HIDE DEF F, t, u, vx
<1>8. h[n] = F[g[n]]  BY <1>2, <1>3, <1>7, SumsAgree
<1> QED BY <1>1, <1>2, <1>3, <1>6, <1>8 DEF F, Apply

\* To a type of the same bits and back.
LEMMA ConvertBack ==
    ASSUME NEW signed \in BOOLEAN, NEW T, T = [Element EXCEPT !.signed = signed],
           NEW n, NEW v \in WordVectors(n)
    PROVE  Convert(Element, Convert(T, v)) = v
<1>1. IsType(T) /\ T.bits = ElementBits /\ Element.bits = ElementBits
  BY VectorsAssumption DEF Element, IsType
<1>2. Size(T) = Size(Element)  BY <1>1 DEF Size
<1>3. ASSUME NEW x \in Word PROVE As(Element, As(T, x)) = x
  <2>1. x \in Int /\ Size(T) \in Int  BY <1>1, WordsAre, AsIs
  <2>2. As(T, x) \in Int /\ \E c \in Int : As(T, x) = x + c * Size(Element)
    BY <1>1, <1>2, <2>1, AsIs
  <2>3. Wrap(As(T, x)) = Wrap(x)  BY <2>1, <2>2, SameWord
  <2>4. Wrap(x) = x  BY <2>1, WrapIs
  <2> QED BY <2>3, <2>4 DEF Wrap
<1>4. v = [i \in 1 .. n |-> v[i]] /\ \A i \in 1 .. n : v[i] \in Word  BY DEF WordVectors
<1>5. Convert(Element, Convert(T, v)) = [i \in 1 .. n |-> As(Element, As(T, v[i]))]
  BY <1>4 DEF Convert
<1> QED BY <1>3, <1>4, <1>5

\* All of VectorsAgree, for objects of any words.
LEMMA OperatorsAgree == TypedMemory => VectorsAgree
<1> DEFINE n == VecSize
<1> SUFFICES ASSUME TypedMemory, kind = "vector", NEW o \in Objects, NEW p \in Objects,
                    NEW v, v = memory[o], NEW w, w = memory[p]
             PROVE
       /\ \A op \in Operators : (\A i \in 1 .. VecSize : Defined(op, w[i])) =>
             /\ Compound(memory, o, op, p)[o] = [i \in 1 .. VecSize |-> Apply(op, v[i], w[i])]
             /\ Binary(op, v, w) = Compound(memory, o, op, p)[o]
       /\ \A op \in Operators, i \in 1 .. VecSize : Defined(op, v[i]) =>
             CompoundScalar(memory, o, op, v[i])[o]
                = Binary(op, v, [j \in 1 .. VecSize |-> v[i]])
       /\ Equal(Binary("-", v, w), Negate(Binary("-", w, v)))
       /\ Equal(Binary("+", Binary("-", v, w), w), v)
       /\ Dot(v, w) = Dot(w, v)
       /\ \A x \in Word : /\ Equal(ScalarBinary("-", x, v), Negate(BinaryScalar("-", v, x)))
                          /\ Dot(BinaryScalar("*", v, x), w) = Apply("*", x, Dot(v, w))
       /\ LET func == [e \in Word |-> Apply("-", 1, e)]
          IN InPlace(memory, o, func)[o] = Transform(v, func)
       /\ \A signed \in BOOLEAN : LET T == [Element EXCEPT !.signed = signed] IN
             Convert(Element, Convert(T, Binary("+", v, w)))
                = Binary("+", Convert(Element, Convert(T, v)), Convert(Element, Convert(T, w)))
  BY DEF VectorsAgree
<1>1. /\ n \in Nat /\ memory \in Memories(Objects, n)
      /\ v \in WordVectors(n) /\ w \in WordVectors(n)
      /\ DOMAIN v = 1 .. n /\ DOMAIN memory = Objects
      /\ \A i \in 1 .. n : v[i] \in Word /\ w[i] \in Word
  BY VecSizeAssumption DEF TypedMemory, Memories, WordVectors
<1>2. ASSUME NEW op
      PROVE  /\ Compound(memory, o, op, p)[o] = [i \in 1 .. n |-> Apply(op, v[i], w[i])]
             /\ Binary(op, v, w) = Compound(memory, o, op, p)[o]
  BY <1>1, CompoundIs, BinaryIs
<1>3. ASSUME NEW op, NEW i \in 1 .. n
      PROVE  CompoundScalar(memory, o, op, v[i])[o] = Binary(op, v, [j \in 1 .. n |-> v[i]])
  <2> DEFINE c == [j \in 1 .. n |-> v[i]]
  <2>1. c \in WordVectors(n) /\ \A j \in 1 .. n : c[j] = v[i]  BY <1>1 DEF WordVectors
  <2>2. CompoundScalar(memory, o, op, v[i])[o] = [j \in 1 .. n |-> Apply(op, v[j], v[i])]
    BY <1>1, CompoundScalarIs
  <2> HIDE DEF c
  <2>3. Binary(op, v, c) = [j \in 1 .. n |-> Apply(op, v[j], c[j])]  BY <1>1, <2>1, BinaryIs
  <2>4. Binary(op, v, c) = [j \in 1 .. n |-> Apply(op, v[j], v[i])]  BY <2>1, <2>3
  <2> QED BY <2>2, <2>4 DEF c
<1> DEFINE vw == [i \in 1 .. n |-> Apply("-", v[i], w[i])]
           wv == [i \in 1 .. n |-> Apply("-", w[i], v[i])]
<1>4. Binary("-", v, w) = vw /\ Binary("-", w, v) = wv  BY <1>1, BinaryIs
<1>5. vw \in WordVectors(n)  BY <1>1, Subtraction DEF WordVectors
<1>6. Equal(vw, Negate(wv))
  <2>1. \A i \in 1 .. n : vw[i] = Wrap(-wv[i])  BY <1>1, Subtraction
  <2> QED BY <2>1 DEF Equal, Negate
<1>7. Equal(Binary("+", vw, w), v)
  <2> DEFINE b == Binary("+", vw, w)
  <2> HIDE DEF vw
  <2>1. b = [i \in 1 .. n |-> Apply("+", vw[i], w[i])]  BY <1>1, <1>5, BinaryIs
  <2>2. \A i \in 1 .. n : Apply("+", vw[i], w[i]) = v[i]  BY <1>1, Subtraction DEF vw
  <2> HIDE DEF b
  <2>3. Equal(b, v)  BY <2>1, <2>2 DEF Equal
  <2> QED BY <2>3 DEF b
<1>8. ASSUME NEW x \in Word PROVE Equal(ScalarBinary("-", x, v), Negate(BinaryScalar("-", v, x)))
  <2>1. BinaryScalar("-", v, x) = [i \in 1 .. n |-> Apply("-", v[i], x)]
    BY <1>1, BinaryScalarIs
  <2>2. ScalarBinary("-", x, v) = [i \in 1 .. n |-> Apply("-", x, v[i])]
    BY <1>1 DEF ScalarBinary
  <2>3. \A i \in 1 .. n : Apply("-", x, v[i]) = Wrap(-Apply("-", v[i], x))
    BY <1>1, Subtraction
  <2> QED BY <2>1, <2>2, <2>3 DEF Equal, Negate
<1>9. ASSUME NEW func PROVE InPlace(memory, o, func)[o] = Transform(v, func)
  BY <1>1, InPlaceIs DEF Transform
<1>10. ASSUME NEW signed \in BOOLEAN, NEW T, T = [Element EXCEPT !.signed = signed]
       PROVE  Convert(Element, Convert(T, Binary("+", v, w)))
                = Binary("+", Convert(Element, Convert(T, v)), Convert(Element, Convert(T, w)))
  <2> DEFINE b == Binary("+", v, w)
  <2>1. b = [i \in 1 .. n |-> Apply("+", v[i], w[i])]  BY <1>1, BinaryIs
  <2>2. ASSUME NEW i \in 1 .. n PROVE Apply("+", v[i], w[i]) \in Word
    BY <1>1, ApplyTyped DEF Defined, Operators
  <2>3. b \in WordVectors(n)  BY <2>1, <2>2 DEF WordVectors
  <2> HIDE DEF b
  <2>4. /\ Convert(Element, Convert(T, b)) = b
        /\ Convert(Element, Convert(T, v)) = v /\ Convert(Element, Convert(T, w)) = w
    BY <1>1, <1>10, <2>3, ConvertBack
  <2> QED BY <2>4 DEF b
<1>11. /\ Dot(v, w) = Dot(w, v)
       /\ \A x \in Word : Dot(BinaryScalar("*", v, x), w) = Apply("*", x, Dot(v, w))
  BY <1>1, DotCommutes, DotScales
<1> HIDE DEF vw, wv
<1>12. /\ Equal(Binary("-", v, w), Negate(Binary("-", w, v)))
       /\ Equal(Binary("+", Binary("-", v, w), w), v)
  BY <1>4, <1>6, <1>7
<1> QED BY <1>2, <1>3, <1>8, <1>9, <1>10, <1>11, <1>12

\* A step with vectors leaves vectors of words.
LEMMA VectorsStay ==
    ASSUME memory \in Memories(Objects, VecSize), VectorStep
    PROVE  memory' \in Memories(Objects, VecSize)
<1> DEFINE n == VecSize
<1>1. /\ n \in Nat
      /\ \A o \in Objects : /\ memory[o] \in WordVectors(n) /\ DOMAIN memory[o] = 1 .. n
                            /\ \A i \in 1 .. n : memory[o][i] \in Word
  BY VecSizeAssumption DEF Memories, WordVectors
<1>2. ASSUME NEW o \in Objects, NEW new, \A i \in 1 .. n : new[i] \in Word,
             memory' = [memory EXCEPT ![o] = [i \in 1 .. n |-> new[i]]]
      PROVE  memory' \in Memories(Objects, n)
  <2>1. [i \in 1 .. n |-> new[i]] \in WordVectors(n)  BY <1>2 DEF WordVectors
  <2> QED BY <1>2, <2>1 DEF Memories
<1>3. ASSUME NEW o \in Objects, NEW p \in Objects, NEW op \in Operators, Combine(o, op, p)
      PROVE  memory' \in Memories(Objects, n)
  <2> DEFINE new == [i \in 1 .. n |-> Apply(op, memory[o][i], memory[p][i])]
  <2>1. \A i \in 1 .. n : new[i] \in Word  BY <1>1, <1>3, ApplyTyped DEF Combine
  <2>2. memory' = [memory EXCEPT ![o] = new]  BY <1>1, <1>3, CompoundIs DEF Combine
  <2>3. new = [i \in 1 .. n |-> new[i]]  OBVIOUS
  <2> HIDE DEF new
  <2> QED BY <1>2, <2>1, <2>2, <2>3
<1>4. ASSUME NEW o \in Objects, NEW op \in Operators, NEW x \in Word, CombineWith(o, op, x)
      PROVE  memory' \in Memories(Objects, n)
  <2> DEFINE new == [i \in 1 .. n |-> Apply(op, memory[o][i], x)]
  <2>1. \A i \in 1 .. n : new[i] \in Word  BY <1>1, <1>4, ApplyTyped DEF CombineWith
  <2>2. memory' = [memory EXCEPT ![o] = new]  BY <1>1, <1>4, CompoundScalarIs DEF CombineWith
  <2>3. new = [i \in 1 .. n |-> new[i]]  OBVIOUS
  <2> HIDE DEF new
  <2> QED BY <1>2, <2>1, <2>2, <2>3
<1>5. ASSUME NEW o \in Objects, NEW op \in Operators, NEW x \in Word, CombineFrom(x, op, o)
      PROVE  memory' \in Memories(Objects, n)
  <2> DEFINE new == [i \in 1 .. n |-> Apply(op, x, memory[o][i])]
  <2>1. \A i \in 1 .. n : new[i] \in Word  BY <1>1, <1>5, ApplyTyped DEF CombineFrom
  <2>2. memory' = [memory EXCEPT ![o] = new]  BY <1>1, <1>5 DEF CombineFrom, Put, ScalarBinary
  <2>3. new = [i \in 1 .. n |-> new[i]]  OBVIOUS
  <2> HIDE DEF new
  <2> QED BY <1>2, <2>1, <2>2, <2>3
<1>6. ASSUME NEW o \in Objects, Invert(o) PROVE memory' \in Memories(Objects, n)
  <2> DEFINE new == [i \in 1 .. n |-> Wrap(-memory[o][i])]
  <2>1. ASSUME NEW i \in 1 .. n PROVE new[i] \in Word
    <3>1. memory[o][i] \in Int  BY <1>1, WordsAre
    <3>2. -memory[o][i] \in Int  BY <3>1
    <3> QED BY <3>2, WrapIs
  <2>2. memory' = [memory EXCEPT ![o] = new]  BY <1>1, <1>6 DEF Invert, Put, Negate
  <2>3. new = [i \in 1 .. n |-> new[i]]  OBVIOUS
  <2> HIDE DEF new
  <2> QED BY <1>2, <2>1, <2>2, <2>3
<1> QED BY <1>3, <1>4, <1>5, <1>6 DEF VectorStep

-------------------------------------------------------------------------------
(* Cells of matrices: the cell c is in row c \div Dim and column c % Dim, and Dim  *)
(* turns of the loops are about it.                                               *)

Cells == 0 .. Dim * Dim - 1
Lines == 0 .. Dim - 1

\* A pair of numbers less than Dim counts to less than its square.
LEMMA Pairs ==
    ASSUME NEW D \in Nat \ {0}, NEW n \in Nat \ {0}, NEW a \in 0 .. n - 1, NEW b \in 0 .. D - 1
    PROVE  a * D + b \in 0 .. n * D - 1
<1>1. a * D \in Nat /\ (a + 1) * D = a * D + D /\ n * D \in Nat  OBVIOUS
<1>2. (a + 1) * D <= n * D  OBVIOUS
<1> QED BY <1>1, <1>2

\* Every number below n * D is such a pair.
LEMMA PairOf ==
    ASSUME NEW D \in Nat \ {0}, NEW n \in Nat \ {0}, NEW k \in 0 .. n * D - 1
    PROVE  /\ k \div D \in 0 .. n - 1 /\ k % D \in 0 .. D - 1
           /\ k = (k \div D) * D + (k % D)
<1> DEFINE q == k \div D
           r == k % D
<1>1. q \in Nat /\ r \in 0 .. D - 1 /\ k = q * D + r
  <2>1. n * D \in Nat  OBVIOUS
  <2>2. k \in Nat  BY <2>1
  <2> QED BY <2>2, Division
<1> HIDE DEF q, r
<1>2. q <= n - 1
  <2>1. SUFFICES ASSUME q >= n PROVE FALSE  BY <1>1
  <2>2. n * D <= q * D  BY <1>1, <2>1
  <2>3. n * D \in Nat /\ q * D \in Nat  BY <1>1
  <2> QED BY <1>1, <2>2, <2>3
<1>3. q \in 0 .. n - 1  BY <1>1, <1>2
<1> QED BY <1>1, <1>3 DEF q, r

\* A number and what divides it.
LEMMA DividedBy ==
    ASSUME NEW k \in Nat, NEW D \in Nat \ {0}
    PROVE  k \div D \in Nat /\ k % D \in 0 .. D - 1 /\ k = (k \div D) * D + (k % D)
<1>1. k \div D \in Nat  OBVIOUS
<1>2. k % D \in 0 .. D - 1  OBVIOUS
<1>3. k = (k \div D) * D + (k % D)  OBVIOUS
<1> QED BY <1>1, <1>2, <1>3

\* The row and the column of a cell, and the cell in a row and a column.
LEMMA CellIs ==
    ASSUME NEW c \in Cells
    PROVE  /\ c \in Nat /\ c + 1 \in 1 .. Dim * Dim
           /\ c \div Dim \in Lines /\ c % Dim \in Lines /\ At(c \div Dim, c % Dim) = c + 1
<1> DEFINE S == Dim * Dim
<1>1. S \in Nat /\ c \in 0 .. S - 1  BY VectorsAssumption DEF Cells
<1>2. /\ c \div Dim \in Lines /\ c % Dim \in Lines /\ c = (c \div Dim) * Dim + (c % Dim)
  BY VectorsAssumption, PairOf DEF Cells, Lines
<1>3. At(c \div Dim, c % Dim) = c + 1
  <2> DEFINE e == (c \div Dim) * Dim + (c % Dim)
  <2>1. At(c \div Dim, c % Dim) = e + 1  BY DEF At
  <2> QED BY <1>2, <2>1
<1> HIDE DEF S
<1>4. c \in Nat /\ c + 1 \in 1 .. S  BY <1>1
<1> QED BY <1>2, <1>3, <1>4 DEF S

LEMMA AtIs ==
    ASSUME NEW row \in Lines, NEW col \in Lines
    PROVE  /\ At(row, col) \in 1 .. Dim * Dim
           /\ \E c \in Cells : At(row, col) = c + 1 /\ c \div Dim = row /\ c % Dim = col
<1> DEFINE c == row * Dim + col
<1>1. c \in Cells  BY VectorsAssumption, Pairs DEF Cells, Lines
<1>2. c \div Dim = row /\ c % Dim = col
  <2>1. c \in Int /\ row \in Int  BY <1>1, CellIs DEF Lines
  <2>2. c = row * Dim + col  OBVIOUS
  <2> HIDE DEF c
  <2> QED BY <2>1, <2>2, VectorsAssumption, DivisionIs DEF Lines
<1>3. At(row, col) = c + 1  BY DEF At
<1> HIDE DEF c
<1> QED BY <1>1, <1>2, <1>3, CellIs

\* The row that Turns computes is the one of the cell.
LEMMA NestedDivision ==
    ASSUME NEW n \in Nat, NEW D \in Nat \ {0}
    PROVE  n \div (D * D) = (n \div D) \div D
<1> DEFINE q == n \div D
           r == n % D
           a == q \div D
           b == q % D
           S == D * D
           e == b * D + r
<1>1. q \in Nat /\ r \in 0 .. D - 1 /\ n = q * D + r  BY DividedBy
<1>2. a \in Nat /\ b \in 0 .. D - 1 /\ q = a * D + b
  <2> HIDE DEF q
  <2> QED BY <1>1, DividedBy
<1>3. e \in 0 .. S - 1  BY <1>1, <1>2, Pairs
<1> HIDE DEF q, r, a, b
<1>4. S \in Nat \ {0} /\ a \in Int /\ n \in Int  BY <1>2
<1>5. n = a * S + e
  <2>1. q * D = a * (D * D) + b * D  BY <1>1, <1>2
  <2> DEFINE u == q * D
             v == a * (D * D)
             w == b * D
  <2>2. u \in Int /\ v \in Int /\ w \in Int /\ u = v + w /\ n = u + r  BY <1>1, <1>2, <2>1
  <2>3. n = v + (w + r)
    <3> HIDE DEF u, v, w
    <3> QED BY <1>1, <2>2
  <2> QED BY <2>3
<1> HIDE DEF S, e
<1>6. n \div S = a  BY <1>3, <1>4, <1>5, DivisionIs
<1> QED BY <1>6 DEF S, a, q

\* The turn i about the cell c.
LEMMA TurnsAre ==
    /\ DOMAIN Turns = 1 .. Dim * Dim * Dim /\ Dim * Dim * Dim \in Nat
    /\ \A k \in 1 .. Dim * Dim * Dim : \E c \in Cells, i \in Lines :
          k = c * Dim + i + 1 /\ Turns[k] = [row |-> c \div Dim, col |-> c % Dim, i |-> i]
<1> DEFINE S == Dim * Dim
           N == S * Dim
<1>1. Dim \in Nat \ {0} /\ S \in Nat \ {0} /\ N \in Nat  BY VectorsAssumption
<1>2. DOMAIN Turns = 1 .. N  BY DEF Turns
<1>3. ASSUME NEW k \in 1 .. N
      PROVE  \E c \in Cells, i \in Lines :
                k = c * Dim + i + 1 /\ Turns[k] = [row |-> c \div Dim, col |-> c % Dim, i |-> i]
  <2> DEFINE j == k - 1
             c == j \div Dim
             i == j % Dim
  <2>1. Turns[k] = [row |-> j \div (Dim * Dim), col |-> (j \div Dim) % Dim, i |-> j % Dim]
    BY DEF Turns
  <2>2. j \in 0 .. N - 1 /\ j \in Nat /\ k = j + 1
    <3> HIDE DEF N
    <3> QED BY <1>1
  <2> HIDE DEF j
  <2>3. c \in 0 .. S - 1 /\ i \in 0 .. Dim - 1 /\ j = c * Dim + i
    <3> HIDE DEF S
    <3> QED BY <1>1, <2>2, PairOf
  <2>4. j \div (Dim * Dim) = c \div Dim  BY <1>1, <2>2, NestedDivision
  <2>5. Turns[k] = [row |-> c \div Dim, col |-> c % Dim, i |-> i]  BY <2>1, <2>4
  <2> HIDE DEF c, i
  <2> QED BY <2>2, <2>3, <2>5 DEF Cells, Lines
<1> QED BY <1>1, <1>2, <1>3

-------------------------------------------------------------------------------
(* Turns of the loops.                                                            *)

TurnOf(c, i) == [row |-> c \div Dim, col |-> c % Dim, i |-> i]

\* A store of a word keeps the type.
LEMMA StoreTyped ==
    ASSUME NEW O, NEW n, NEW m \in Memories(O, n), NEW o \in O, NEW x \in 1 .. n, NEW y \in Word
    PROVE  /\ Stored(m, o, x, y) \in Memories(O, n)
           /\ Stored(m, o, x, y)[o][x] = y
           /\ \A z \in 1 .. n : z # x => Stored(m, o, x, y)[o][z] = m[o][z]
           /\ \A q \in O : q # o => Stored(m, o, x, y)[q] = m[q]
<1> DEFINE e == [m[o] EXCEPT ![x] = y]
           s == Stored(m, o, x, y)
<1>1. DOMAIN m = O /\ m = [q \in O |-> m[q]] /\ \A q \in O : m[q] \in WordVectors(n)
  BY DEF Memories
<1>2. m[o] \in [1 .. n -> Word]  BY <1>1 DEF WordVectors
<1>3. e \in [1 .. n -> Word] /\ e[x] = y /\ \A z \in 1 .. n : z # x => e[z] = m[o][z]
  BY <1>2
<1>4. s = [m EXCEPT ![o] = e]  BY DEF Stored
<1> HIDE DEF e, s
<1>5. s = [q \in O |-> IF q = o THEN e ELSE m[q]]  BY <1>1, <1>4
<1>6. s[o] = e /\ \A q \in O : q # o => s[q] = m[q]  BY <1>5
<1>7. s \in Memories(O, n)  BY <1>1, <1>3, <1>5 DEF Memories, WordVectors
<1> QED BY <1>3, <1>6, <1>7 DEF s

\* What turn i about the cell c makes of m, when the two operands are not the same.
Turned(next, m, O, l, r, copy, c, i) ==
    /\ \A q \in O : q # l => next[q] = m[q]
    /\ \A z \in 1 .. Dim * Dim : z # c + 1 => next[l][z] = m[l][z]
    /\ next[l][c + 1] = Wrap((IF i = 0 THEN 0 ELSE m[l][c + 1])
                              + copy[At(c \div Dim, i)] * m[r][At(i, c % Dim)])

LEMMA TurnIs ==
    ASSUME NEW O, NEW m \in Memories(O, Dim * Dim), NEW l \in O, NEW r \in O,
           NEW copy \in WordVectors(Dim * Dim), NEW c \in Cells, NEW i \in Lines
    PROVE  /\ Turn(m, l, r, copy, TurnOf(c, i)) \in Memories(O, Dim * Dim)
           /\ l # r => Turned(Turn(m, l, r, copy, TurnOf(c, i)), m, O, l, r, copy, c, i)
<1> DEFINE S       == Dim * Dim
           k       == c + 1
           a       == At(c \div Dim, i)
           b       == At(i, c % Dim)
           cleared == IF i = 0 THEN Stored(m, l, k, 0) ELSE m
           y       == Wrap(cleared[l][k] + copy[a] * cleared[r][b])
           next    == Turn(m, l, r, copy, TurnOf(c, i))
<1>1. /\ k \in 1 .. S /\ a \in 1 .. S /\ b \in 1 .. S /\ At(c \div Dim, c % Dim) = k
  BY CellIs, AtIs
<1>2. next = Stored(cleared, l, k, y)
  <2>1. /\ TurnOf(c, i).row = c \div Dim /\ TurnOf(c, i).col = c % Dim /\ TurnOf(c, i).i = i
    BY DEF TurnOf
  <2> QED BY <1>1, <2>1 DEF Turn, Stored
<1> HIDE DEF next, S, k, a, b
<1>3. m \in Memories(O, S) /\ copy \in WordVectors(S)  BY DEF S
<1>4. 0 \in Word  BY WordsAre
<1>5. /\ cleared \in Memories(O, S)
      /\ cleared[l][k] = IF i = 0 THEN 0 ELSE m[l][k]
      /\ \A z \in 1 .. S : z # k => cleared[l][z] = m[l][z]
      /\ \A q \in O : q # l => cleared[q] = m[q]
  <2>1. CASE i = 0
    <3>1. cleared = Stored(m, l, k, 0)  BY <2>1
    <3> QED BY <1>1, <1>3, <1>4, <2>1, <3>1, StoreTyped
  <2>2. CASE i # 0  BY <1>3, <2>2
  <2> QED BY <2>1, <2>2
<1> HIDE DEF cleared
<1>6. y \in Word
  <2>1. cleared[l][k] \in Word /\ cleared[r][b] \in Word /\ copy[a] \in Word
    BY <1>1, <1>3, <1>5 DEF Memories, WordVectors
  <2> DEFINE e == cleared[l][k] + copy[a] * cleared[r][b]
  <2>2. e \in Int  BY <2>1, WordsAre
  <2> HIDE DEF e
  <2>3. Wrap(e) \in Word  BY <2>2, WrapIs
  <2> QED BY <2>3 DEF e
<1>7. l # r => y = Wrap((IF i = 0 THEN 0 ELSE m[l][k]) + copy[a] * m[r][b])
  BY <1>5
<1> HIDE DEF y
<1>8. /\ next \in Memories(O, S) /\ next[l][k] = y
      /\ \A z \in 1 .. S : z # k => next[l][z] = m[l][z]
      /\ \A q \in O : q # l => next[q] = m[q]
  BY <1>1, <1>2, <1>5, <1>6, StoreTyped
<1> QED BY <1>7, <1>8 DEF Turned, S, k, a, b, next

\* l *= r turn by turn.
Multiplies(g, O, mem, l, r) ==
    /\ g[0] = mem
    /\ \A k \in 1 .. Dim * Dim * Dim :
          /\ g[k - 1] \in Memories(O, Dim * Dim)
          /\ g[k] = Turn(g[k - 1], l, r, mem[l], Turns[k])

\* There is one such run; it stays in its type, m *= m included.
LEMMA MultiplyRuns ==
    ASSUME NEW O, NEW mem \in Memories(O, Dim * Dim), NEW l \in O, NEW r \in O
    PROVE  /\ MultiplyBy(mem, l, r) \in Memories(O, Dim * Dim)
           /\ \E g : Multiplies(g, O, mem, l, r) /\ MultiplyBy(mem, l, r) = g[Dim * Dim * Dim]
<1> DEFINE N     == Dim * Dim * Dim
           S     == Memories(O, Dim * Dim)
           G     == [p \in S \X (1 .. N) |-> Turn(p[1], l, r, mem[l], Turns[p[2]])]
           Is(f) == f = [s \in SUBSET DOMAIN Turns |->
               IF s = {} THEN mem ELSE Turn(f[s \ {Max(s)}], l, r, mem[l], Turns[Max(s)])]
           f     == CHOOSE f : Is(f)
<1>1. DOMAIN Turns = 1 .. N /\ N \in Nat  BY TurnsAre
<1>2. MultiplyBy(mem, l, r) = f[DOMAIN Turns]
  BY Zenon DEF MultiplyBy, FoldLeft, MapThenFoldSet
<1>3. mem[l] \in WordVectors(Dim * Dim)  BY DEF Memories
<1>4. ASSUME NEW m \in S, NEW k \in 1 .. N
      PROVE  Turn(m, l, r, mem[l], Turns[k]) \in S
  <2>1. PICK c \in Cells, i \in Lines : Turns[k] = TurnOf(c, i)  BY TurnsAre DEF TurnOf
  <2> QED BY <1>3, <2>1, TurnIs
<1> HIDE DEF N, S
<1>5. \A m \in S, k \in 1 .. N : <<m, k>> \in S \X (1 .. N)
                                 /\ G[<<m, k>>] = Turn(m, l, r, mem[l], Turns[k])
  OBVIOUS
<1>6. G \in [S \X (1 .. N) -> S]
  <2>1. \A p \in S \X (1 .. N) : Turn(p[1], l, r, mem[l], Turns[p[2]]) \in S  BY <1>4
  <2> QED BY <2>1
<1> HIDE DEF G
<1>7. \A s \in SUBSET (1 .. N) : s # {} => Max(s) \in 1 .. N /\ s \ {Max(s)} \in SUBSET (1 .. N)
  BY <1>1, MaxIn
<1>8. mem \in S  BY DEF S
<1>9. \E h : Is(h)
  <2>1. PICK h \in [SUBSET (1 .. N) -> S] : Passes(h, N, mem, G)  BY <1>1, <1>6, <1>8, PassExists
  <2>2. ASSUME NEW s \in SUBSET (1 .. N)
        PROVE  h[s] = IF s = {} THEN mem
                      ELSE Turn(h[s \ {Max(s)}], l, r, mem[l], Turns[Max(s)])
    <3>1. h[s] = IF s = {} THEN mem ELSE G[<<h[s \ {Max(s)}], Max(s)>>]  BY <2>1 DEF Passes
    <3>2. s # {} => h[s \ {Max(s)}] \in S /\ Max(s) \in 1 .. N  BY <1>7, <2>1
    <3> QED BY <1>5, <3>1, <3>2
  <2>3. h = [s \in SUBSET (1 .. N) |-> h[s]]  BY <2>1
  <2>4. h = [s \in SUBSET (1 .. N) |->
                IF s = {} THEN mem
                ELSE Turn(h[s \ {Max(s)}], l, r, mem[l], Turns[Max(s)])]
    BY <2>2, <2>3
  <2>5. Is(h)  BY <1>1, <2>4
  <2> QED BY <2>5
<1>10. Is(f)
  <2> HIDE DEF Is
  <2> QED BY <1>9
<1> HIDE DEF f
<1>11. \A s \in SUBSET (1 .. N) :
          f[s] = IF s = {} THEN mem ELSE Turn(f[s \ {Max(s)}], l, r, mem[l], Turns[Max(s)])
  BY <1>1, <1>10
<1>12. PassesIn(f, N, S, mem, G)  BY <1>5, <1>7, <1>11 DEF PassesIn
<1>13. RunsTo(f, N, S, mem, G)  BY <1>1, <1>6, <1>8, <1>12, PassRuns
<1>14. PICK g : Runs(g, N, S, mem, G) /\ g[N] = f[1 .. N]  BY <1>13 DEF RunsTo
<1>15. Multiplies(g, O, mem, l, r)
  <2>1. /\ g[0] = mem
        /\ \A k \in 1 .. N : g[k - 1] \in S /\ g[k] = Turn(g[k - 1], l, r, mem[l], Turns[k])
    BY <1>5, <1>14 DEF Runs
  <2> QED BY <2>1 DEF Multiplies, S, N
<1>16. g[N] \in S  BY <1>1, <1>14 DEF Runs
<1>17. MultiplyBy(mem, l, r) = g[N]  BY <1>1, <1>2, <1>14
<1> QED BY <1>15, <1>16, <1>17 DEF S, N

\* The terms of one element of a product.
Terms(a, b, row, col) == [j \in 1 .. Dim |-> a[At(row, j - 1)] * b[At(j - 1, col)]]

\* What an element is after k turns: none, some or all of the terms have been added.
Upto(e, h, k, b, D) == /\ \A j \in 1 .. D : k = b + j => e = h[j]
                       /\ k > b + D => e = h[D]

\* In the end an element of l *= r is the sum of its terms, r being another object.
LEMMA ElementIs ==
    ASSUME NEW O, NEW mem \in Memories(O, Dim * Dim), NEW l \in O, NEW r \in O, l # r,
           NEW c \in Cells, NEW t, t = Terms(mem[l], mem[r], c \div Dim, c % Dim),
           NEW h, Sums(h, Dim, t)
    PROVE  MultiplyBy(mem, l, r)[l][c + 1] = h[Dim]
<1> DEFINE D == Dim
           N == D * D * D
           b == c * D
<1>1. PICK g : Multiplies(g, O, mem, l, r) /\ MultiplyBy(mem, l, r) = g[N]  BY MultiplyRuns
<1> DEFINE P(k) == g[k][r] = mem[r] /\ Upto(g[k][l][c + 1], h, k, b, D)
           E    == {k \in 0 .. N : P(k)}
<1>2. D \in Nat \ {0} /\ c \in Nat /\ c + 1 \in 1 .. D * D /\ N \in Nat
  BY VectorsAssumption, CellIs, TurnsAre
<1>3. b \in Nat /\ b + D = (c + 1) * D /\ b + D <= N
  <2>1. b \in Nat /\ b + D = (c + 1) * D  BY <1>2
  <2> DEFINE S == D * D
             u == c + 1
  <2>2. S \in Nat /\ u \in Nat /\ u <= S /\ N = S * D  BY <1>2
  <2> HIDE DEF S, u, N, b, D
  <2>3. u * D <= S * D  BY <1>2, <2>2
  <2>4. b + D <= N  BY <2>1, <2>2, <2>3 DEF u
  <2> QED BY <2>1, <2>4
<1> HIDE DEF N, b
<1>4. 0 \in E
  <2>1. g[0] = mem /\ 0 \in 0 .. N  BY <1>1, <1>2 DEF Multiplies
  <2>2. \A j \in 1 .. D : 0 # b + j  BY <1>2, <1>3
  <2>3. ~ (0 > b + D)  BY <1>2, <1>3
  <2>4. P(0)  BY <2>1, <2>2, <2>3 DEF Upto
  <2> QED BY <2>1, <2>4
<1>5. ASSUME NEW k \in 1 .. N, P(k - 1) PROVE P(k)
  <2> DEFINE m    == g[k - 1]
             next == g[k]
  <2>1. PICK d \in Cells, i \in Lines : k = d * Dim + i + 1 /\ Turns[k] = TurnOf(d, i)
    BY TurnsAre DEF TurnOf, N
  <2>2. m \in Memories(O, Dim * Dim) /\ next = Turn(m, l, r, mem[l], TurnOf(d, i))
    BY <1>1, <2>1 DEF Multiplies, N
  <2>3. mem[l] \in WordVectors(Dim * Dim)  BY DEF Memories
  <2> HIDE DEF m, next
  <2>4. Turned(next, m, O, l, r, mem[l], d, i)  BY <2>2, <2>3, TurnIs
  <2>5. next[r] = m[r] /\ m[r] = mem[r]
    <3>1. m[r] = mem[r]  BY <1>5 DEF m
    <3> QED BY <2>4, <3>1 DEF Turned
  <2>6. d \in Nat /\ i \in 0 .. D - 1 /\ k \in Nat /\ k - 1 = d * D + i
    <3>1. d \in Nat /\ i \in 0 .. D - 1  BY CellIs DEF Lines
    <3> DEFINE e == d * D
    <3>2. e \in Nat /\ k = e + i + 1  BY <1>2, <2>1, <3>1
    <3> HIDE DEF e
    <3>3. k \in Nat /\ k - 1 = e + i  BY <3>1, <3>2
    <3> QED BY <3>1, <3>3 DEF e
  <2>7. CASE d = c
    <3>1. k - 1 = b + i /\ k = b + (i + 1) /\ i + 1 \in 1 .. D /\ (i + 1) - 1 = i
      BY <1>2, <1>3, <2>6, <2>7 DEF b
    <3>2. t[i + 1] = mem[l][At(c \div Dim, i)] * mem[r][At(i, c % Dim)]
      BY <3>1 DEF Terms
    <3>3. next[l][c + 1] = Wrap((IF i = 0 THEN 0 ELSE m[l][c + 1]) + t[i + 1])
      BY <2>4, <2>5, <2>7, <3>2 DEF Turned
    <3>4. (IF i = 0 THEN 0 ELSE m[l][c + 1]) = h[i]
      <4>1. CASE i = 0  BY <4>1 DEF Sums
      <4>2. CASE i # 0
        <5>1. i \in 1 .. D  BY <1>2, <2>6, <4>2
        <5>2. m[l][c + 1] = h[i]  BY <1>5, <3>1, <5>1 DEF Upto, m
        <5> QED BY <4>2, <5>2
      <4> QED BY <4>1, <4>2
    <3>5. h[i + 1] = Wrap(h[i] + t[i + 1])
      <4>1. h[(i + 1) - 1] = h[i]  BY <3>1
      <4> QED BY <3>1, <4>1 DEF Sums
    <3>6. next[l][c + 1] = h[i + 1]  BY <3>3, <3>4, <3>5
    <3>7. \A j \in 1 .. D : k = b + j => j = i + 1  BY <1>2, <1>3, <2>6, <3>1
    <3>8. ~ (k > b + D)  BY <1>2, <1>3, <2>6, <3>1
    <3>9. Upto(next[l][c + 1], h, k, b, D)  BY <3>6, <3>7, <3>8 DEF Upto
    <3> QED BY <2>5, <3>9 DEF next
  <2>8. CASE d # c
    <3>1. next[l][c + 1] = m[l][c + 1]
      <4>1. c + 1 # d + 1  BY <1>2, <2>6, <2>8
      <4> QED BY <1>2, <2>4, <4>1 DEF Turned
    <3> DEFINE x == d * D
    <3>0. x \in Nat /\ k = x + i + 1
      <4>1. x \in Nat  BY <1>2, <2>6
      <4> HIDE DEF x
      <4> QED BY <2>1, <2>6, <4>1 DEF x
    <3>2. CASE d < c
      <4>1. x + D <= b
        <5>1. d + 1 <= c /\ (d + 1) * D = x + D  BY <1>2, <2>6, <3>2
        <5>2. (d + 1) * D <= c * D  BY <1>2, <2>6, <5>1
        <5> QED BY <5>1, <5>2 DEF b
      <4> HIDE DEF x
      <4>2. k <= b  BY <1>2, <1>3, <2>6, <3>0, <4>1
      <4>3. \A j \in 1 .. D : k # b + j  BY <1>2, <1>3, <2>6, <4>2
      <4>4. ~ (k > b + D)  BY <1>2, <1>3, <2>6, <4>2
      <4>5. Upto(next[l][c + 1], h, k, b, D)  BY <4>3, <4>4 DEF Upto
      <4> QED BY <2>5, <4>5 DEF next
    <3>3. CASE c < d
      <4>1. b + D <= x
        <5>1. c + 1 <= d /\ (c + 1) * D <= d * D  BY <1>2, <2>6, <3>3
        <5> QED BY <1>3, <5>1
      <4> HIDE DEF x
      <4>2. k > b + D /\ k - 1 \in Nat /\ (k - 1 = b + D \/ k - 1 > b + D)
        BY <1>2, <1>3, <2>6, <3>0, <4>1
      <4>3. D \in 1 .. D  BY <1>2
      <4>4. m[l][c + 1] = h[D]  BY <1>5, <4>2, <4>3 DEF Upto, m
      <4>5. \A j \in 1 .. D : k # b + j  BY <1>2, <1>3, <2>6, <4>2
      <4>6. Upto(next[l][c + 1], h, k, b, D)  BY <3>1, <4>4, <4>5 DEF Upto
      <4> QED BY <2>5, <4>6 DEF next
    <3> QED BY <1>2, <2>6, <2>8, <3>2, <3>3
  <2> QED BY <2>7, <2>8
<1>6. N \in E
  <2>1. ASSUME NEW k \in 1 .. N, k - 1 \in E PROVE k \in E
    <3>1. P(k - 1) /\ k \in 0 .. N  BY <2>1
    <3> HIDE DEF P
    <3>2. P(k)  BY <1>5, <3>1 DEF P
    <3> QED BY <3>1, <3>2
  <2>2. N \in 0 .. N  BY <1>2
  <2> HIDE DEF E
  <2> QED BY <1>2, <1>4, <2>1, <2>2, InductionUpTo
<1>7. Upto(g[N][l][c + 1], h, N, b, D)  BY <1>6
<1>8. g[N][l][c + 1] = h[D]
  <2>1. D \in 1 .. D /\ (N = b + D \/ N > b + D)  BY <1>2, <1>3
  <2> QED BY <1>7, <2>1 DEF Upto
<1> QED BY <1>1, <1>8

-------------------------------------------------------------------------------
(* The product of matrices composes.                                              *)

\* An element of the product of a matrix and a vector.
Products(a, v, row) == [j \in 1 .. Dim |-> a[At(row, j - 1)] * v[j]]

LEMMA ProductsTyped ==
    ASSUME NEW a \in WordVectors(Dim * Dim), NEW v \in WordVectors(Dim), NEW row \in Lines
    PROVE  Products(a, v, row) \in [1 .. Dim -> Int]
<1>1. ASSUME NEW j \in 1 .. Dim PROVE a[At(row, j - 1)] * v[j] \in Int
  <2>1. j - 1 \in Lines  BY VectorsAssumption DEF Lines
  <2>2. At(row, j - 1) \in 1 .. Dim * Dim  BY <2>1, AtIs
  <2>3. a[At(row, j - 1)] \in Int /\ v[j] \in Int  BY <2>2, WordsAre DEF WordVectors
  <2> QED BY <2>3
<1> QED BY <1>1 DEF Products

\* Times sums them.
LEMMA TimesIs ==
    ASSUME NEW a \in WordVectors(Dim * Dim), NEW v \in WordVectors(Dim), NEW k \in 1 .. Dim
    PROVE  \E g : Sums(g, Dim, Products(a, v, k - 1)) /\ Times(a, v)[k] = g[Dim]
<1> DEFINE t     == Products(a, v, k - 1)
           seq   == Places(v)
           Is(f) == f = [s \in SUBSET DOMAIN seq |->
               IF s = {} THEN 0
               ELSE Wrap(f[s \ {Max(s)}]
                         + a[At(k - 1, seq[Max(s)] - 1)] * v[seq[Max(s)]])]
           f     == CHOOSE f : Is(f)
<1>1. DOMAIN seq = 1 .. Dim /\ \A i \in 1 .. Dim : seq[i] = i
  BY VectorsAssumption, PlacesAre DEF WordVectors
<1>2. Times(a, v)[k] = f[DOMAIN seq]
  <2>1. Times(a, v)[k]
          = FoldLeft(LAMBDA r, i : Wrap(r + a[At(k - 1, i - 1)] * v[i]), 0, Places(v))
    BY DEF Times
  <2> QED BY <2>1, Zenon DEF FoldLeft, MapThenFoldSet
<1>3. t \in [1 .. Dim -> Int] /\ Dim \in Nat
  <2>1. k - 1 \in Lines  BY VectorsAssumption DEF Lines
  <2> QED BY <2>1, ProductsTyped, VectorsAssumption
<1>4. \A i \in 1 .. Dim : t[i] = a[At(k - 1, i - 1)] * v[i]  BY DEF Products
<1> HIDE DEF seq, t
<1>5. ASSUME NEW h PROVE Is(h) <=> Sum(h, Dim, t)
  <2>1. ASSUME NEW s \in SUBSET (1 .. Dim)
        PROVE  (IF s = {} THEN 0
                ELSE Wrap(h[s \ {Max(s)}]
                          + a[At(k - 1, seq[Max(s)] - 1)] * v[seq[Max(s)]]))
               = (IF s = {} THEN 0 ELSE Wrap(h[s \ {Max(s)}] + t[Max(s)]))
    <3>1. s # {} => Max(s) \in 1 .. Dim  BY <1>3, MaxIn
    <3>2. s # {} => t[Max(s)] = a[At(k - 1, seq[Max(s)] - 1)] * v[seq[Max(s)]]
      BY <1>1, <1>4, <3>1
    <3> QED BY <3>2
  <2>2. [s \in SUBSET (1 .. Dim) |->
               IF s = {} THEN 0
               ELSE Wrap(h[s \ {Max(s)}]
                         + a[At(k - 1, seq[Max(s)] - 1)] * v[seq[Max(s)]])]
        = [s \in SUBSET (1 .. Dim) |->
               IF s = {} THEN 0 ELSE Wrap(h[s \ {Max(s)}] + t[Max(s)])]
    BY <2>1
  <2> QED BY <1>1, <2>2, Zenon DEF Sum
<1> HIDE DEF Is
<1>6. Is(f)
  <2>1. \E h : Is(h)  BY <1>3, <1>5, SumIs
  <2> QED BY <2>1
<1> HIDE DEF f
<1>7. Sum(f, Dim, t)  BY <1>5, <1>6
<1>8. \E g : Sums(g, Dim, t) /\ g[Dim] = f[1 .. Dim]  BY <1>3, <1>7, SumIs
<1>9. Times(a, v)[k] = f[1 .. Dim]  BY <1>1, <1>2
<1> QED BY <1>8, <1>9 DEF t

\* Equal terms have equal sums.
LEMMA SumsSame ==
    ASSUME NEW n \in Nat, NEW t \in [1 .. n -> Int], NEW g, NEW h, Sums(g, n, t), Sums(h, n, t)
    PROVE  g[n] = h[n]
<1> DEFINE F == [r \in Int |-> r]
<1>1. Maps(F, n, t, t)
  <2>1. \A k \in 1 .. n, r \in Int : Wrap(r + t[k]) \in Int  BY WrapIs
  <2> QED BY <2>1 DEF Maps
<1>2. g[n] \in Int  BY DEF Sums
<1> HIDE DEF F
<1>3. h[n] = F[g[n]]  BY <1>1, SumsAgree
<1> QED BY <1>2, <1>3 DEF F

\* A matrix applied to a vector of the base is one of its columns.
Unit(i) == [j \in 1 .. Dim |-> IF i = j THEN 1 ELSE 0]

LEMMA UnitTyped ==
    ASSUME NEW i
    PROVE  Unit(i) \in WordVectors(Dim)
<1> DEFINE M == Size(Element)
<1>1. M \in Nat /\ M >= 2 /\ Word = 0 .. M - 1
  <2> DEFINE b == ElementBits - 1
             P == 2 ^ b
  <2>1. b \in Nat /\ ElementBits = b + 1  BY VectorsAssumption
  <2>2. P \in Nat \ {0} /\ M = 2 * P
    <3>1. 2 ^ (b + 1) = 2 * 2 ^ b /\ 2 ^ b \in Nat \ {0}  BY <2>1, Powers
    <3> QED BY <2>1, <3>1 DEF Size, Element
  <2> HIDE DEF M, P, b
  <2>3. Word = 0 .. M - 1  BY WordsAre DEF M
  <2> QED BY <2>2, <2>3
<1> HIDE DEF M
<1>2. 0 \in Word /\ 1 \in Word  BY <1>1
<1> QED BY <1>2 DEF Unit, WordVectors

LEMMA UnitTimes ==
    ASSUME NEW a \in WordVectors(Dim * Dim), NEW i \in 1 .. Dim, NEW k \in 1 .. Dim
    PROVE  Times(a, Unit(i))[k] = a[At(k - 1, i - 1)]
<1> DEFINE t == Products(a, Unit(i), k - 1)
           x == a[At(k - 1, i - 1)]
<1>1. PICK g : Sums(g, Dim, t) /\ Times(a, Unit(i))[k] = g[Dim]  BY UnitTyped, TimesIs
<1>2. /\ Dim \in Nat \ {0} /\ k - 1 \in Lines /\ i - 1 \in Lines
      /\ \A j \in 1 .. Dim : j - 1 \in Lines
  BY VectorsAssumption DEF Lines
<1>3. \A j \in 1 .. Dim : At(k - 1, j - 1) \in 1 .. Dim * Dim  BY <1>2, AtIs
<1>4. \A j \in 1 .. Dim : a[At(k - 1, j - 1)] \in Word /\ a[At(k - 1, j - 1)] \in Int
  BY <1>3, WordsAre DEF WordVectors
<1>5. \A j \in 1 .. Dim : t[j] = IF j = i THEN x ELSE 0
  <2>1. TAKE j \in 1 .. Dim
  <2>2. t[j] = a[At(k - 1, j - 1)] * (IF i = j THEN 1 ELSE 0)  BY DEF Products, Unit
  <2> QED BY <1>4, <2>2
<1>6. x \in Word /\ x \in Int /\ Wrap(x) = x /\ Wrap(0) = 0
  <2>1. x \in Word /\ x \in Int  BY <1>4
  <2>2. 0 \in Word  BY WordsAre
  <2> HIDE DEF x
  <2> QED BY <2>1, <2>2, WrapIs
<1> HIDE DEF t, x
<1> DEFINE S == {j \in 0 .. Dim : g[j] = IF j < i THEN 0 ELSE x}
<1>7. 0 \in S  BY <1>1, <1>2 DEF Sums
<1>8. ASSUME NEW j \in 1 .. Dim, j - 1 \in S PROVE j \in S
  <2>1. g[j] = Wrap(g[j - 1] + t[j])  BY <1>1 DEF Sums
  <2>2. g[j - 1] = IF j - 1 < i THEN 0 ELSE x  BY <1>8
  <2>3. j \in Int /\ i \in Int /\ j \in 0 .. Dim  OBVIOUS
  <2>4. CASE j < i
    <3>1. g[j - 1] = 0 /\ t[j] = 0  BY <1>5, <2>2, <2>3, <2>4
    <3> QED BY <1>6, <2>1, <2>3, <2>4, <3>1
  <2>5. CASE j = i
    <3>1. g[j - 1] = 0 /\ t[j] = x  BY <1>5, <2>2, <2>3, <2>5
    <3> QED BY <1>6, <2>1, <2>3, <2>5, <3>1
  <2>6. CASE j > i
    <3>1. g[j - 1] = x /\ t[j] = 0  BY <1>5, <2>2, <2>3, <2>6
    <3> QED BY <1>6, <2>1, <2>3, <2>6, <3>1
  <2> QED BY <2>3, <2>4, <2>5, <2>6
<1> HIDE DEF S
<1>9. Dim \in S  BY <1>2, <1>7, <1>8, InductionUpTo, Dim \in 0 .. Dim
<1>10. g[Dim] = x  BY <1>2, <1>9 DEF S
<1> QED BY <1>1, <1>10 DEF x

\* The element of the product of a and b in a row and a column.
LEMMA ElementComposes ==
    ASSUME NEW a \in WordVectors(Dim * Dim), NEW b \in WordVectors(Dim * Dim),
           NEW k \in 1 .. Dim, NEW i \in 1 .. Dim, NEW h,
           Sums(h, Dim, Terms(a, b, k - 1, i - 1))
    PROVE  Times(a, Times(b, Unit(i)))[k] = h[Dim]
<1> DEFINE v == Times(b, Unit(i))
<1>1. Dim \in Nat /\ k - 1 \in Lines /\ i - 1 \in Lines /\ \A j \in 1 .. Dim : j - 1 \in Lines
  BY VectorsAssumption DEF Lines
<1>2. \A j \in 1 .. Dim : v[j] = b[At(j - 1, i - 1)]  BY UnitTimes
<1>3. v = [j \in 1 .. Dim |-> v[j]]  BY DEF Times
<1> HIDE DEF v
<1>4. v \in WordVectors(Dim)
  <2>1. \A j \in 1 .. Dim : b[At(j - 1, i - 1)] \in Word  BY <1>1, AtIs DEF WordVectors
  <2> QED BY <1>2, <1>3, <2>1 DEF WordVectors
<1>5. Terms(a, b, k - 1, i - 1) = Products(a, v, k - 1)  BY <1>2 DEF Terms, Products
<1>6. Products(a, v, k - 1) \in [1 .. Dim -> Int]  BY <1>1, <1>4, ProductsTyped
<1>7. PICK g : Sums(g, Dim, Products(a, v, k - 1)) /\ Times(a, v)[k] = g[Dim]
  BY <1>4, TimesIs
<1>8. g[Dim] = h[Dim]  BY <1>1, <1>5, <1>6, <1>7, SumsSame
<1> QED BY <1>7, <1>8 DEF v

LEMMA ElementsAre ==
    ASSUME NEW n, NEW v \in WordVectors(n)
    PROVE  \A z \in 1 .. n : v[z] \in Word /\ v[z] \in Int
BY WordsAre DEF WordVectors

\* l *= r, for two objects.
LEMMA MultiplyComposes ==
    ASSUME NEW O, NEW mem \in Memories(O, Dim * Dim), NEW l \in O, NEW r \in O, l # r,
           NEW i \in 1 .. Dim
    PROVE  Times(MultiplyBy(mem, l, r)[l], Unit(i)) = Times(mem[l], Times(mem[r], Unit(i)))
<1> DEFINE m == MultiplyBy(mem, l, r)[l]
           x == Times(m, Unit(i))
           y == Times(mem[l], Times(mem[r], Unit(i)))
<1>1. m \in WordVectors(Dim * Dim)  BY MultiplyRuns DEF Memories
<1>2. mem[l] \in WordVectors(Dim * Dim) /\ mem[r] \in WordVectors(Dim * Dim)  BY DEF Memories
<1>3. \A z \in 1 .. Dim * Dim : mem[l][z] \in Int /\ mem[r][z] \in Int
  BY <1>2, ElementsAre
<1>4. ASSUME NEW k \in 1 .. Dim PROVE x[k] = y[k]
  <2>1. k - 1 \in Lines /\ i - 1 \in Lines  BY VectorsAssumption DEF Lines
  <2>2. x[k] = m[At(k - 1, i - 1)]  BY <1>1, UnitTimes
  <2>3. PICK c \in Cells : /\ At(k - 1, i - 1) = c + 1
                           /\ c \div Dim = k - 1 /\ c % Dim = i - 1
    BY <2>1, AtIs
  <2> DEFINE t == Terms(mem[l], mem[r], k - 1, i - 1)
  <2>4. t \in [1 .. Dim -> Int]
    <3>1. ASSUME NEW j \in 1 .. Dim
          PROVE  mem[l][At(k - 1, j - 1)] * mem[r][At(j - 1, i - 1)] \in Int
      <4>1. j - 1 \in Lines  BY VectorsAssumption DEF Lines
      <4>2. At(k - 1, j - 1) \in 1 .. Dim * Dim /\ At(j - 1, i - 1) \in 1 .. Dim * Dim
        BY <2>1, <4>1, AtIs
      <4>3. mem[l][At(k - 1, j - 1)] \in Int /\ mem[r][At(j - 1, i - 1)] \in Int
        BY <1>3, <4>2
      <4> QED BY <4>3
    <3> QED BY <3>1 DEF Terms
  <2>5. PICK h : Sums(h, Dim, t)
    <3> HIDE DEF t
    <3>1. Dim \in Nat  BY VectorsAssumption
    <3>2. \E f : Sum(f, Dim, t)  BY <2>4, <3>1, SumIs
    <3> QED BY <2>4, <3>1, <3>2, SumIs
  <2>6. t = Terms(mem[l], mem[r], c \div Dim, c % Dim)  BY <2>3
  <2> HIDE DEF t
  <2>7. m[c + 1] = h[Dim]  BY <2>5, <2>6, ElementIs
  <2>8. y[k] = h[Dim]  BY <1>2, <2>5, ElementComposes DEF t
  <2> QED BY <2>2, <2>3, <2>7, <2>8
<1>5. x = [k \in 1 .. Dim |-> x[k]] /\ y = [k \in 1 .. Dim |-> y[k]]  BY DEF Times
<1> HIDE DEF x, y
<1>6. x = y  BY <1>4, <1>5
<1> QED BY <1>6 DEF x, y, m

\* operator*, for one object or two.
LEMMA ProductIs ==
    ASSUME NEW a \in WordVectors(Dim * Dim), NEW b \in WordVectors(Dim * Dim)
    PROVE  /\ Product(a, b) \in WordVectors(Dim * Dim)
           /\ \A i \in 1 .. Dim : Times(Product(a, b), Unit(i)) = Times(a, Times(b, Unit(i)))
<1> DEFINE mem == [lhs |-> a, rhs |-> b]
           O   == {"lhs", "rhs"}
<1>1. DOMAIN mem = O /\ mem["lhs"] = a /\ mem["rhs"] = b  OBVIOUS
<1>2. mem \in Memories(O, Dim * Dim)
  <2>1. mem = [q \in O |-> mem[q]]  OBVIOUS
  <2> HIDE DEF mem
  <2>2. \A q \in O : mem[q] \in WordVectors(Dim * Dim)  BY <1>1
  <2> QED BY <2>1, <2>2 DEF Memories
<1>3. Product(a, b) = MultiplyBy(mem, "lhs", "rhs")["lhs"]  BY DEF Product
<1> HIDE DEF mem
<1>4. MultiplyBy(mem, "lhs", "rhs") \in Memories(O, Dim * Dim)
  BY <1>2, MultiplyRuns, "lhs" \in O, "rhs" \in O
<1>5. Product(a, b) \in WordVectors(Dim * Dim)  BY <1>3, <1>4 DEF Memories
<1>6. ASSUME NEW i \in 1 .. Dim
      PROVE  Times(Product(a, b), Unit(i)) = Times(a, Times(b, Unit(i)))
  BY <1>1, <1>2, <1>3, MultiplyComposes, "lhs" \in O, "rhs" \in O, "lhs" # "rhs"
<1> QED BY <1>5, <1>6

\* All of ProductComposes, for objects of any words.
LEMMA ProductsCompose == TypedMemory => ProductComposes
<1> SUFFICES ASSUME TypedMemory, kind = "matrix", NEW l \in Objects, NEW r \in Objects
             PROVE  /\ \A i \in 1 .. Dim :
                          Times(Product(memory[l], memory[r]), Unit(i))
                            = Times(memory[l], Times(memory[r], Unit(i)))
                    /\ l # r => \A i \in 1 .. Dim :
                          Times(MultiplyBy(memory, l, r)[l], Unit(i))
                            = Times(memory[l], Times(memory[r], Unit(i)))
  BY Zenon DEF ProductComposes, Unit
<1>1. memory \in Memories(Objects, Dim * Dim)  BY DEF TypedMemory, Memories
<1>2. memory[l] \in WordVectors(Dim * Dim) /\ memory[r] \in WordVectors(Dim * Dim)
  BY <1>1 DEF Memories
<1> QED BY <1>1, <1>2, ProductIs, MultiplyComposes

\* A step with matrices leaves matrices of words, m *= m included.
LEMMA MatricesStay ==
    ASSUME memory \in Memories(Objects, Dim * Dim), MatrixStep
    PROVE  memory' \in Memories(Objects, Dim * Dim)
<1>1. PICK l \in Objects, r \in Objects : \/ memory' = MultiplyBy(memory, l, r)
                                          \/ Put(l, Product(memory[l], memory[r]))
  BY DEF MatrixStep
<1>2. MultiplyBy(memory, l, r) \in Memories(Objects, Dim * Dim)  BY MultiplyRuns
<1>3. Product(memory[l], memory[r]) \in WordVectors(Dim * Dim)  BY ProductIs DEF Memories
<1>4. CASE Put(l, Product(memory[l], memory[r]))
  <2> DEFINE p == Product(memory[l], memory[r])
  <2>1. memory' = [memory EXCEPT ![l] = p]  BY <1>4 DEF Put
  <2> HIDE DEF p
  <2>2. memory' \in Memories(Objects, Dim * Dim)  BY <1>3, <2>1 DEF Memories, p
  <2> QED BY <2>2
<1> QED BY <1>1, <1>2, <1>4

-------------------------------------------------------------------------------
(* The theorems.                                                                  *)

LEMMA MemoryInit == Init => TypedMemory
BY DEF Init, TypedMemory, WordVectors

LEMMA MemoryNext == TypedMemory /\ [Next]_vars => TypedMemory'
<1> SUFFICES ASSUME TypedMemory, [Next]_vars PROVE TypedMemory'  OBVIOUS
<1>1. CASE UNCHANGED vars
  BY <1>1 DEF vars, TypedMemory, Memories, WordVectors
<1>2. CASE Next
  <2>1. kind' = kind  BY <1>2 DEF Next
  <2>2. CASE kind = "integer" /\ IntegerStep
    <3>1. memory \in [Objects -> Values(Scalar)]  BY <2>2 DEF TypedMemory
    <3>2. memory' \in [Objects -> Values(Scalar)]  BY <2>2, <3>1, IntegersStay
    <3> QED BY <2>1, <2>2, <3>2 DEF TypedMemory
  <2>3. CASE kind = "vector" /\ VectorStep
    <3>1. memory \in Memories(Objects, VecSize)  BY <2>3 DEF TypedMemory, Memories
    <3>2. memory' \in Memories(Objects, VecSize)  BY <2>3, <3>1, VectorsStay
    <3> QED BY <2>1, <2>3, <3>2 DEF TypedMemory, Memories
  <2>4. CASE kind = "matrix" /\ MatrixStep
    <3>1. memory \in Memories(Objects, Dim * Dim)  BY <2>4 DEF TypedMemory, Memories
    <3>2. memory' \in Memories(Objects, Dim * Dim)  BY <2>4, <3>1, MatricesStay
    <3> QED BY <2>1, <2>4, <3>2 DEF TypedMemory, Memories
  <2> QED BY <1>2, <2>2, <2>3, <2>4 DEF Next
<1> QED BY <1>1, <1>2

LEMMA MemoryAlways == Spec => []TypedMemory
BY MemoryInit, MemoryNext, PTL DEF Spec

\* Whatever the widths and whatever the program has computed so far, ceil, floor, trunc,
\* ntrunc, div_ceil and ceil2 return the number they are named for whenever it is one
\* of the type and the way to it is defined.
THEOREM NumbersAreRounded == Spec => []ScalarsAgree
BY IntegersAgree, MemoryAlways, PTL

\* For vectors of any number of elements of any width, the operators that write the left
\* operand while they read the right one do what the element-wise arithmetic says, also
\* when both are one object, and agree with one another.
THEOREM AliasingIsHarmless == Spec => []VectorsAgree
BY OperatorsAgree, MemoryAlways, PTL

\* For matrices of any size over elements of any width, a product does to a vector what
\* its factors do one after the other; for *= if the factors are two objects.
THEOREM ProductsAreCompositions == Spec => []ProductComposes
BY ProductsCompose, MemoryAlways, PTL
===============================================================================
