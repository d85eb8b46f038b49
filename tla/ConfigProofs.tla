------------------------------ MODULE ConfigProofs ------------------------------
(* Theorems about Config, for any names, values, command lines and texts: what    *)
(* parse_args leaves in argv and in the options.                                  *)
EXTENDS Config, FiniteSetTheorems, SequenceTheorems, TLAPS

-------------------------------------------------------------------------------
(* Numbers.                                                                       *)

\* A set of naturals that is not empty has a least one.
LEMMA LeastExists ==
    ASSUME NEW T, T \subseteq Nat, T # {}
    PROVE  \E x \in T : \A y \in T : x <= y
<1> DEFINE R == OpToRel(<, Nat)
<1>1. IsWellFoundedOn(R, Nat)  BY NatLessThanWellFounded
<1>2. \E x \in T : \A y \in T : ~ (<<y, x>> \in R)
  <2> HIDE DEF R
  <2> QED BY <1>1, WFMin
<1>3. \A x, y \in Nat : <<y, x>> \in R <=> y < x  BY DEF OpToRel
<1> HIDE DEF R
<1>4. PICK x \in T : \A y \in T : ~ (<<y, x>> \in R)  BY <1>2
<1>5. ASSUME NEW y \in T PROVE x <= y
  <2>1. x \in Nat /\ y \in Nat  OBVIOUS
  <2>2. ~ (y < x)  BY <1>3, <1>4, <2>1
  <2> QED BY <2>1, <2>2
<1> QED BY <1>5

\* Induction up to N, with a set for the formula.
LEMMA InductionUpTo ==
    ASSUME NEW N \in Nat, NEW E, 0 \in E,
           \A n \in 1 .. N : n - 1 \in E => n \in E
    PROVE  \A n \in 0 .. N : n \in E
<1> DEFINE T == {n \in 0 .. N : n \notin E}
<1>1. SUFFICES ASSUME T # {} PROVE FALSE  OBVIOUS
<1>2. T \subseteq Nat  OBVIOUS
<1>3. PICK n \in T : \A m \in T : n <= m
  <2> HIDE DEF T
  <2> QED BY <1>1, <1>2, LeastExists
<1>4. n \in 1 .. N /\ n - 1 \in 0 .. N /\ n - 1 \notin T  BY <1>3
<1> QED BY <1>3, <1>4

\* The place of n among the members of S: where an argument goes when only those
\* of S stay.
Rank(S, n) == Cardinality({k \in S : k < n})

LEMMA RankCounts ==
    ASSUME NEW N \in Nat, NEW S \in SUBSET (0 .. N)
    PROVE  /\ IsFiniteSet(S) /\ Cardinality(S) \in Nat
           /\ \A n \in Nat : Rank(S, n) \in Nat /\ Rank(S, n) <= Cardinality(S)
           /\ \A n \in Nat : Rank(S, n + 1) = IF n \in S THEN Rank(S, n) + 1 ELSE Rank(S, n)
           /\ \A n \in Nat : Rank(S, n) = Cardinality(S) => \A k \in S : k < n
           /\ \A n \in Nat : (\A k \in S : k < n) => Rank(S, n) = Cardinality(S)
<1>0. \A k \in S : k \in Nat  OBVIOUS
<1>1. IsFiniteSet(S)
  <2>1. IsFiniteSet(0 .. N)  BY FS_Interval
  <2> QED BY <2>1, FS_Subset
<1>2. Cardinality(S) \in Nat  BY <1>1, FS_CardinalityType
<1> DEFINE Below(n) == {k \in S : k < n}
<1>3. ASSUME NEW n \in Nat
      PROVE  /\ IsFiniteSet(Below(n)) /\ Rank(S, n) \in Nat /\ Rank(S, n) <= Cardinality(S)
             /\ Rank(S, n) = Cardinality(S) => Below(n) = S
  <2>1. Below(n) \in SUBSET S  OBVIOUS
  <2> HIDE DEF Below
  <2>2. /\ IsFiniteSet(Below(n)) /\ Cardinality(Below(n)) <= Cardinality(S)
        /\ Cardinality(S) = Cardinality(Below(n)) => S = Below(n)
    BY <1>1, <2>1, FS_Subset
  <2>3. Cardinality(Below(n)) \in Nat  BY <2>2, FS_CardinalityType
  <2> QED BY <2>2, <2>3 DEF Rank, Below
<1>4. ASSUME NEW n \in Nat
      PROVE  Rank(S, n + 1) = IF n \in S THEN Rank(S, n) + 1 ELSE Rank(S, n)
  <2>1. CASE n \in S
    <3>0. \A k \in S : (k < n + 1 <=> k < n \/ k = n) /\ ~ (n < n)  BY <1>0
    <3>1. Below(n + 1) = Below(n) \cup {n} /\ n \notin Below(n)  BY <2>1, <3>0
    <3>2. IsFiniteSet(Below(n))  BY <1>3
    <3> HIDE DEF Below
    <3>3. Cardinality(Below(n) \cup {n}) = Cardinality(Below(n)) + 1
      BY <3>1, <3>2, FS_AddElement
    <3> QED BY <2>1, <3>1, <3>3 DEF Rank, Below
  <2>2. CASE n \notin S
    <3>0. \A k \in S : k < n + 1 <=> k < n  BY <1>0, <2>2
    <3>1. Below(n + 1) = Below(n)  BY <3>0
    <3> QED BY <2>2, <3>1 DEF Rank
  <2> QED BY <2>1, <2>2
<1>5. ASSUME NEW n \in Nat, \A k \in S : k < n PROVE Rank(S, n) = Cardinality(S)
  <2>1. Below(n) = S  BY <1>5
  <2> QED BY <2>1 DEF Rank
<1>6. ASSUME NEW n \in Nat, Rank(S, n) = Cardinality(S), NEW k \in S PROVE k < n
  <2>1. Below(n) = S  BY <1>3, <1>6
  <2> QED BY <2>1
<1> QED BY <1>1, <1>2, <1>3, <1>4, <1>5, <1>6

\* The rank grows with its number, and a member's rank is below that of any later number.
LEMMA RankGrows ==
    ASSUME NEW N \in Nat, NEW S \in SUBSET (0 .. N), NEW m \in S, NEW n \in Nat, m < n
    PROVE  Rank(S, m) < Rank(S, n)
<1> DEFINE Below(k) == {j \in S : j < k}
<1>0. \A k \in S : k \in Nat  OBVIOUS
<1>1. m \in Nat /\ Below(m + 1) \in SUBSET Below(n)
  <2>1. \A k \in S : k < m + 1 => k < n  BY <1>0
  <2> QED BY <1>0, <2>1
<1>2. IsFiniteSet(Below(n))
  <2>1. Below(n) \in SUBSET S  OBVIOUS
  <2> HIDE DEF Below
  <2> QED BY <2>1, RankCounts, FS_Subset
<1>3. Rank(S, m + 1) <= Rank(S, n)
  <2> HIDE DEF Below
  <2>1. Cardinality(Below(m + 1)) <= Cardinality(Below(n))  BY <1>1, <1>2, FS_Subset
  <2> QED BY <2>1 DEF Rank, Below
<1>4. Rank(S, m + 1) = Rank(S, m) + 1  BY <1>1, RankCounts
<1>5. Rank(S, m) \in Nat /\ Rank(S, n) \in Nat  BY <1>1, RankCounts
<1> QED BY <1>3, <1>4, <1>5

\* A number has its own rank until one below it is not in the set.
LEMMA RankLags ==
    ASSUME NEW N \in Nat, NEW S \in SUBSET (0 .. N), NEW n \in Nat
    PROVE  /\ (\A k \in 0 .. n - 1 : k \in S) => Rank(S, n) = n
           /\ (\E k \in 0 .. n - 1 : k \notin S) => Rank(S, n) < n
<1> DEFINE Below == {k \in S : k < n}
<1>0. \A k \in S : k \in Nat  OBVIOUS
<1>1. IsFiniteSet(0 .. n - 1) /\ Cardinality(0 .. n - 1) = n  BY FS_Interval
<1>2. ASSUME \A k \in 0 .. n - 1 : k \in S PROVE Rank(S, n) = n
  <2>0. \A k \in S : k < n <=> k \in 0 .. n - 1  BY <1>0
  <2>1. Below = 0 .. n - 1  BY <2>0, <1>2
  <2> QED BY <1>1, <2>1 DEF Rank
<1>3. ASSUME NEW k \in 0 .. n - 1, k \notin S PROVE Rank(S, n) < n
  <2>0. \A j \in S : j < n => j \in 0 .. n - 1  BY <1>0
  <2>1. Below \in SUBSET (0 .. n - 1) /\ Below # 0 .. n - 1  BY <2>0, <1>3
  <2> HIDE DEF Below
  <2>2. /\ IsFiniteSet(Below) /\ Cardinality(Below) <= n /\ Cardinality(Below) # n
    BY <1>1, <2>1, FS_Subset
  <2>3. Cardinality(Below) \in Nat  BY <2>2, FS_CardinalityType
  <2> QED BY <2>2, <2>3 DEF Rank, Below
<1> QED BY <1>2, <1>3

\* A sequence that increases has as many members as its length.
LEMMA IncreasingCounts ==
    ASSUME NEW used \in Seq(Nat),
           \A j, k \in 1 .. Len(used) : j < k => used[j] < used[k]
    PROVE  IsFiniteSet(Range(used)) /\ Cardinality(Range(used)) = Len(used)
<1> DEFINE D == 1 .. Len(used)
           R == Range(used)
<1>1. IsFiniteSet(D) /\ Cardinality(D) = Len(used)
  <2>1. Len(used) \in Nat /\ Len(used) \in Int /\ 1 \in Int  OBVIOUS
  <2>2. /\ IsFiniteSet(1 .. Len(used))
        /\ Cardinality(1 .. Len(used)) = IF 1 > Len(used) THEN 0 ELSE Len(used) - 1 + 1
    BY <2>1, FS_Interval
  <2> QED BY <2>1, <2>2
<1>2. \A j, k \in D : used[j] = used[k] => j = k
  <2>1. \A j \in D : j \in Nat /\ used[j] \in Nat  OBVIOUS
  <2> QED BY <2>1
<1>3. used \in Surjection(D, R)
  <2>1. DOMAIN used = D /\ used \in [D -> R]  BY DEF Range
  <2>2. \A r \in R : \E j \in D : used[j] = r  BY <2>1 DEF Range
  <2> HIDE DEF D, R
  <2> QED BY <2>1, <2>2 DEF Surjection
<1>4. used \in Injection(D, R)
  <2>1. used \in [D -> R]  BY <1>3 DEF Surjection
  <2> HIDE DEF D, R
  <2> QED BY <1>2, <2>1 DEF Injection, IsInjective
<1> HIDE DEF D, R
<1>5. /\ IsFiniteSet(R) /\ (Cardinality(R) = Cardinality(D) <=> used \in Injection(D, R))
  BY <1>1, <1>3, FS_Surjection
<1> QED BY <1>1, <1>4, <1>5 DEF R
-------------------------------------------------------------------------------
(* Options.  Whatever is read from legal texts and arguments, the keys and the    *)
(* values are legal.                                                              *)

LegalOptions == UNION {[D -> ValueRange] : D \in SUBSET Keys}

LEMMA LegalSeen ==
    /\ \A o \in LegalOptions : DOMAIN o \subseteq Keys /\ \A k \in DOMAIN o : o[k] \in ValueRange
    /\ \A D \in SUBSET Keys : [D -> ValueRange] \subseteq LegalOptions
    /\ <<>> \in LegalOptions
<1>1. /\ \A o \in LegalOptions : DOMAIN o \subseteq Keys /\ \A k \in DOMAIN o : o[k] \in ValueRange
      /\ \A D \in SUBSET Keys : [D -> ValueRange] \subseteq LegalOptions
  BY DEF LegalOptions
<1>2. <<>> \in [{} -> ValueRange]  OBVIOUS
<1> QED BY <1>1, <1>2

LEMMA WithLegal ==
    ASSUME NEW o \in LegalOptions, NEW k \in Keys, NEW v \in ValueRange
    PROVE  /\ With(o, k, v) \in LegalOptions
           /\ DOMAIN With(o, k, v) = DOMAIN o \cup {k}
           /\ \A x \in DOMAIN o \cup {k} : With(o, k, v)[x] = IF x = k THEN v ELSE o[x]
<1>1. DOMAIN o \subseteq Keys /\ \A x \in DOMAIN o : o[x] \in ValueRange  BY LegalSeen
<1> DEFINE D == DOMAIN o \cup {k}
<1>2. D \in SUBSET Keys  BY <1>1
<1>3. With(o, k, v) \in [D -> ValueRange]  BY <1>1 DEF With
<1> QED BY <1>2, <1>3, LegalSeen DEF With

LEMMA RestrictLegal ==
    ASSUME NEW o \in LegalOptions, NEW S \in SUBSET DOMAIN o
    PROVE  Restrict(o, S) \in LegalOptions
<1>1. DOMAIN o \subseteq Keys /\ \A x \in DOMAIN o : o[x] \in ValueRange  BY LegalSeen
<1>2. Restrict(o, S) \in [S -> ValueRange] /\ S \in SUBSET Keys  BY <1>1 DEF Restrict
<1> QED BY <1>2, LegalSeen

LEMMA SetLegal ==
    ASSUME NEW o \in LegalOptions, NEW k \in Keys, NEW v \in ValueRange, NEW allow \in BOOLEAN
    PROVE  /\ SetParsedOption(o, k, v, allow).options \in LegalOptions
           /\ SetParsedOption(o, k, v, allow).failed \in BOOLEAN
BY WithLegal DEF SetParsedOption, Outcome

\* What has been read of a text.
Readings == [prefix : Seq(Names), options : LegalOptions, skip : BOOLEAN, failed : BOOLEAN]

Reading(p, o, s, f) == [prefix |-> p, options |-> o, skip |-> s, failed |-> f]

Start(opts) == Reading(<<>>, opts, FALSE, FALSE)

\* A line of a text, and what a bare key in it gets.
LEMMA LinesLegal ==
    ASSUME NEW text \in Texts \cup Disk
    PROVE  /\ Len(text.lines) \in Nat
           /\ \A n \in 1 .. Len(text.lines) : LegalLine(text.lines[n])
           /\ \A n \in 1 .. Len(text.lines) : BareValue(text, n) \in ValueRange
<1>1. /\ text.lines \in Seq(Range(text.lines))
      /\ \A line \in Range(text.lines) : LegalLine(line)
  BY TextsAssumption DEF IsSequence
<1>2. Len(text.lines) \in Nat /\ DOMAIN text.lines = 1 .. Len(text.lines)
  BY <1>1, LenProperties
<1>3. \A n \in 1 .. Len(text.lines) : LegalLine(text.lines[n])  BY <1>1, <1>2 DEF Range
<1>4. \A n \in 1 .. Len(text.lines) : BareValue(text, n) \in ValueRange
  <2>1. \A line : TextOf(line) \in ValueRange  BY DEF TextOf, ValueRange
  <2>2. Implicit \in ValueRange /\ Empty \in ValueRange  BY DEF ValueRange
  <2> QED BY <2>1, <2>2 DEF BareValue
<1> QED BY <1>2, <1>3, <1>4

\* A key read in a section, or a section inside it.
LEMMA PrefixLegal ==
    ASSUME NEW p \in Seq(Names), NEW q \in Seq(Names)
    PROVE  p \o q \in Seq(Names) /\ (q # <<>> => p \o q \in Keys)
<1>1. p \o q \in Seq(Names) /\ (p \o q = <<>> => q = <<>>)
  BY ConcatProperties, ConcatEqualIffEmpty
<1> QED BY <1>1 DEF Keys

LEMMA ReadOptionLegal ==
    ASSUME NEW r \in Readings, NEW k \in Keys, NEW v \in ValueRange, NEW allow \in BOOLEAN
    PROVE  ReadOption(r, k, v, allow) \in Readings
<1> DEFINE set == SetParsedOption(r.options, r.prefix \o k, v, allow)
<1>1. r = Reading(r.prefix, r.options, r.skip, r.failed) /\ r.prefix \in Seq(Names)
      /\ r.options \in LegalOptions /\ r.skip \in BOOLEAN
  BY DEF Readings, Reading
<1>2. r.prefix \o k \in Keys  BY <1>1, PrefixLegal DEF Keys
<1>3. set.options \in LegalOptions /\ set.failed \in BOOLEAN  BY <1>1, <1>2, SetLegal
<1>4. ReadOption(r, k, v, allow) = Reading(r.prefix, set.options, r.skip, set.failed)
  <2> HIDE DEF set
  <2>1. [r EXCEPT !.options = set.options] = Reading(r.prefix, set.options, r.skip, r.failed)
    BY <1>1 DEF Reading
  <2>2. [Reading(r.prefix, set.options, r.skip, r.failed) EXCEPT !.failed = set.failed]
          = Reading(r.prefix, set.options, r.skip, set.failed)
    BY DEF Reading
  <2> QED BY <2>1, <2>2 DEF ReadOption, set
<1> HIDE DEF set
<1> QED BY <1>1, <1>3, <1>4 DEF Readings, Reading

LEMMA ReadLineLegal ==
    ASSUME NEW text \in Texts \cup Disk, NEW n \in 1 .. Len(text.lines),
           NEW r \in Readings, NEW allow \in BOOLEAN
    PROVE  ReadLine(text, n, r, allow) \in Readings
<1> DEFINE line == text.lines[n]
<1>1. LegalLine(line) /\ BareValue(text, n) \in ValueRange  BY LinesLegal
<1>2. [r EXCEPT !.skip = FALSE] \in Readings  BY DEF Readings
<1>3. line.kind = "option" => ReadOption(r, line.key, line.value, allow) \in Readings
  BY <1>1, ReadOptionLegal DEF LegalLine, LegalOption
<1>4. line.kind = "bare" =>
        [ReadOption(r, line.key, BareValue(text, n), allow) EXCEPT !.skip = SwallowsNext(text, n)]
            \in Readings
  <2> SUFFICES ASSUME line.kind = "bare"
               PROVE  [ReadOption(r, line.key, BareValue(text, n), allow)
                          EXCEPT !.skip = SwallowsNext(text, n)] \in Readings
    OBVIOUS
  <2> DEFINE q == ReadOption(r, line.key, BareValue(text, n), allow)
  <2>1. q \in Readings  BY <1>1, ReadOptionLegal DEF LegalLine
  <2>2. SwallowsNext(text, n) \in BOOLEAN  BY DEF SwallowsNext
  <2> HIDE DEF q
  <2>3. [q EXCEPT !.skip = SwallowsNext(text, n)] \in Readings  BY <2>1, <2>2 DEF Readings
  <2> QED BY <2>3 DEF q
<1>5. line.kind = "section" => ReadSection(r, line, IsLast(text, n)) \in Readings
  <2> SUFFICES ASSUME line.kind = "section"
               PROVE  ReadSection(r, line, IsLast(text, n)) \in Readings
    OBVIOUS
  <2>1. line.path \in Seq(Names) /\ r.prefix \in Seq(Names)  BY <1>1 DEF LegalLine, Readings
  <2>2. Enter(r.prefix, line) \in Seq(Names)  BY <2>1, PrefixLegal DEF Enter
  <2>3. [r EXCEPT !.failed = TRUE] \in Readings  BY DEF Readings
  <2>4. [r EXCEPT !.prefix = Enter(r.prefix, line)] \in Readings  BY <2>2 DEF Readings
  <2> QED BY <2>3, <2>4 DEF ReadSection
<1> HIDE DEF line
<1>6. CASE r.failed  BY <1>6 DEF ReadLine
<1>7. CASE ~r.failed /\ r.skip  BY <1>2, <1>7 DEF ReadLine
<1>8. CASE ~r.failed /\ ~r.skip
  <2>1. ReadLine(text, n, r, allow) =
          CASE line.kind = "option"  -> ReadOption(r, line.key, line.value, allow)
            [] line.kind = "bare"    ->
                 [ReadOption(r, line.key, BareValue(text, n), allow)
                     EXCEPT !.skip = SwallowsNext(text, n)]
            [] line.kind = "section" -> ReadSection(r, line, IsLast(text, n))
            [] OTHER                 -> r
    BY <1>8 DEF ReadLine, line
  <2> QED BY <1>3, <1>4, <1>5, <2>1
<1> QED BY <1>6, <1>7, <1>8

\* f is the reading of the first m lines, one after the other.
Reads(f, text, opts, allow, m) ==
    f = [n \in 0 .. m |-> IF n = 0 THEN Start(opts) ELSE ReadLine(text, n, f[n - 1], allow)]

\* There is one: each line can be read after those before it.
LEMMA ReadsExists ==
    ASSUME NEW text, NEW opts, NEW allow, NEW N \in Nat
    PROVE  \E f : Reads(f, text, opts, allow, N)
<1> DEFINE E == {m \in 0 .. N : \E f : Reads(f, text, opts, allow, m)}
<1>1. 0 \in E
  <2> DEFINE f == [n \in 0 .. 0 |-> Start(opts)]
  <2>1. Reads(f, text, opts, allow, 0)
    <3>1. \A n \in 0 .. 0 : n = 0  OBVIOUS
    <3>2. f = [n \in 0 .. 0 |-> IF n = 0 THEN Start(opts) ELSE ReadLine(text, n, f[n - 1], allow)]
      BY <3>1
    <3> HIDE DEF f
    <3> QED BY <3>2 DEF Reads
  <2> QED BY <2>1
<1>2. ASSUME NEW m \in 1 .. N, m - 1 \in E PROVE m \in E
  <2>1. PICK f : Reads(f, text, opts, allow, m - 1)  BY <1>2
  <2> DEFINE g == [n \in 0 .. m |-> IF n = m THEN ReadLine(text, m, f[m - 1], allow) ELSE f[n]]
  <2>2. \A n \in 0 .. m - 1 :
          f[n] = IF n = 0 THEN Start(opts) ELSE ReadLine(text, n, f[n - 1], allow)
    BY <2>1, Zenon DEF Reads
  <2>3. ASSUME NEW n \in 0 .. m
        PROVE  g[n] = IF n = 0 THEN Start(opts) ELSE ReadLine(text, n, g[n - 1], allow)
    <3>1. CASE n = m
      <4>1. m # 0 /\ m - 1 \in 0 .. m /\ m - 1 # m  OBVIOUS
      <4>2. g[m - 1] = f[m - 1] /\ g[m] = ReadLine(text, m, f[m - 1], allow)  BY <4>1
      <4> HIDE DEF g
      <4> QED BY <3>1, <4>1, <4>2
    <3>2. CASE n = 0
      <4>1. n \in 0 .. m - 1 /\ n # m  BY <3>2
      <4>2. g[n] = f[n]  BY <4>1
      <4> HIDE DEF g
      <4> QED BY <2>2, <3>2, <4>1, <4>2
    <3>3. CASE n # m /\ n # 0
      <4>1. n \in 0 .. m - 1 /\ n - 1 \in 0 .. m /\ n - 1 # m  BY <3>3
      <4>2. g[n] = f[n] /\ g[n - 1] = f[n - 1]  BY <3>3, <4>1
      <4> HIDE DEF g
      <4> QED BY <2>2, <3>3, <4>1, <4>2
    <3> QED BY <3>1, <3>2, <3>3
  <2>4. Reads(g, text, opts, allow, m)
    <3>1. g = [n \in 0 .. m |-> g[n]]  OBVIOUS
    <3> HIDE DEF g
    <3> QED BY <2>3, <3>1, Zenon DEF Reads
  <2> HIDE DEF g
  <2> QED BY <2>4
<1> HIDE DEF E
<1>3. N \in E  BY <1>1, <1>2, InductionUpTo
<1> QED BY <1>3 DEF E

LEMMA ReadsLegal ==
    ASSUME NEW text \in Texts \cup Disk, NEW opts \in LegalOptions, NEW allow \in BOOLEAN,
           NEW f, Reads(f, text, opts, allow, Len(text.lines))
    PROVE  f[Len(text.lines)] \in Readings
<1> DEFINE N == Len(text.lines)
           E == {n \in 0 .. N : f[n] \in Readings}
<1>1. N \in Nat  BY LinesLegal
<1>2. \A n \in 0 .. N : f[n] = IF n = 0 THEN Start(opts) ELSE ReadLine(text, n, f[n - 1], allow)
  BY Zenon DEF Reads
<1>3. 0 \in E
  <2>1. <<>> \in Seq(Names)  BY EmptySeq
  <2>2. Start(opts) \in Readings  BY <2>1 DEF Start, Reading, Readings
  <2>3. 0 \in 0 .. N  BY <1>1
  <2> QED BY <1>2, <2>2, <2>3
<1>4. ASSUME NEW n \in 1 .. N, n - 1 \in E PROVE n \in E
  <2>1. n \in 0 .. N /\ n # 0  BY <1>1
  <2>2. f[n] = ReadLine(text, n, f[n - 1], allow)  BY <1>2, <2>1
  <2>3. f[n - 1] \in Readings  BY <1>4
  <2> QED BY <2>1, <2>2, <2>3, ReadLineLegal
<1> HIDE DEF N, E
<1>5. N \in E  BY <1>1, <1>3, <1>4, InductionUpTo
<1> QED BY <1>5 DEF E, N

LEMMA ParseLegal ==
    ASSUME NEW text \in Texts \cup Disk, NEW opts \in LegalOptions, NEW allow \in BOOLEAN
    PROVE  /\ ParseFileContent(text, opts, allow).options \in LegalOptions
           /\ ParseFileContent(text, opts, allow).failed \in BOOLEAN
<1> DEFINE read == CHOOSE f : Reads(f, text, opts, allow, Len(text.lines))
           end  == read[Len(text.lines)]
<1>1. Len(text.lines) \in Nat  BY LinesLegal
<1>2. Reads(read, text, opts, allow, Len(text.lines))  BY <1>1, ReadsExists, Zenon
<1>3. end \in Readings
  <2> HIDE DEF read
  <2> QED BY <1>2, ReadsLegal
<1>4. ParseFileContent(text, opts, allow) = Outcome(end.options, end.failed)
  BY Zenon DEF ParseFileContent, Reads, Start, Reading
<1> HIDE DEF end
<1>5. end.options \in LegalOptions /\ end.failed \in BOOLEAN  BY <1>3 DEF Readings
<1> QED BY <1>4, <1>5 DEF Outcome

\* What reading a file, or two of them, may leave.
LEMMA FilesLegal ==
    ASSUME NEW opts \in LegalOptions, NEW allow \in BOOLEAN
    PROVE  /\ \A out \in FileOutcomes(opts, allow) : out.options \in LegalOptions
           /\ \A out \in IfExists(opts, allow) : out.options \in LegalOptions
<1>1. \A fail : Outcome(opts, fail).options \in LegalOptions  BY DEF Outcome
<1>2. \A text \in Disk : ParseFileContent(text, opts, allow).options \in LegalOptions
  BY ParseLegal
<1>3. \A out \in FileOutcomes(opts, allow) : out.options \in LegalOptions
  BY <1>1, <1>2 DEF FileOutcomes
<1> QED BY <1>1, <1>3 DEF IfExists
-------------------------------------------------------------------------------
(* Flattening.  FlattenSeq goes through a sequence once; it is followed here      *)
(* member by member.                                                              *)

\* f flattens the first m members of g, one after the other.
Flattens(f, g, m) ==
    f = [i \in 1 .. m |-> IF i = 1 THEN g[i] ELSE f[i - 1] \o g[i]]

FirstOf(g, m) == [i \in 1 .. m |-> g[i]]

\* There is such a pass.
LEMMA FlattensExists ==
    ASSUME NEW g, NEW N \in Nat
    PROVE  \E f : Flattens(f, g, N)
<1> DEFINE E == {m \in 0 .. N : \E f : Flattens(f, g, m)}
<1>1. 0 \in E
  <2> DEFINE f == [i \in 1 .. 0 |-> 0]
  <2>1. Flattens(f, g, 0)
    <3>1. \A i \in 1 .. 0 : FALSE  OBVIOUS
    <3>2. f = [i \in 1 .. 0 |-> IF i = 1 THEN g[i] ELSE f[i - 1] \o g[i]]
      BY <3>1
    <3> HIDE DEF f
    <3> QED BY <3>2 DEF Flattens
  <2> QED BY <2>1
<1>2. ASSUME NEW m \in 1 .. N, m - 1 \in E PROVE m \in E
  <2>1. PICK f : Flattens(f, g, m - 1)  BY <1>2
  <2> DEFINE h == [i \in 1 .. m |-> IF i = m THEN (IF m = 1 THEN g[m] ELSE f[m - 1] \o g[m])
                                             ELSE f[i]]
  <2>2. \A i \in 1 .. m - 1 : f[i] = IF i = 1 THEN g[i] ELSE f[i - 1] \o g[i]
    BY <2>1, Zenon DEF Flattens
  <2>3. ASSUME NEW i \in 1 .. m PROVE h[i] = IF i = 1 THEN g[i] ELSE h[i - 1] \o g[i]
    <3>1. CASE i = m /\ m # 1
      <4>1. m - 1 \in 1 .. m /\ m - 1 # m  BY <3>1
      <4>2. h[m - 1] = f[m - 1] /\ h[m] = f[m - 1] \o g[m]  BY <3>1, <4>1
      <4> HIDE DEF h
      <4> QED BY <3>1, <4>2
    <3>2. CASE i = m /\ m = 1  BY <3>2
    <3>3. CASE i # m /\ i = 1
      <4>1. i \in 1 .. m - 1 /\ h[i] = f[i]  BY <3>3
      <4> HIDE DEF h
      <4> QED BY <2>2, <3>3, <4>1
    <3>4. CASE i # m /\ i # 1
      <4>1. i \in 1 .. m - 1 /\ i - 1 \in 1 .. m /\ i - 1 # m  BY <3>4
      <4>2. h[i] = f[i] /\ h[i - 1] = f[i - 1]  BY <3>4, <4>1
      <4> HIDE DEF h
      <4> QED BY <2>2, <3>4, <4>1, <4>2
    <3> QED BY <3>1, <3>2, <3>3, <3>4
  <2>4. Flattens(h, g, m)
    <3>1. h = [i \in 1 .. m |-> h[i]]  OBVIOUS
    <3> HIDE DEF h
    <3> QED BY <2>3, <3>1, Zenon DEF Flattens
  <2> HIDE DEF h
  <2> QED BY <2>4
<1> HIDE DEF E
<1>3. N \in E  BY <1>1, <1>2, InductionUpTo
<1> QED BY <1>3 DEF E

\* What FlattenSeq makes of the first members of g is what one pass over them makes.
LEMMA FlattensIs ==
    ASSUME NEW S, NEW M \in Nat, NEW g \in [1 .. M -> Seq(S)], NEW N \in 1 .. M,
           NEW f, Flattens(f, g, M)
    PROVE  FlattenSeq(FirstOf(g, N)) = f[N]
<1> DEFINE s  == FirstOf(g, N)
           fs == CHOOSE e : Flattens(e, s, N)
           E  == {n \in 1 .. N : fs[n] # f[n]}
<1>1. s \in Seq(Seq(S)) /\ Len(s) = N
  <2>1. N \in Nat /\ \A i \in 1 .. N : g[i] \in Seq(S)  OBVIOUS
  <2> QED BY <2>1 DEF FirstOf
<1>2. Flattens(fs, s, N)
  <2>1. N \in Nat  OBVIOUS
  <2> HIDE DEF s
  <2>2. \E e : Flattens(e, s, N)  BY <2>1, FlattensExists
  <2> QED BY <2>2, Zenon
<1>3. FlattenSeq(s) = fs[N]
  <2>1. FlattenSeq(s) =
          (CHOOSE e : e = [i \in 1 .. Len(s) |-> IF i = 1 THEN s[i] ELSE e[i - 1] \o s[i]])[Len(s)]
    BY <1>1, N # 0, Zenon DEF FlattenSeq
  <2> QED BY <1>1, <2>1, Zenon DEF Flattens
<1>4. \A i \in 1 .. N : s[i] = g[i]  BY DEF FirstOf
<1>5. \A i \in 1 .. N : fs[i] = IF i = 1 THEN s[i] ELSE fs[i - 1] \o s[i]
  BY <1>2, Zenon DEF Flattens
<1>6. \A i \in 1 .. M : f[i] = IF i = 1 THEN g[i] ELSE f[i - 1] \o g[i]
  BY Zenon DEF Flattens
<1>7. E = {}
  <2>1. SUFFICES ASSUME E # {} PROVE FALSE  OBVIOUS
  <2>2. E \subseteq Nat  OBVIOUS
  <2> HIDE DEF fs, s
  <2>3. PICK n \in E : \A m \in E : n <= m
    <3> HIDE DEF E
    <3> QED BY <2>1, <2>2, LeastExists
  <2>4. n \in 1 .. N /\ n \in 1 .. M  OBVIOUS
  <2>5. n # 1  BY <1>4, <1>5, <1>6, <2>4
  <2>6. n - 1 \in 1 .. N /\ n - 1 \notin E
    <3>1. n - 1 \in 1 .. N /\ ~ (n <= n - 1)  BY <2>4, <2>5
    <3> HIDE DEF E
    <3> QED BY <2>3, <3>1
  <2>7. fs[n - 1] = f[n - 1]  BY <2>6
  <2>8. fs[n] = f[n]  BY <1>4, <1>5, <1>6, <2>4, <2>5, <2>7
  <2> QED BY <2>3, <2>8
<1>8. fs[N] = f[N]  BY <1>7
<1> HIDE DEF fs, s
<1> QED BY <1>3, <1>8 DEF s

\* A pass over sequences makes sequences.
LEMMA FlattensTyped ==
    ASSUME NEW S, NEW M \in Nat, NEW g \in [1 .. M -> Seq(S)], NEW f, Flattens(f, g, M)
    PROVE  \A n \in 1 .. M : f[n] \in Seq(S)
<1> DEFINE E == {n \in 1 .. M : f[n] \notin Seq(S)}
<1>6. \A i \in 1 .. M : f[i] = IF i = 1 THEN g[i] ELSE f[i - 1] \o g[i]
  BY Zenon DEF Flattens
<1>1. SUFFICES ASSUME E # {} PROVE FALSE  OBVIOUS
<1>2. E \subseteq Nat  OBVIOUS
<1>3. PICK n \in E : \A m \in E : n <= m
  <2> HIDE DEF E
  <2> QED BY <1>1, <1>2, LeastExists
<1>4. n # 1  BY <1>6, 1 \in 1 .. M
<1>5. n - 1 \in 1 .. M /\ n - 1 \notin E  BY <1>3, <1>4
<1>7. f[n - 1] \in Seq(S) /\ g[n] \in Seq(S)  BY <1>5
<1>8. f[n - 1] \o g[n] \in Seq(S)  BY <1>7, ConcatProperties
<1> QED BY <1>3, <1>4, <1>6, <1>8

\* FlattenSeq, one member at a time.
LEMMA FlattenStep ==
    ASSUME NEW S, NEW M \in Nat, NEW g \in [1 .. M -> Seq(S)]
    PROVE  /\ FlattenSeq(FirstOf(g, 0)) = <<>>
           /\ \A n \in 0 .. M : FlattenSeq(FirstOf(g, n)) \in Seq(S)
           /\ \A n \in 1 .. M : FlattenSeq(FirstOf(g, n)) = FlattenSeq(FirstOf(g, n - 1)) \o g[n]
<1>1. FirstOf(g, 0) = <<>>
  <2>1. \A i \in 1 .. 0 : FALSE  OBVIOUS
  <2>2. FirstOf(g, 0) \in Seq(Seq(S)) /\ Len(FirstOf(g, 0)) = 0
    BY <2>1 DEF FirstOf
  <2> QED BY <2>2, EmptySeq
<1>2. FlattenSeq(<<>>) = <<>>  BY EmptySeq DEF FlattenSeq
<1>3. PICK f : Flattens(f, g, M)  BY FlattensExists
<1>4. \A n \in 1 .. M : FlattenSeq(FirstOf(g, n)) = f[n] /\ f[n] \in Seq(S)
  BY <1>3, FlattensIs, FlattensTyped
<1>5. \A i \in 1 .. M : f[i] = IF i = 1 THEN g[i] ELSE f[i - 1] \o g[i]
  BY <1>3, Zenon DEF Flattens
<1>6. ASSUME NEW n \in 1 .. M
      PROVE  FlattenSeq(FirstOf(g, n)) = FlattenSeq(FirstOf(g, n - 1)) \o g[n]
  <2>1. CASE n = 1
    <3>1. g[1] \in Seq(S) /\ <<>> \o g[1] = g[1]  BY <2>1, ConcatEmptySeq
    <3>2. FlattenSeq(FirstOf(g, 1)) = g[1]  BY <1>4, <1>5, <2>1
    <3> QED BY <1>1, <1>2, <2>1, <3>1, <3>2
  <2>2. CASE n # 1
    <3>1. n - 1 \in 1 .. M  BY <2>2
    <3> QED BY <1>4, <1>5, <2>2, <3>1
  <2> QED BY <2>1, <2>2
<1>7. ASSUME NEW n \in 0 .. M PROVE FlattenSeq(FirstOf(g, n)) \in Seq(S)
  <2>1. CASE n = 0  BY <1>1, <1>2, <2>1, EmptySeq
  <2>2. CASE n # 0  BY <1>4, <2>2, n \in 1 .. M
  <2> QED BY <2>1, <2>2
<1> QED BY <1>1, <1>2, <1>6, <1>7
-------------------------------------------------------------------------------
(* Sections.  What the lines up to n make of the prefix, said of the sections a   *)
(* line is in.                                                                    *)

\* What line s adds to the prefix that line n has.
PathAt(text, n, s) == IF s \in Around(text, n) THEN text.lines[s].path ELSE <<>>

\* The prefix after n lines.
Prefix(text, n) == FlattenSeq([s \in 1 .. n |-> PathAt(text, n + 1, s)])

\* All that the proofs need of a text.
Legal(text) == /\ Len(text.lines) \in Nat /\ DOMAIN text.lines = 1 .. Len(text.lines)
               /\ \A n \in 1 .. Len(text.lines) : LegalLine(text.lines[n])

\* The sections around a line, and around the next one.
LEMMA AroundNext ==
    ASSUME NEW text, Legal(text), NEW n \in 1 .. Len(text.lines)
    PROVE  /\ \A s \in Around(text, n) : s \in 1 .. n - 1 /\ text.lines[s].kind = "section"
           /\ n \notin Sections(text) => Around(text, n + 1) = Around(text, n)
           /\ n \in Sections(text) /\ text.lines[n].relative =>
                 Around(text, n + 1) = Around(text, n) \cup {n}
           /\ n \in Sections(text) /\ ~text.lines[n].relative => Around(text, n + 1) = {n}
<1> DEFINE B(m) == {s \in Sections(text) : s < m}
<1>1. Sections(text) \subseteq 1 .. Len(text.lines)  BY DEF Sections, Legal
<1>2. \A s \in Sections(text) : s \in Nat /\ text.lines[s].kind = "section"
  BY <1>1 DEF Sections, IsKind, Legal
<1>3. n \in Nat  BY DEF Legal
<1>4. B(n + 1) = IF n \in Sections(text) THEN B(n) \cup {n} ELSE B(n)
  BY <1>2, <1>3
<1>5. \A s \in B(n) : s \in 1 .. n - 1 /\ ~ (s > n)  BY <1>1, <1>2, <1>3
<1>6. \A m : Around(text, m) = {s \in B(m) : \A a \in B(m) : a > s => text.lines[a].relative}
  BY DEF Around
<1>7. \A s \in Around(text, n) : s \in 1 .. n - 1 /\ text.lines[s].kind = "section"
  BY <1>2, <1>5, <1>6
<1>8. ~ (n > n) /\ \A s \in B(n) : n > s  BY <1>3, <1>5
<1> HIDE DEF B
<1>9. n \notin Sections(text) => Around(text, n + 1) = Around(text, n)
  BY <1>4, <1>6
<1>10. n \in Sections(text) /\ text.lines[n].relative =>
          Around(text, n + 1) = Around(text, n) \cup {n}
  BY <1>4, <1>5, <1>6, <1>8
<1>11. n \in Sections(text) /\ ~text.lines[n].relative => Around(text, n + 1) = {n}
  BY <1>4, <1>5, <1>6, <1>8
<1> QED BY <1>7, <1>9, <1>10, <1>11

LEMMA PathsTyped ==
    ASSUME NEW text, Legal(text), NEW n \in 1 .. Len(text.lines) + 1, NEW s \in 1 .. n - 1
    PROVE  PathAt(text, n, s) \in Seq(Names)
<1>1. s \in 1 .. Len(text.lines)  BY DEF Legal
<1>2. s \in Around(text, n) => text.lines[s].kind = "section"
  BY DEF Around, Sections, IsKind
<1>3. text.lines[s].kind = "section" => text.lines[s].path \in Seq(Names)
  BY <1>1 DEF Legal, LegalLine
<1> QED BY <1>2, <1>3, EmptySeq DEF PathAt

\* Members that are empty add nothing.
LEMMA FlattenEmpty ==
    ASSUME NEW S, NEW M \in Nat, NEW g \in [1 .. M -> Seq(S)], \A i \in 1 .. M : g[i] = <<>>
    PROVE  FlattenSeq(FirstOf(g, M)) = <<>>
<1> DEFINE E == {n \in 0 .. M : FlattenSeq(FirstOf(g, n)) = <<>>}
<1>0. 0 \in 0 .. M /\ M \in 0 .. M  OBVIOUS
<1>1. 0 \in E  BY <1>0, FlattenStep
<1>2. ASSUME NEW n \in 1 .. M, n - 1 \in E PROVE n \in E
  <2>1. FlattenSeq(FirstOf(g, n)) = <<>> \o <<>>  BY <1>2, FlattenStep
  <2>2. <<>> \o <<>> = <<>>  BY EmptySeq, ConcatEmptySeq
  <2>3. n \in 0 .. M  OBVIOUS
  <2> QED BY <2>1, <2>2, <2>3
<1> HIDE DEF E
<1>3. M \in E  BY <1>0, <1>1, <1>2, InductionUpTo
<1> QED BY <1>3 DEF E

\* What each line does to the prefix.
LEMMA PrefixNext ==
    ASSUME NEW text, Legal(text)
    PROVE  /\ Prefix(text, 0) = <<>>
           /\ \A n \in 0 .. Len(text.lines) : Prefix(text, n) \in Seq(Names)
           /\ \A n \in 1 .. Len(text.lines) :
                 Prefix(text, n) = IF n \in Sections(text)
                                   THEN Enter(Prefix(text, n - 1), text.lines[n])
                                   ELSE Prefix(text, n - 1)
<1> DEFINE N == Len(text.lines)
           P(n) == [s \in 1 .. n |-> PathAt(text, n + 1, s)]
<1>1. N \in Nat  BY DEF Legal
<1>2. ASSUME NEW n \in 0 .. N
      PROVE  /\ P(n) \in [1 .. n -> Seq(Names)] /\ n \in Nat
             /\ FirstOf(P(n), n) = P(n)
             /\ \A m \in 0 .. n : FirstOf(P(n), m) = [s \in 1 .. m |-> PathAt(text, n + 1, s)]
  <2>1. \A s \in 1 .. n : PathAt(text, n + 1, s) \in Seq(Names)
    <3>1. n + 1 \in 1 .. N + 1 /\ (n + 1) - 1 = n  BY <1>1
    <3> QED BY <3>1, PathsTyped
  <2> QED BY <1>1, <2>1 DEF FirstOf
<1>3. Prefix(text, 0) = <<>>
  <2>1. FlattenSeq(FirstOf(P(0), 0)) = <<>>  BY <1>1, <1>2, FlattenStep, 0 \in 0 .. N
  <2> QED BY <1>1, <1>2, <2>1, 0 \in 0 .. N DEF Prefix
<1>4. ASSUME NEW n \in 0 .. N PROVE Prefix(text, n) \in Seq(Names)
  <2> HIDE DEF P
  <2>1. n \in 0 .. n  BY <1>2
  <2>2. FlattenSeq(FirstOf(P(n), n)) \in Seq(Names)  BY <1>2, <2>1, FlattenStep
  <2> QED BY <1>2, <2>2 DEF Prefix, P
<1>5. ASSUME NEW n \in 1 .. N
      PROVE  Prefix(text, n) = IF n \in Sections(text)
                               THEN Enter(Prefix(text, n - 1), text.lines[n])
                               ELSE Prefix(text, n - 1)
  <2> DEFINE head == FlattenSeq(FirstOf(P(n), n - 1))
  <2>1. n \in 0 .. N /\ n - 1 \in 0 .. N /\ n \in 1 .. n /\ n - 1 \in 0 .. n /\ n \in Nat /\ n - 1 \in Nat
    BY <1>1
  <2>2. Prefix(text, n) = head \o PathAt(text, n + 1, n) /\ head \in Seq(Names)
    <3>1. P(n)[n] = PathAt(text, n + 1, n)  BY <2>1
    <3>2. Prefix(text, n) = FlattenSeq(FirstOf(P(n), n))  BY <1>2, <2>1 DEF Prefix
    <3> HIDE DEF P
    <3>3. P(n) \in [1 .. n -> Seq(Names)]  BY <1>2, <2>1
    <3>4. /\ FlattenSeq(FirstOf(P(n), n)) = head \o P(n)[n]
          /\ head \in Seq(Names)
      BY <2>1, <3>3, FlattenStep
    <3> QED BY <3>1, <3>2, <3>4
  <2>3. head = FlattenSeq([s \in 1 .. n - 1 |-> PathAt(text, n + 1, s)])
    BY <1>2, <2>1
  <2>4. Prefix(text, n - 1) = FlattenSeq([s \in 1 .. n - 1 |-> PathAt(text, n, s)])
    BY <2>1 DEF Prefix
  <2>5. \A s \in 1 .. n - 1 : s # n /\ s \in Nat  BY <2>1
  <2>6. n \notin Around(text, n)  BY AroundNext, <2>1
  <2> HIDE DEF head, P
  <2>7. CASE n \notin Sections(text)
    <3>1. PathAt(text, n + 1, n) = <<>>  BY <2>6, <2>7, AroundNext DEF PathAt
    <3>2. [s \in 1 .. n - 1 |-> PathAt(text, n + 1, s)] = [s \in 1 .. n - 1 |-> PathAt(text, n, s)]
      BY <2>7, AroundNext DEF PathAt
    <3>3. head \o <<>> = head  BY <2>2, ConcatEmptySeq
    <3> QED BY <2>2, <2>3, <2>4, <2>7, <3>1, <3>2, <3>3
  <2>8. CASE n \in Sections(text) /\ text.lines[n].relative
    <3>1. PathAt(text, n + 1, n) = text.lines[n].path  BY <2>8, AroundNext DEF PathAt
    <3>2. \A s \in 1 .. n - 1 : PathAt(text, n + 1, s) = PathAt(text, n, s)
      BY <2>5, <2>8, AroundNext DEF PathAt
    <3>3. [s \in 1 .. n - 1 |-> PathAt(text, n + 1, s)] = [s \in 1 .. n - 1 |-> PathAt(text, n, s)]
      BY <3>2
    <3> QED BY <2>2, <2>3, <2>4, <2>8, <3>1, <3>3 DEF Enter
  <2>9. CASE n \in Sections(text) /\ ~text.lines[n].relative
    <3>1. PathAt(text, n + 1, n) = text.lines[n].path  BY <2>9, AroundNext DEF PathAt
    <3>2. \A s \in 1 .. n - 1 : PathAt(text, n + 1, s) = <<>>
      BY <2>5, <2>9, AroundNext DEF PathAt
    <3> DEFINE g == [s \in 1 .. n - 1 |-> PathAt(text, n + 1, s)]
    <3>3. g \in [1 .. n - 1 -> Seq(Names)] /\ (\A s \in 1 .. n - 1 : g[s] = <<>>)
          /\ FirstOf(g, n - 1) = g
      BY <3>2, EmptySeq DEF FirstOf
    <3> HIDE DEF g
    <3>4. FlattenSeq(FirstOf(g, n - 1)) = <<>>  BY <2>1, <3>3, FlattenEmpty
    <3>5. head = <<>>  BY <2>3, <3>3, <3>4 DEF g
    <3>6. text.lines[n].path \in Seq(Names)
      BY <2>9 DEF Legal, LegalLine, Sections, IsKind
    <3>7. <<>> \o text.lines[n].path = text.lines[n].path  BY <3>6, ConcatEmptySeq
    <3> QED BY <2>2, <2>9, <3>1, <3>5, <3>7 DEF Enter
  <2> QED BY <2>7, <2>8, <2>9
<1> HIDE DEF N
<1> QED BY <1>3, <1>4, <1>5 DEF N

\* The key of a line is that in the line behind the prefix.
LEMMA FullKeyIs ==
    ASSUME NEW text, Legal(text), NEW n \in Options(text)
    PROVE  /\ n \in 1 .. Len(text.lines) /\ text.lines[n].key \in Keys
           /\ FullKey(text, n) = Prefix(text, n - 1) \o text.lines[n].key
<1> DEFINE key == text.lines[n].key
           g   == [s \in 1 .. n |-> IF s = n THEN key ELSE PathAt(text, n, s)]
<1>1. n \in 1 .. Len(text.lines) /\ Len(text.lines) \in Nat /\ n \in Nat
  BY DEF Options, Legal
<1>2. key \in Keys /\ key \in Seq(Names)
  BY <1>1 DEF Options, Legal, LegalLine, LegalOption, Keys
<1>3. \A s \in 1 .. n - 1 : PathAt(text, n, s) \in Seq(Names)
  BY <1>1, PathsTyped
<1>4. g \in [1 .. n -> Seq(Names)] /\ FirstOf(g, n) = g /\ g[n] = key
  BY <1>1, <1>2, <1>3 DEF FirstOf
<1>5. FirstOf(g, n - 1) = [s \in 1 .. n - 1 |-> PathAt(text, n, s)]
  <2>1. \A s \in 1 .. n - 1 : g[s] = PathAt(text, n, s)  BY <1>1
  <2> HIDE DEF g
  <2> QED BY <2>1 DEF FirstOf
<1>6. FullKey(text, n) = FlattenSeq(g)  BY DEF FullKey, PathAt
<1> HIDE DEF g
<1>7. FlattenSeq(FirstOf(g, n)) = FlattenSeq(FirstOf(g, n - 1)) \o g[n]
  BY <1>1, <1>4, FlattenStep, n \in 1 .. n
<1>8. Prefix(text, n - 1) = FlattenSeq([s \in 1 .. n - 1 |-> PathAt(text, n, s)])
  BY <1>1 DEF Prefix
<1> QED BY <1>1, <1>2, <1>4, <1>5, <1>6, <1>7, <1>8
-------------------------------------------------------------------------------
(* What the lines up to n set: the good lines are those before the first bad one. *)

\* The value that a line gives its option when it is read.
ReadAt(text, n) == IF IsKind(text, n, "option") THEN text.lines[n].value
                                                ELSE BareValue(text, n)

GoodUpTo(text, bad, n) == {m \in Options(text) : m <= n /\ \A b \in bad : m < b}

ThoseFor(text, good, k) == {m \in good : FullKey(text, m) = k}

Taken(text, opts, good) ==
    LET keys == {FullKey(text, m) : m \in good}
    IN [k \in DOMAIN opts \cup keys |->
           IF k \in keys THEN ReadAt(text, Max(ThoseFor(text, good, k))) ELSE opts[k]]

\* The last line is the greatest.
LEMMA MaxIs ==
    ASSUME NEW n \in Nat, NEW S \in SUBSET Nat, n \in S, \A m \in S : m <= n
    PROVE  Max(S) = n
<1>1. n \in S /\ \A y \in S : n >= y  OBVIOUS
<1>2. Max(S) \in S /\ \A y \in S : Max(S) >= y  BY <1>1, Zenon DEF Max
<1>3. Max(S) \in Nat /\ Max(S) <= n /\ Max(S) >= n  BY <1>2
<1> QED BY <1>3

\* One more good line sets its key.
LEMMA TakenNext ==
    ASSUME NEW text, NEW opts, NEW good \in SUBSET Nat, NEW n \in Nat,
           \A m \in good : m < n
    PROVE  With(Taken(text, opts, good), FullKey(text, n), ReadAt(text, n))
             = Taken(text, opts, good \cup {n})
<1> DEFINE key   == FullKey(text, n)
           more  == good \cup {n}
           keys  == {FullKey(text, m) : m \in good}
           keys2 == {FullKey(text, m) : m \in more}
           old   == Taken(text, opts, good)
           new   == Taken(text, opts, more)
<1>1. keys2 = keys \cup {key}  OBVIOUS
<1>2. /\ DOMAIN old = DOMAIN opts \cup keys
      /\ \A k \in DOMAIN opts \cup keys :
            old[k] = IF k \in keys THEN ReadAt(text, Max(ThoseFor(text, good, k))) ELSE opts[k]
  BY DEF Taken
<1>3. new = [k \in DOMAIN opts \cup keys2 |->
                IF k \in keys2 THEN ReadAt(text, Max(ThoseFor(text, more, k))) ELSE opts[k]]
  BY DEF Taken
<1>4. Max(ThoseFor(text, more, key)) = n
  <2>1. ThoseFor(text, more, key) \in SUBSET Nat /\ n \in ThoseFor(text, more, key)
        /\ \A m \in ThoseFor(text, more, key) : m <= n
    <3>1. n \in more /\ \A m \in more : m \in Nat /\ m <= n  OBVIOUS
    <3> HIDE DEF more
    <3> QED BY <3>1 DEF ThoseFor
  <2> QED BY <2>1, MaxIs
<1>5. \A k : k # key => ThoseFor(text, more, k) = ThoseFor(text, good, k)
  BY DEF ThoseFor
<1> HIDE DEF key, more, keys, keys2, old, new
<1>6. DOMAIN old \cup {key} = DOMAIN opts \cup keys2  BY <1>1, <1>2
<1>7. \A k \in DOMAIN opts \cup keys2 :
         (IF k = key THEN ReadAt(text, n) ELSE old[k])
           = IF k \in keys2 THEN ReadAt(text, Max(ThoseFor(text, more, k))) ELSE opts[k]
  BY <1>1, <1>2, <1>4, <1>5
<1>8. With(old, key, ReadAt(text, n))
        = [k \in DOMAIN opts \cup keys2 |-> IF k = key THEN ReadAt(text, n) ELSE old[k]]
  BY <1>6 DEF With
<1> QED BY <1>3, <1>7, <1>8 DEF key, more, old, new

\* A reading with one of its parts changed.
IsReading(r) == r = Reading(r.prefix, r.options, r.skip, r.failed)

LEMMA ReadingParts ==
    ASSUME NEW p, NEW o, NEW s, NEW f, NEW r, r = Reading(p, o, s, f)
    PROVE  r.prefix = p /\ r.options = o /\ r.skip = s /\ r.failed = f /\ IsReading(r)
BY DEF Reading, IsReading

LEMMA ReadingChanged ==
    ASSUME NEW r, IsReading(r), NEW x
    PROVE  /\ [r EXCEPT !.prefix = x] = Reading(x, r.options, r.skip, r.failed)
           /\ [r EXCEPT !.options = x] = Reading(r.prefix, x, r.skip, r.failed)
           /\ [r EXCEPT !.skip = x] = Reading(r.prefix, r.options, x, r.failed)
           /\ [r EXCEPT !.failed = x] = Reading(r.prefix, r.options, r.skip, x)
BY DEF Reading, IsReading

\* An option is set, or refused and the reading fails; the prefix stays.
LEMMA SetIs ==
    ASSUME NEW opts, NEW k, NEW value, NEW allow
    PROVE  /\ k \in DOMAIN opts \/ allow =>
                SetParsedOption(opts, k, value, allow) = Outcome(With(opts, k, value), FALSE)
           /\ ~(k \in DOMAIN opts \/ allow) =>
                SetParsedOption(opts, k, value, allow) = Outcome(opts, TRUE)
BY DEF SetParsedOption

LEMMA ReadOptionIs ==
    ASSUME NEW r, IsReading(r), NEW key, NEW value, NEW allow
    PROVE  LET set == SetParsedOption(r.options, r.prefix \o key, value, allow)
           IN ReadOption(r, key, value, allow) = Reading(r.prefix, set.options, r.skip, set.failed)
<1> DEFINE set == SetParsedOption(r.options, r.prefix \o key, value, allow)
           q   == ReadOption(r, key, value, allow)
           w   == [r EXCEPT !.options = set.options]
<1> HIDE DEF set
<1>1. w = Reading(r.prefix, set.options, r.skip, r.failed)  BY ReadingChanged
<1>2. q = [w EXCEPT !.failed = set.failed]
  BY DEF ReadOption, set, Reading, IsReading
<1> HIDE DEF w
<1>3. IsReading(w) /\ w.prefix = r.prefix /\ w.options = set.options /\ w.skip = r.skip
  BY <1>1, ReadingParts
<1>4. [w EXCEPT !.failed = set.failed] = Reading(w.prefix, w.options, w.skip, set.failed)
  BY <1>3, ReadingChanged
<1> QED BY <1>2, <1>3, <1>4 DEF set

\* What has been read after n lines.
ReadUpTo(text, opts, allow, n, r) ==
    LET bad == BadLines(text, opts, allow)
    IN /\ IsReading(r)
       /\ r.options = Taken(text, opts, GoodUpTo(text, bad, n))
       /\ r.skip = FALSE /\ r.failed \in BOOLEAN
       /\ r.failed <=> \E b \in bad : b <= n
       /\ ~r.failed => r.prefix = Prefix(text, n)

\* The lines before n that are good are those up to n - 1, and n if it is good.
LEMMA GoodNext ==
    ASSUME NEW text, Legal(text), NEW bad, bad \subseteq Nat, NEW n \in 1 .. Len(text.lines)
    PROVE  /\ GoodUpTo(text, bad, n) \in SUBSET Nat
           /\ GoodUpTo(text, bad, n - 1) \in SUBSET Nat
           /\ \A m \in GoodUpTo(text, bad, n - 1) : m < n
           /\ (\E b \in bad : b <= n) => GoodUpTo(text, bad, n) = GoodUpTo(text, bad, n - 1)
           /\ n \notin Options(text) => GoodUpTo(text, bad, n) = GoodUpTo(text, bad, n - 1)
           /\ n \in Options(text) /\ (\A b \in bad : ~ (b <= n)) =>
                 GoodUpTo(text, bad, n) = GoodUpTo(text, bad, n - 1) \cup {n}
<1>1. Options(text) \subseteq Nat /\ n \in Nat  BY DEF Options, Legal
<1>2. \A m \in Nat : (m <= n <=> m <= n - 1 \/ m = n) /\ (m <= n - 1 <=> m < n)  BY <1>1
<1>3. GoodUpTo(text, bad, n) \in SUBSET Nat /\ GoodUpTo(text, bad, n - 1) \in SUBSET Nat
  BY <1>1 DEF GoodUpTo
<1>4. \A m \in GoodUpTo(text, bad, n - 1) : m < n  BY <1>1, <1>2 DEF GoodUpTo
<1>5. ASSUME NEW b \in bad, b <= n PROVE n \notin GoodUpTo(text, bad, n)
  BY <1>1, <1>5 DEF GoodUpTo
<1>6. GoodUpTo(text, bad, n - 1) \subseteq GoodUpTo(text, bad, n)
  BY <1>1, <1>2 DEF GoodUpTo
<1>7. \A m \in GoodUpTo(text, bad, n) : m = n \/ m \in GoodUpTo(text, bad, n - 1)
  BY <1>1, <1>2 DEF GoodUpTo
<1>8. n \in GoodUpTo(text, bad, n) => n \in Options(text)  BY DEF GoodUpTo
<1>9. n \in Options(text) /\ (\A b \in bad : ~ (b <= n)) => n \in GoodUpTo(text, bad, n)
  BY <1>1 DEF GoodUpTo
<1> QED BY <1>3, <1>4, <1>5, <1>6, <1>7, <1>8, <1>9

\* Which lines are bad.
LEMMA BadSeen ==
    ASSUME NEW text, Legal(text), NEW opts, NEW allow, NEW n \in 1 .. Len(text.lines)
    PROVE  LET bad == BadLines(text, opts, allow)
           IN /\ bad \subseteq Nat
              /\ n \in Options(text) =>
                    (n \in bad <=> ~allow /\ FullKey(text, n) \notin DOMAIN opts)
              /\ n \in Sections(text) =>
                    (n \in bad <=> IsLast(text, n) /\ ~text.lines[n].closed)
              /\ n \notin Options(text) /\ n \notin Sections(text) => n \notin bad
              /\ (\E b \in bad : b <= n) <=> (\E b \in bad : b <= n - 1) \/ n \in bad
<1> DEFINE bad == BadLines(text, opts, allow)
<1>1. /\ Options(text) \subseteq Nat /\ Sections(text) \subseteq Nat /\ n \in Nat
      /\ Options(text) \cap Sections(text) = {}
  BY DEF Options, Sections, IsKind, Legal
<1>2. bad = {m \in Options(text)  : ~allow /\ FullKey(text, m) \notin DOMAIN opts}
            \cup {m \in Sections(text) : IsLast(text, m) /\ ~text.lines[m].closed}
  BY DEF BadLines
<1> HIDE DEF bad
<1>3. bad \subseteq Nat  BY <1>1, <1>2
<1>4. \A b \in Nat : b <= n <=> b <= n - 1 \/ b = n  BY <1>1
<1>5. (\E b \in bad : b <= n) <=> (\E b \in bad : b <= n - 1) \/ n \in bad
  BY <1>1, <1>3, <1>4
<1>6. n \in Options(text) => (n \in bad <=> ~allow /\ FullKey(text, n) \notin DOMAIN opts)
  BY <1>1, <1>2
<1>7. n \in Sections(text) => (n \in bad <=> IsLast(text, n) /\ ~text.lines[n].closed)
  BY <1>1, <1>2
<1>8. n \notin Options(text) /\ n \notin Sections(text) => n \notin bad  BY <1>2
<1> QED BY <1>3, <1>5, <1>6, <1>7, <1>8 DEF bad

\* Each line keeps that: one case for each kind of line, good or bad.
LEMMA ReadLineIs ==
    ASSUME NEW text, Legal(text), BareKeysTakeNoLine(text), NEW opts, NEW allow,
           NEW n \in 1 .. Len(text.lines), NEW r, ReadUpTo(text, opts, allow, n - 1, r)
    PROVE  ReadUpTo(text, opts, allow, n, ReadLine(text, n, r, allow))
<1> DEFINE bad  == BadLines(text, opts, allow)
           good == GoodUpTo(text, bad, n - 1)
           o    == Taken(text, opts, good)
           p    == Prefix(text, n - 1)
           line == text.lines[n]
<1> SUFFICES ASSUME NEW e, e = ReadLine(text, n, r, allow)
             PROVE  ReadUpTo(text, opts, allow, n, e)
  OBVIOUS
<1>1. /\ IsReading(r) /\ r.options = o /\ r.skip = FALSE /\ r.failed \in BOOLEAN
      /\ r.failed <=> \E b \in bad : b <= n - 1
      /\ ~r.failed => r.prefix = p
  BY DEF ReadUpTo
<1>2. /\ bad \subseteq Nat
      /\ n \in Options(text) => (n \in bad <=> ~allow /\ FullKey(text, n) \notin DOMAIN opts)
      /\ n \in Sections(text) => (n \in bad <=> IsLast(text, n) /\ ~line.closed)
      /\ n \notin Options(text) /\ n \notin Sections(text) => n \notin bad
      /\ (\E b \in bad : b <= n) <=> (\E b \in bad : b <= n - 1) \/ n \in bad
  BY BadSeen
<1>3. /\ n \in Options(text) <=> line.kind \in {"option", "bare"}
      /\ n \in Sections(text) <=> line.kind = "section"
      /\ n \in Nat
  BY DEF Options, Sections, IsKind, Legal
<1>4. ASSUME IsReading(e), e.skip = FALSE, NEW taken, e.options = Taken(text, opts, taken),
             taken = GoodUpTo(text, bad, n), e.failed \in BOOLEAN,
             e.failed <=> \E b \in bad : b <= n, ~e.failed => e.prefix = Prefix(text, n)
      PROVE  ReadUpTo(text, opts, allow, n, e)
  BY <1>4 DEF ReadUpTo
<1>5. /\ good \in SUBSET Nat /\ \A m \in good : m < n
      /\ (\E b \in bad : b <= n) => GoodUpTo(text, bad, n) = good
      /\ n \notin Options(text) => GoodUpTo(text, bad, n) = good
      /\ n \in Options(text) /\ (\A b \in bad : ~ (b <= n)) => GoodUpTo(text, bad, n) = good \cup {n}
  BY <1>2, GoodNext
<1>6. Prefix(text, n) = IF n \in Sections(text) THEN Enter(p, line) ELSE p
  BY PrefixNext
<1> HIDE DEF bad, good, o, p, line
<1>7. CASE r.failed
  <2>1. e = r  BY <1>7 DEF ReadLine
  <2>2. (\E b \in bad : b <= n) /\ GoodUpTo(text, bad, n) = good  BY <1>1, <1>2, <1>5, <1>7
  <2> QED BY <1>1, <1>4, <1>7, <2>1, <2>2 DEF o
<1>8. CASE ~r.failed
  <2>1. r.prefix = p /\ \A b \in bad : ~ (b <= n - 1)
    BY <1>1, <1>8
  <2>2. e = CASE line.kind = "option"  -> ReadOption(r, line.key, line.value, allow)
              [] line.kind = "bare"    ->
                   [ReadOption(r, line.key, BareValue(text, n), allow)
                       EXCEPT !.skip = SwallowsNext(text, n)]
              [] line.kind = "section" -> ReadSection(r, line, IsLast(text, n))
              [] OTHER                 -> r
    BY <1>1, <1>8 DEF ReadLine, line
  <2>3. CASE n \in Options(text)
    <3> DEFINE key == FullKey(text, n)
               w   == ReadOption(r, line.key, ReadAt(text, n), allow)
               sets == key \in DOMAIN o \/ allow
    <3>1. key = r.prefix \o line.key  BY <2>1, <2>3, FullKeyIs DEF p, line
    <3>2. /\ IsReading(w) /\ w.prefix = p /\ w.skip = FALSE
          /\ w.failed \in BOOLEAN /\ (w.failed <=> ~sets)
          /\ sets  => w.options = With(o, key, ReadAt(text, n))
          /\ ~sets => w.options = o
      <4> HIDE DEF key, w
      <4>1. r.prefix = p /\ r.options = o /\ r.skip = FALSE /\ IsReading(r)  BY <1>1, <2>1
      <4> DEFINE set == SetParsedOption(o, key, ReadAt(text, n), allow)
      <4>2. w = Reading(r.prefix, set.options, r.skip, set.failed)
        BY <3>1, <4>1, ReadOptionIs DEF w
      <4>3. /\ sets  => set = Outcome(With(o, key, ReadAt(text, n)), FALSE)
            /\ ~sets => set = Outcome(o, TRUE)
        BY SetIs
      <4> HIDE DEF set
      <4>4. /\ sets  => set.options = With(o, key, ReadAt(text, n)) /\ set.failed = FALSE
            /\ ~sets => set.options = o /\ set.failed = TRUE
        BY <4>3 DEF Outcome
      <4>5. IsReading(w) /\ w.prefix = r.prefix /\ w.skip = r.skip /\ w.options = set.options
            /\ w.failed = set.failed
        BY <4>2, ReadingParts
      <4> QED BY <4>1, <4>4, <4>5
    <3> HIDE DEF w
    <3>3. e = w
      <4>1. CASE line.kind = "option"
        BY <2>2, <4>1 DEF ReadAt, IsKind, line, w
      <4>2. CASE line.kind = "bare"
        <5>1. text.eol = "CRLF" \/ n = Len(text.lines)
          BY <4>2 DEF BareKeysTakeNoLine, IsKind, line, Legal
        <5>2. SwallowsNext(text, n) = FALSE
          BY <1>3, <5>1 DEF SwallowsNext, Legal
        <5>3. BareValue(text, n) = ReadAt(text, n)
          BY <4>2, <5>2 DEF ReadAt, IsKind, line
        <5>4. e = [w EXCEPT !.skip = w.skip]  BY <2>2, <3>2, <4>2, <5>2, <5>3 DEF w
        <5> QED BY <3>2, <5>4, ReadingChanged DEF IsReading
      <4> QED BY <1>3, <2>3, <4>1, <4>2
    <3>4. ~allow => (key \in DOMAIN o <=> key \in DOMAIN opts)
      <4>1. DOMAIN o = DOMAIN opts \cup {FullKey(text, m) : m \in good}
        BY DEF o, Taken
      <4>2. ASSUME ~allow, NEW m \in good PROVE FullKey(text, m) \in DOMAIN opts
        <5>1. m \in Options(text) /\ \A b \in bad : m < b  BY <4>2 DEF good, GoodUpTo
        <5>2. m \in Nat /\ ~ (m < m)  BY <1>5, <4>2
        <5>3. m \notin bad  BY <5>1, <5>2
        <5> QED BY <4>2, <5>1, <5>3 DEF bad, BadLines
      <4> HIDE DEF key
      <4> QED BY <4>1, <4>2
    <3>5. n \notin Sections(text)  BY <1>3, <2>3
    <3>6. sets <=> n \notin bad  BY <1>2, <2>3, <3>4
    <3> HIDE DEF key, sets
    <3>7. CASE n \in bad
      <4>1. e.options = o /\ e.failed  BY <3>2, <3>3, <3>6, <3>7
      <4>2. GoodUpTo(text, bad, n) = good /\ \E b \in bad : b <= n
        BY <1>2, <1>5, <3>7
      <4> QED BY <1>4, <3>2, <3>3, <4>1, <4>2 DEF o
    <3>8. CASE n \notin bad
      <4>1. e.options = With(o, key, ReadAt(text, n)) /\ ~e.failed
        BY <3>2, <3>3, <3>6, <3>8
      <4>2. \A b \in bad : ~ (b <= n)  BY <1>2, <2>1, <3>8
      <4>3. GoodUpTo(text, bad, n) = good \cup {n}  BY <1>5, <2>3, <4>2
      <4>4. With(o, key, ReadAt(text, n)) = Taken(text, opts, good \cup {n})
        BY <1>3, <1>5, TakenNext DEF o, key
      <4> QED BY <1>4, <1>6, <3>2, <3>3, <3>5, <4>1, <4>2, <4>3, <4>4
    <3> QED BY <3>7, <3>8
  <2>4. CASE n \in Sections(text)
    <3>1. n \notin Options(text) /\ e = ReadSection(r, line, IsLast(text, n))
      BY <1>3, <2>2, <2>4
    <3>2. GoodUpTo(text, bad, n) = good  BY <1>5, <3>1
    <3>3. CASE n \in bad
      <4>1. e = [r EXCEPT !.failed = TRUE]  BY <1>2, <2>4, <3>1, <3>3 DEF ReadSection
      <4>2. e = Reading(r.prefix, r.options, r.skip, TRUE)  BY <1>1, <4>1, ReadingChanged
      <4> DEFINE failed == TRUE
      <4>a. e = Reading(r.prefix, r.options, r.skip, failed)  BY <4>2
      <4> HIDE DEF failed
      <4>b. IsReading(e) /\ e.options = r.options /\ e.skip = r.skip /\ e.failed = failed
        BY <4>a, ReadingParts
      <4>3. IsReading(e) /\ e.options = o /\ e.skip = FALSE /\ e.failed = TRUE
        BY <1>1, <4>b DEF failed
      <4> QED BY <1>2, <1>4, <3>2, <3>3, <4>3 DEF o
    <3>4. CASE n \notin bad
      <4>1. e = [r EXCEPT !.prefix = Enter(r.prefix, line)]
        BY <1>2, <2>4, <3>1, <3>4 DEF ReadSection
      <4>2. e = Reading(Enter(p, line), r.options, r.skip, r.failed)
        BY <1>1, <2>1, <4>1, ReadingChanged
      <4>3. IsReading(e) /\ e.prefix = Enter(p, line) /\ e.options = o /\ e.skip = FALSE
            /\ e.failed = r.failed
        BY <1>1, <4>2, ReadingParts
      <4>4. \A b \in bad : ~ (b <= n)  BY <1>2, <2>1, <3>4
      <4> QED BY <1>1, <1>4, <1>6, <1>8, <2>4, <3>2, <4>3, <4>4 DEF o
    <3> QED BY <3>3, <3>4
  <2>5. CASE n \notin Options(text) /\ n \notin Sections(text)
    <3>1. e = r  BY <1>3, <2>2, <2>5
    <3>2. GoodUpTo(text, bad, n) = good /\ \A b \in bad : ~ (b <= n)
      BY <1>2, <1>5, <2>1, <2>5
    <3> QED BY <1>1, <1>4, <1>6, <1>8, <2>1, <2>5, <3>1, <3>2 DEF o
  <2> QED BY <2>3, <2>4, <2>5
<1> QED BY <1>7, <1>8
-------------------------------------------------------------------------------
(* The array.                                                                     *)

Cells  == Arguments \cup {Null}
Arrays == UNION {[0 .. L -> Cells] : L \in Nat}

\* a holds c arguments and then the null.
EndsAt(a, c) == /\ c \in Nat /\ 0 .. c \subseteq DOMAIN a
                /\ a[c] = Null
                /\ \A n \in 0 .. c - 1 : a[n] \in Arguments

LEMMA ArgumentsLegal ==
    /\ \A arg \in Arguments : LegalOption(arg)
    /\ Null \notin Arguments
BY ArgumentsAssumption DEF Arguments

LEMMA ArraysSeen ==
    ASSUME NEW a \in Arrays
    PROVE  /\ \E L \in Nat : a \in [0 .. L -> Cells]
           /\ DOMAIN a \subseteq Nat /\ \A n \in DOMAIN a : a[n] \in Cells
           /\ \A n \in DOMAIN a, c \in Cells : [a EXCEPT ![n] = c] \in Arrays
<1>1. PICK L \in Nat : a \in [0 .. L -> Cells]  BY DEF Arrays
<1>2. DOMAIN a = 0 .. L  BY <1>1
<1>3. \A n \in DOMAIN a, c \in Cells : [a EXCEPT ![n] = c] \in [0 .. L -> Cells]  BY <1>1
<1>4. [0 .. L -> Cells] \subseteq Arrays  BY DEF Arrays
<1> QED BY <1>1, <1>2, <1>3, <1>4

LEMMA LineEnds ==
    ASSUME NEW line \in CommandLines
    PROVE  ArrayOf(line) \in Arrays /\ EndsAt(ArrayOf(line), Len(line))
<1>1. line \in Seq(Range(line))  BY ArgumentsAssumption DEF IsSequence
<1>2. Len(line) \in Nat /\ DOMAIN line = 1 .. Len(line)  BY <1>1, LenProperties
<1>3. \A n \in 1 .. Len(line) : line[n] \in Arguments  BY <1>2 DEF Arguments, Range
<1>4. \A n \in 0 .. Len(line) - 1 : n + 1 \in 1 .. Len(line) /\ n # Len(line)
  <2>1. \A L \in Nat : \A n \in 0 .. L - 1 : n + 1 \in 1 .. L /\ n # L  OBVIOUS
  <2> QED BY <1>2, <2>1
<1>5. \A n \in 0 .. Len(line) :
        ArrayOf(line)[n] = IF n = Len(line) THEN Null ELSE line[n + 1]
  BY DEF ArrayOf
<1>6. \A n \in 0 .. Len(line) : n # Len(line) => n \in 0 .. Len(line) - 1
  <2>1. \A L \in Nat : \A n \in 0 .. L : n # L => n \in 0 .. L - 1  OBVIOUS
  <2> QED BY <1>2, <2>1
<1>7. Len(line) \in 0 .. Len(line) /\ 0 .. Len(line) - 1 \subseteq 0 .. Len(line)  BY <1>2
<1>8. \A n \in 0 .. Len(line) - 1 : ArrayOf(line)[n] \in Arguments
  BY <1>3, <1>4, <1>5, <1>7
<1>9. ArrayOf(line)[Len(line)] = Null  BY <1>5, <1>7
<1>10. ArrayOf(line) \in [0 .. Len(line) -> Cells]
  <2>1. \A n \in 0 .. Len(line) : (IF n = Len(line) THEN Null ELSE line[n + 1]) \in Cells
    BY <1>3, <1>4, <1>6 DEF Cells
  <2> QED BY <2>1 DEF ArrayOf
<1> QED BY <1>2, <1>8, <1>9, <1>10 DEF Arrays, EndsAt

\* A call of parse_args finds what it needs to remember.
LEMMA GivenEnds ==
    ASSUME NEW a \in Arrays, NEW c, EndsAt(a, c)
    PROVE  /\ DOMAIN Restrict(a, 0 .. c) = 0 .. c
           /\ EndsAt(Restrict(a, 0 .. c), c)
           /\ \A n \in 0 .. c : Restrict(a, 0 .. c)[n] = a[n]
<1>1. c \in Nat /\ c \in 0 .. c /\ \A n \in 0 .. c - 1 : n \in 0 .. c  BY DEF EndsAt
<1>2. /\ DOMAIN Restrict(a, 0 .. c) = 0 .. c
      /\ \A n \in 0 .. c : Restrict(a, 0 .. c)[n] = a[n]
  BY DEF Restrict
<1> QED BY <1>1, <1>2 DEF EndsAt
-------------------------------------------------------------------------------
(* What is to be removed.  N is the index of the null.                            *)

\* The arguments that are looked at when the scan is at argument i.
LEMMA ScannedSoFar ==
    ASSUME NEW N \in Nat, DOMAIN given = 0 .. N, EndsAt(given, N), NEW i \in 1 .. N,
           \A n \in 1 .. i - 1 : given[n].kind # "separator"
    PROVE  /\ 1 .. i - 1 \subseteq Scanned /\ (i < N => i \in Scanned)
           /\ Scanned \subseteq 1 .. N - 1
           /\ i = N => Scanned = 1 .. N - 1
           /\ i < N /\ given[i].kind = "separator" => Scanned = 1 .. i
<1>1. \A n : Argument(n) <=> n \in 1 .. N - 1
  <2>1. \A n \in 1 .. N - 1 : n \in (0 .. N) \ {0} /\ n \in 0 .. N - 1  OBVIOUS
  <2>2. \A n \in (0 .. N) \ {0} : n = N \/ n \in 1 .. N - 1  OBVIOUS
  <2>3. given[N] = Null /\ \A n \in 0 .. N - 1 : given[n] # Null
    BY ArgumentsLegal DEF EndsAt
  <2> QED BY <2>1, <2>2, <2>3 DEF Argument
<1>2. \A s \in Separators : s \in 1 .. N - 1 /\ given[s].kind = "separator" /\ s >= i
  <2>1. \A s \in Separators : s \in 1 .. N - 1 /\ given[s].kind = "separator"
    BY <1>1 DEF Separators
  <2>2. \A s \in 1 .. N - 1 : given[s].kind = "separator" => s >= i  OBVIOUS
  <2> QED BY <2>1, <2>2
<1>3. \A n : n \in Scanned <=> n \in 1 .. N - 1 /\ \A s \in Separators : n <= s
  BY <1>1 DEF Scanned, Argument
<1>4. \A n \in 1 .. N - 1 : n <= i => n \in Scanned
  <2>1. \A n \in 1 .. N - 1 : n <= i => \A s \in Separators : n <= s  BY <1>2
  <2> QED BY <1>3, <2>1
<1>5. 1 .. i - 1 \subseteq Scanned /\ (i < N => i \in Scanned)
  <2>1. \A n \in 1 .. i - 1 : n \in 1 .. N - 1 /\ n <= i  OBVIOUS
  <2>2. i < N => i \in 1 .. N - 1 /\ i <= i  OBVIOUS
  <2> QED BY <1>4, <2>1, <2>2
<1>6. Scanned \subseteq 1 .. N - 1  BY <1>3
<1>7. ASSUME i < N, given[i].kind = "separator" PROVE Scanned = 1 .. i
  <2>1. i \in 1 .. N - 1 /\ i \in 0 .. N  BY <1>7
  <2>2. i \in Separators  BY <1>1, <1>7, <2>1 DEF Separators
  <2>3. Scanned \subseteq 1 .. i
    <3>1. \A n \in 1 .. N - 1 : n <= i => n \in 1 .. i  OBVIOUS
    <3> QED BY <1>3, <2>2, <3>1
  <2>4. 1 .. i = (1 .. i - 1) \cup {i}  OBVIOUS
  <2> QED BY <1>5, <1>7, <2>3, <2>4
<1> QED BY <1>5, <1>6, <1>7

\* Of the places 0 .. N those in R are to go.
LEMMA KeepCounts ==
    ASSUME NEW N \in Nat, NEW R \in SUBSET (1 .. N - 1), NEW K, K = (0 .. N) \ R
    PROVE  /\ K \in SUBSET (0 .. N) /\ N \in K
           /\ IsFiniteSet(R) /\ Cardinality(R) \in Nat
           /\ Cardinality(K) = N + 1 - Cardinality(R) /\ Cardinality(K) - 1 \in 0 .. N
           /\ Rank(K, N) = Cardinality(K) - 1 /\ Rank(K, N + 1) = Cardinality(K)
           /\ \A n \in K : n # N => Rank(K, n) < Cardinality(K) - 1
<1>1. K \in SUBSET (0 .. N) /\ N \in K  OBVIOUS
<1>2. IsFiniteSet(0 .. N) /\ Cardinality(0 .. N) = N + 1  BY FS_Interval
<1>3. R \in SUBSET (0 .. N)  OBVIOUS
<1>4. IsFiniteSet(R) /\ Cardinality(R) \in Nat  BY <1>2, <1>3, FS_Subset, FS_CardinalityType
<1>5. Cardinality(K) = N + 1 - Cardinality(R)
  <2>1. (0 .. N) \cap R = R  BY <1>3
  <2>2. Cardinality((0 .. N) \ R) = Cardinality(0 .. N) - Cardinality((0 .. N) \cap R)
    BY <1>2, FS_Difference
  <2>3. Cardinality(K) = Cardinality(0 .. N) - Cardinality(R)  BY <2>1, <2>2, Zenon
  <2> QED BY <1>2, <1>4, <2>3
<1>6. Rank(K, N + 1) = Cardinality(K) /\ Cardinality(K) \in Nat
  <2>1. N + 1 \in Nat /\ \A k \in K : k < N + 1  OBVIOUS
  <2>2. /\ \A n \in Nat : (\A k \in K : k < n) => Rank(K, n) = Cardinality(K)
        /\ Cardinality(K) \in Nat
    BY <1>1, RankCounts
  <2> QED BY <2>1, <2>2
<1>7. Rank(K, N) = Cardinality(K) - 1
  <2>1. Rank(K, N + 1) = Rank(K, N) + 1 /\ Rank(K, N) \in Nat  BY <1>1, RankCounts
  <2> QED BY <1>6, <2>1
<1>8. \A n \in K : n # N => Rank(K, n) < Rank(K, N)
  <2>1. \A n \in K : n # N => n < N  OBVIOUS
  <2> QED BY <1>1, <2>1, RankGrows
<1>9. Cardinality(K) - 1 \in 0 .. N
  <2>1. Rank(K, N) \in Nat  BY <1>1, RankCounts
  <2> QED BY <1>4, <1>5, <1>7, <2>1
<1>10. \A n \in K : n # N => Rank(K, n) < Cardinality(K) - 1  BY <1>7, <1>8
<1> QED BY <1>1, <1>4, <1>5, <1>6, <1>7, <1>9, <1>10, Zenon
-------------------------------------------------------------------------------
(* The inductive invariant.                                                       *)

ScanFrames   == [pc : {"scan"}, allow : BOOLEAN, i : Nat, used : Seq(Nat)]
RemoveFrames == [pc : {"remove"}, used : Seq(Nat), u : Nat, old : Nat, new : Nat]

\* Outside the removal argv holds argc arguments.
Typed == /\ options \in LegalOptions
         /\ argv \in Arrays
         /\ frame \in {NoFrame} \cup ScanFrames \cup RemoveFrames
         /\ result \in {"none", "parsed", "help", "thrown"}
         /\ InCall => result = "none"
         /\ frame.pc # "remove" => EndsAt(argv, argc)

Increasing(used) == \A j, k \in 1 .. Len(used) : j < k => used[j] < used[k]

\* The scan has looked at the arguments before i and used those that are not plain.
ScanInv == frame.pc = "scan" =>
    /\ DOMAIN given = 0 .. argc /\ EndsAt(given, argc)
    /\ \A n \in 0 .. argc : argv[n] = given[n]
    /\ frame.i \in 1 .. argc
    /\ Increasing(frame.used)
    /\ Range(frame.used) = {n \in 1 .. frame.i - 1 : given[n].kind # "plain"}
    /\ \A n \in 1 .. frame.i - 1 : given[n].kind # "separator" /\ given[n].kind # "help"

\* The removal has come to old: from there on argv is as it was, and what is kept of
\* the places before is where it belongs.  The null ends what has been moved once it
\* is the last one kept.
RemovalAt(N) ==
    /\ DOMAIN given = 0 .. N /\ EndsAt(given, N) /\ 0 .. N \subseteq DOMAIN argv
    /\ Increasing(frame.used) /\ Range(frame.used) = ToRemove /\ ToRemove \subseteq 1 .. N - 1
    /\ argc = Cardinality(ToKeep) - 1
    /\ frame.u \in 2 .. Len(frame.used) + 1 /\ frame.old \in 1 .. N + 1
    /\ \A j \in 1 .. Len(frame.used) : j < frame.u <=> frame.used[j] < frame.old
    /\ frame.new = Rank(ToKeep, frame.old)
    /\ \A n \in frame.old .. N : argv[n] = given[n]
    /\ \A n \in ToKeep : n < frame.old => argv[Rank(ToKeep, n)] = given[n]
    /\ \A p \in 0 .. frame.new - 1 : argv[p] = Null <=> p = argc

RemoveInv == frame.pc = "remove" => \E N \in Nat : RemovalAt(N)

ConfigInv == Typed /\ ScanInv /\ RemoveInv /\ ArgumentsCompacted

\* The options: what the arguments up to c set, where no file was read.
NoFiles == \A n \in DOMAIN given : Argument(n) => given[n].kind # "file"

SetBy(k, c) == {n \in 1 .. c : given[n].kind = "option" /\ given[n].key = k}

TakenUpTo(c) ==
    /\ \A k \in DOMAIN options :
         options[k] = IF SetBy(k, c) # {} THEN given[Max(SetBy(k, c))].value ELSE before[k]
    /\ DOMAIN before \subseteq DOMAIN options
    /\ \A n \in 1 .. c : given[n].kind = "option" => given[n].key \in DOMAIN options

\* No argument up to m ends the scan before its end.
Passed(m) == /\ m \in Scanned
             /\ \A k \in Scanned : k <= m => /\ given[k].kind # "help"
                                             /\ given[k].kind = "option"
                                                  => given[k].key \in DOMAIN options

\* The arguments before the end of the scan are those up to c.
EndedAt(c) == /\ DOMAIN given \subseteq Nat /\ 1 .. c \subseteq DOMAIN given
              /\ c \in 0 .. Cardinality(DOMAIN given)
              /\ \A m \in DOMAIN given \ {0} : m <= c <=> Passed(m)
              /\ TakenUpTo(c)

OptionsInv == NoFiles =>
    /\ frame.pc = "scan" => TakenUpTo(frame.i - 1)
    /\ frame.pc = "remove" \/ result # "none" => \E c \in Nat : EndedAt(c)
-------------------------------------------------------------------------------
(* What does not change with given, and what a frame is.                          *)

LEMMA GivenSame ==
    ASSUME given' = given
    PROVE  /\ Separators' = Separators /\ Scanned' = Scanned
           /\ ToRemove' = ToRemove /\ ToKeep' = ToKeep /\ (NoFiles' <=> NoFiles)
<1>1. \A n : Argument(n)' <=> Argument(n)  BY DEF Argument
<1>2. Separators' = Separators  BY <1>1 DEF Separators, Argument
<1>3. Scanned' = Scanned  BY <1>1, <1>2 DEF Scanned, Argument
<1>4. ToRemove' = ToRemove /\ ToKeep' = ToKeep  BY <1>3 DEF ToRemove, ToKeep
<1>5. NoFiles' <=> NoFiles  BY DEF NoFiles, Argument
<1> QED BY <1>2, <1>3, <1>4, <1>5

ScanFrame(allow, i, used)     == [pc |-> "scan", allow |-> allow, i |-> i, used |-> used]
RemoveFrame(used, u, old, new) == [pc |-> "remove", used |-> used, u |-> u,
                                   old |-> old, new |-> new]

LEMMA FramesSeen ==
    ASSUME Typed
    PROVE  /\ frame.pc \in {"idle", "scan", "remove"}
           /\ ~InCall <=> frame.pc = "idle"
           /\ frame.pc = "idle" => frame = NoFrame
           /\ frame.pc = "scan" => /\ frame \in ScanFrames
                                   /\ frame = ScanFrame(frame.allow, frame.i, frame.used)
           /\ frame.pc = "remove" => /\ frame \in RemoveFrames
                                     /\ frame = RemoveFrame(frame.used, frame.u, frame.old, frame.new)
<1>1. NoFrame.pc = "idle" /\ \A f \in ScanFrames : f.pc = "scan"  BY DEF NoFrame, ScanFrames
<1>2. \A f \in RemoveFrames : f.pc = "remove"  BY DEF RemoveFrames
<1>3. \A f \in ScanFrames : f = ScanFrame(f.allow, f.i, f.used)  BY DEF ScanFrames, ScanFrame
<1>4. \A f \in RemoveFrames : f = RemoveFrame(f.used, f.u, f.old, f.new)
  BY DEF RemoveFrames, RemoveFrame
<1>5. frame = NoFrame \/ frame \in ScanFrames \/ frame \in RemoveFrames  BY DEF Typed
<1> QED BY <1>1, <1>2, <1>3, <1>4, <1>5 DEF InCall

LEMMA Idle ==
    /\ NoFrame.pc = "idle"
    /\ NoFrame \in {NoFrame} \cup ScanFrames \cup RemoveFrames
BY DEF NoFrame
-------------------------------------------------------------------------------
(* The program.                                                                   *)

LEMMA StartsInside == Init => ConfigInv /\ OptionsInv
<1> SUFFICES ASSUME Init PROVE ConfigInv /\ OptionsInv  OBVIOUS
<1>1. frame.pc = "idle" /\ result = "none" /\ ~InCall  BY Idle DEF Init, InCall
<1>2. argv = NoArray /\ NoArray \in [0 .. 0 -> Cells] /\ EndsAt(argv, argc)
  <2>1. {0} = 0 .. 0 /\ 0 \in Nat /\ \A n \in 0 .. 0 - 1 : FALSE  OBVIOUS
  <2>2. NoArray \in [{0} -> Cells] /\ NoArray[0] = Null /\ DOMAIN NoArray = {0}
    BY DEF NoArray, Cells
  <2>3. argv = NoArray /\ argc = 0  BY DEF Init
  <2> QED BY <2>1, <2>2, <2>3 DEF EndsAt
<1>3. argv \in Arrays  BY <1>2 DEF Arrays
<1>4. Typed  BY <1>1, <1>2, <1>3, LegalSeen, Idle DEF Typed, Init
<1> QED BY <1>1, <1>4 DEF ConfigInv, ScanInv, RemoveInv, ArgumentsCompacted, OptionsInv

\* The calls of the program that are one step.
LEMMA CallsKeep ==
    ASSUME ConfigInv, frame' = frame, ~InCall, result' = "none",
           options' \in LegalOptions, argv' \in Arrays, EndsAt(argv', argc')
    PROVE  ConfigInv' /\ OptionsInv'
<1>1. Typed  BY DEF ConfigInv
<1>2. frame' = NoFrame /\ frame'.pc = "idle"  BY <1>1, FramesSeen
<1>3. Typed'  BY <1>2, Idle DEF Typed, InCall
<1> QED BY <1>2, <1>3 DEF ConfigInv, ScanInv, RemoveInv, ArgumentsCompacted, OptionsInv

LEMMA ProvideKeeps ==
    ASSUME ConfigInv, NEW line \in CommandLines, Provide(line)
    PROVE  ConfigInv' /\ OptionsInv'
<1>1. argv' \in Arrays /\ EndsAt(argv', argc')  BY LineEnds DEF Provide
<1>2. options' \in LegalOptions  BY DEF ConfigInv, Typed, Provide
<1> QED BY <1>1, <1>2, CallsKeep DEF Provide

LEMMA ChangeKeeps ==
    ASSUME ConfigInv, NEW opts \in LegalOptions, Change(opts)
    PROVE  ConfigInv' /\ OptionsInv'
<1>1. frame.pc # "remove"  BY FramesSeen DEF ConfigInv, Change
<1>2. argv' \in Arrays /\ EndsAt(argv', argc')  BY <1>1 DEF ConfigInv, Typed, Change
<1> QED BY <1>2, CallsKeep DEF Change

LEMMA ProgramKeeps ==
    ASSUME ConfigInv,
           \/ \E line \in CommandLines : Provide(line)
           \/ DoSet \/ DoRemove \/ DoClear
           \/ DoParseFileContent \/ DoParseFile \/ DoParseGlobalConfig
    PROVE  ConfigInv' /\ OptionsInv'
<1>1. options \in LegalOptions  BY DEF ConfigInv, Typed
<1>2. CASE \E line \in CommandLines : Provide(line)  BY <1>2, ProvideKeeps
<1>3. CASE DoSet
  <2>1. PICK k \in ProgramKeys, v \in Values : Change(With(options, k, v))
    BY <1>3 DEF DoSet
  <2>2. k \in Keys /\ v \in ValueRange  BY ProgramAssumption DEF ValueRange
  <2>3. With(options, k, v) \in LegalOptions  BY <1>1, <2>2, WithLegal
  <2> QED BY <2>1, <2>3, ChangeKeeps
<1>4. CASE DoRemove
  <2>1. PICK k \in DOMAIN options : Change(Restrict(options, DOMAIN options \ {k}))
    BY <1>4 DEF DoRemove
  <2>2. Restrict(options, DOMAIN options \ {k}) \in LegalOptions  BY <1>1, RestrictLegal
  <2> QED BY <2>1, <2>2, ChangeKeeps
<1>5. CASE DoClear  BY <1>5, LegalSeen, ChangeKeeps DEF DoClear
<1>6. CASE DoParseFileContent
  BY <1>1, <1>6, ParseLegal, ChangeKeeps DEF DoParseFileContent
<1>7. CASE DoParseFile
  BY <1>1, <1>7, FilesLegal, ChangeKeeps DEF DoParseFile
<1>8. CASE DoParseGlobalConfig
  <2>1. PICK allow \in BOOLEAN : \E app \in IfExists(options, allow) :
          IF app.failed THEN Change(app.options)
          ELSE \E here \in IfExists(app.options, allow) : Change(here.options)
    BY <1>8 DEF DoParseGlobalConfig
  <2>2. PICK app \in IfExists(options, allow) :
          IF app.failed THEN Change(app.options)
          ELSE \E here \in IfExists(app.options, allow) : Change(here.options)
    BY <2>1
  <2>3. app.options \in LegalOptions  BY <1>1, FilesLegal
  <2>4. \A here \in IfExists(app.options, allow) : here.options \in LegalOptions
    BY <2>3, FilesLegal
  <2> QED BY <2>2, <2>3, <2>4, ChangeKeeps
<1> QED BY <1>2, <1>3, <1>4, <1>5, <1>6, <1>7, <1>8
-------------------------------------------------------------------------------
(* The scan.                                                                      *)

LEMMA CallKeeps ==
    ASSUME ConfigInv, NEW allow \in BOOLEAN, CallParseArgs(allow)
    PROVE  ConfigInv' /\ OptionsInv'
<1>1. /\ options' \in LegalOptions /\ argv' \in Arrays /\ EndsAt(argv', argc')
      /\ argv \in Arrays /\ EndsAt(argv, argc) /\ argv' = argv /\ argc' = argc
      /\ options' = options /\ before' = options
  BY FramesSeen DEF ConfigInv, Typed, CallParseArgs
<1>2. /\ DOMAIN given' = 0 .. argc /\ EndsAt(given', argc)
      /\ \A n \in 0 .. argc : given'[n] = argv[n]
  BY <1>1, GivenEnds DEF CallParseArgs
<1>3. argc \in Nat  BY <1>1 DEF EndsAt
<1>4. TakenUpTo(0)'
  <2>1. \A k : SetBy(k, 0)' = {}
    <3>1. \A n \in 1 .. 0 : FALSE  OBVIOUS
    <3> QED BY <3>1 DEF SetBy
  <2>2. \A n \in 1 .. 0 : FALSE  OBVIOUS
  <2> QED BY <1>1, <2>1, <2>2 DEF TakenUpTo
<1>5. CASE argc = 0
  <2>1. frame' = NoFrame /\ result' = "thrown"  BY <1>5 DEF CallParseArgs, Return
  <2>2. Typed' /\ frame'.pc = "idle"  BY <1>1, <2>1, Idle DEF Typed, InCall
  <2>3. EndedAt(0)'
    <3>1. 0 \in 0 .. Cardinality(DOMAIN given')
      <4>1. IsFiniteSet(0 .. argc)  BY <1>3, FS_Interval
      <4>2. Cardinality(0 .. argc) \in Nat  BY <4>1, FS_CardinalityType
      <4> QED BY <1>2, <4>2
    <3>2. \A m \in DOMAIN given' \ {0} : FALSE  BY <1>2, <1>5
    <3>3. \A n \in 1 .. 0 : FALSE  OBVIOUS
    <3>4. DOMAIN given' \subseteq Nat  BY <1>2
    <3> QED BY <1>4, <3>1, <3>2, <3>3, <3>4 DEF EndedAt
  <2>4. ConfigInv'
    BY <2>1, <2>2 DEF ConfigInv, ScanInv, RemoveInv, ArgumentsCompacted
  <2>5. 0 \in Nat  OBVIOUS
  <2> QED BY <2>1, <2>2, <2>3, <2>4, <2>5 DEF OptionsInv
<1>6. CASE argc # 0
  <2>1. frame' = ScanFrame(allow, 1, <<>>) /\ result' = "none"
    BY <1>6 DEF CallParseArgs, ScanFrame
  <2>2. <<>> \in Seq(Nat) /\ 1 \in Nat  OBVIOUS
  <2>3. /\ frame' \in ScanFrames /\ frame'.pc = "scan"
        /\ frame'.i = 1 /\ frame'.used = <<>>
    BY <2>1, <2>2 DEF ScanFrame, ScanFrames
  <2>4. Typed'  BY <1>1, <2>1, <2>3 DEF Typed, InCall
  <2>5. ScanInv'
    <3>1. 1 \in 1 .. argc  BY <1>3, <1>6
    <3>2. /\ \A n \in 1 .. 1 - 1 : FALSE
          /\ Increasing(<<>>) /\ Range(<<>>) = {}
      BY DEF Increasing, Range
    <3>3. {n \in 1 .. 1 - 1 : given'[n].kind # "plain"} = {}  BY <3>2
    <3> QED BY <1>1, <1>2, <2>3, <3>1, <3>2, <3>3 DEF ScanInv
  <2>6. 1 - 1 = 0  OBVIOUS
  <2>7. ConfigInv'
    BY <2>1, <2>3, <2>4, <2>5 DEF ConfigInv, RemoveInv, ArgumentsCompacted
  <2> QED BY <1>4, <2>1, <2>3, <2>6, <2>7 DEF OptionsInv
<1> QED BY <1>5, <1>6

\* Inside the scan, what is known of the argument looked at.
LEMMA ScanSeen ==
    ASSUME ConfigInv, frame.pc = "scan"
    PROVE  /\ argc \in Nat /\ frame.i \in 1 .. argc /\ frame.i \in Nat
           /\ frame.allow \in BOOLEAN /\ frame.used \in Seq(Nat)
           /\ frame.i < argc => /\ argv[frame.i] = given[frame.i]
                                /\ given[frame.i] \in Arguments
                                /\ frame.i \in DOMAIN given /\ Argument(frame.i)
           /\ result = "none"
<1>1. frame \in ScanFrames /\ result = "none"  BY FramesSeen DEF ConfigInv, Typed
<1>2. /\ argc \in Nat /\ frame.i \in 1 .. argc /\ DOMAIN given = 0 .. argc
      /\ \A n \in 0 .. argc : argv[n] = given[n]
      /\ \A n \in 0 .. argc - 1 : given[n] \in Arguments
  BY DEF ConfigInv, ScanInv, EndsAt
<1>3. frame.allow \in BOOLEAN /\ frame.used \in Seq(Nat)  BY <1>1 DEF ScanFrames
<1>4. ASSUME frame.i < argc
      PROVE  /\ argv[frame.i] = given[frame.i] /\ given[frame.i] \in Arguments
             /\ frame.i \in DOMAIN given /\ Argument(frame.i)
  <2>1. frame.i \in 0 .. argc /\ frame.i \in 0 .. argc - 1 /\ frame.i # 0  BY <1>2, <1>4
  <2>2. given[frame.i] # Null  BY <1>2, <2>1, ArgumentsLegal
  <2> QED BY <1>2, <2>1, <2>2 DEF Argument
<1>5. frame.i \in Nat  BY <1>2
<1> QED BY <1>1, <1>2, <1>3, <1>4, <1>5

LEMMA UseIs ==
    ASSUME ConfigInv, frame.pc = "scan"
    PROVE  Use(frame.i) = ScanFrame(frame.allow, frame.i + 1, Append(frame.used, frame.i))
<1>1. frame = ScanFrame(frame.allow, frame.i, frame.used)  BY FramesSeen DEF ConfigInv
<1> DEFINE u == Append(frame.used, frame.i)
           k == frame.i + 1
<1>2. Use(frame.i) = [frame EXCEPT !.used = u, !.i = k]  BY DEF Use
<1> HIDE DEF u, k
<1>3. [frame EXCEPT !.used = u] = ScanFrame(frame.allow, frame.i, u)
  BY <1>1 DEF ScanFrame
<1>4. [ScanFrame(frame.allow, frame.i, u) EXCEPT !.i = k] = ScanFrame(frame.allow, k, u)
  BY DEF ScanFrame
<1>5. Use(frame.i) = ScanFrame(frame.allow, k, u)  BY <1>2, <1>3, <1>4
<1> QED BY <1>5 DEF u, k

\* A used argument is behind those before it.
LEMMA AppendIncreases ==
    ASSUME NEW used \in Seq(Nat), Increasing(used), NEW i \in Nat,
           \A n \in Range(used) : n < i
    PROVE  /\ Append(used, i) \in Seq(Nat) /\ Increasing(Append(used, i))
           /\ Range(Append(used, i)) = Range(used) \cup {i}
           /\ Append(used, i) # <<>>
<1> DEFINE L == Len(used)
           v == Append(used, i)
<1>1. L \in Nat /\ DOMAIN used = 1 .. L /\ \A j \in 1 .. L : used[j] \in Nat
  BY LenProperties
<1>2. /\ v \in Seq(Nat) /\ Len(v) = L + 1 /\ DOMAIN v = 1 .. L + 1
      /\ \A j \in 1 .. L : v[j] = used[j]
      /\ v[L + 1] = i
  OBVIOUS
<1> HIDE DEF L, v
<1>3. \A j \in 1 .. L : used[j] < i  BY <1>1 DEF Range
<1>4. \A j \in 1 .. L + 1 : j \in 1 .. L \/ j = L + 1  BY <1>1
<1>5. Increasing(v)
  <2>1. SUFFICES ASSUME NEW j \in 1 .. L + 1, NEW k \in 1 .. L + 1, j < k
                 PROVE  v[j] < v[k]
    BY <1>2 DEF Increasing
  <2>2. j \in 1 .. L  BY <1>1, <2>1
  <2>3. CASE k \in 1 .. L  BY <1>2, <2>1, <2>2, <2>3 DEF Increasing, L
  <2>4. CASE k = L + 1  BY <1>2, <1>3, <2>2, <2>4
  <2> QED BY <1>4, <2>3, <2>4
<1>6. Range(v) = Range(used) \cup {i}
  <2>1. \A j \in 1 .. L : j \in 1 .. L + 1  BY <1>1
  <2>2. L + 1 \in 1 .. L + 1  BY <1>1
  <2>3. Range(v) \subseteq Range(used) \cup {i}  BY <1>1, <1>2, <1>4 DEF Range
  <2>4. Range(used) \cup {i} \subseteq Range(v)  BY <1>1, <1>2, <2>1, <2>2 DEF Range
  <2> QED BY <2>3, <2>4
<1>7. v # <<>>  BY <1>1, <1>2
<1> QED BY <1>2, <1>5, <1>6, <1>7 DEF v

\* The scan goes on to the next argument.
LEMMA ScanGoesOn ==
    ASSUME ConfigInv, frame.pc = "scan", frame.i < argc,
           UNCHANGED <<argv, argc, given, before, result>>,
           options' \in LegalOptions,
           given[frame.i].kind # "separator", given[frame.i].kind # "help",
           frame' = ScanFrame(frame.allow, frame.i + 1,
                              IF given[frame.i].kind # "plain"
                              THEN Append(frame.used, frame.i) ELSE frame.used)
    PROVE  /\ ConfigInv' /\ frame'.pc = "scan" /\ frame'.i - 1 = frame.i
           /\ result' = "none"
<1> DEFINE i == frame.i
           used == IF given[i].kind # "plain" THEN Append(frame.used, i) ELSE frame.used
<1>1. /\ argc \in Nat /\ i \in 1 .. argc /\ i \in Nat
      /\ frame.allow \in BOOLEAN /\ frame.used \in Seq(Nat) /\ result = "none"
  BY ScanSeen
<1>2. /\ Increasing(frame.used)
      /\ Range(frame.used) = {n \in 1 .. i - 1 : given[n].kind # "plain"}
      /\ \A n \in 1 .. i - 1 : given[n].kind # "separator" /\ given[n].kind # "help"
      /\ DOMAIN given = 0 .. argc /\ EndsAt(given, argc)
      /\ \A n \in 0 .. argc : argv[n] = given[n]
  BY DEF ConfigInv, ScanInv
<1>3. \A n \in 1 .. i : n \in 1 .. i - 1 \/ n = i  BY <1>1
<1>4. 1 .. i - 1 \subseteq 1 .. i /\ i \in 1 .. i /\ \A n \in 1 .. i - 1 : n < i  BY <1>1
<1>5. /\ used \in Seq(Nat) /\ Increasing(used)
      /\ Range(used) = {n \in 1 .. i : given[n].kind # "plain"}
  <2>1. CASE given[i].kind # "plain"
    <3>1. used = Append(frame.used, i)  BY <2>1
    <3> HIDE DEF used
    <3>2. \A n \in Range(frame.used) : n < i  BY <1>2, <1>4
    <3>3. /\ used \in Seq(Nat) /\ Increasing(used) /\ Range(used) = Range(frame.used) \cup {i}
      BY <1>1, <1>2, <3>1, <3>2, AppendIncreases
    <3> QED BY <1>2, <1>3, <1>4, <2>1, <3>3
  <2>2. CASE given[i].kind = "plain"
    <3>1. used = frame.used  BY <2>2
    <3> HIDE DEF used
    <3>2. {n \in 1 .. i : given[n].kind # "plain"} = {n \in 1 .. i - 1 : given[n].kind # "plain"}
      BY <1>3, <1>4, <2>2
    <3> QED BY <1>1, <1>2, <3>1, <3>2
  <2> QED BY <2>1, <2>2
<1>6. frame' = ScanFrame(frame.allow, i + 1, used)  OBVIOUS
<1> HIDE DEF used
<1>7. /\ frame' \in ScanFrames /\ frame'.pc = "scan" /\ frame'.i = i + 1 /\ frame'.used = used
  <2>1. i + 1 \in Nat  BY <1>1
  <2> QED BY <1>1, <1>5, <1>6, <2>1 DEF ScanFrames, ScanFrame
<1>8. frame'.i - 1 = i /\ frame'.i \in 1 .. argc  BY <1>1, <1>7
<1>9. Typed'
  <2>1. EndsAt(argv', argc') /\ argv' \in Arrays  BY DEF ConfigInv, Typed
  <2> QED BY <1>1, <1>7, <2>1 DEF Typed
<1>10. ScanInv'
  <2>1. \A n \in 1 .. i : given[n].kind # "separator" /\ given[n].kind # "help"  BY <1>2, <1>3
  <2> HIDE DEF i
  <2> QED BY <1>2, <1>5, <1>7, <1>8, <2>1 DEF ScanInv
<1> QED BY <1>1, <1>7, <1>8, <1>9, <1>10 DEF ConfigInv, RemoveInv, ArgumentsCompacted

\* The last of the arguments up to i that set a key.
LEMMA SetByGrows ==
    ASSUME NEW i \in Nat, i # 0
    PROVE  /\ given[i].kind # "option" => \A k : SetBy(k, i) = SetBy(k, i - 1)
           /\ given[i].kind = "option" =>
                /\ \A k : k # given[i].key => SetBy(k, i) = SetBy(k, i - 1)
                /\ SetBy(given[i].key, i) # {} /\ Max(SetBy(given[i].key, i)) = i
<1>1. \A n : n \in 1 .. i <=> n \in 1 .. i - 1 \/ n = i  OBVIOUS
<1>2. given[i].kind # "option" => \A k : SetBy(k, i) = SetBy(k, i - 1)  BY <1>1 DEF SetBy
<1>3. given[i].kind = "option" => \A k : k # given[i].key => SetBy(k, i) = SetBy(k, i - 1)
  BY <1>1 DEF SetBy
<1>4. ASSUME given[i].kind = "option"
      PROVE  SetBy(given[i].key, i) # {} /\ Max(SetBy(given[i].key, i)) = i
  <2> DEFINE S == SetBy(given[i].key, i)
  <2>1. i \in S  BY <1>1, <1>4 DEF SetBy
  <2>2. \A n \in S : n \in Nat /\ n <= i  BY DEF SetBy
  <2> HIDE DEF S
  <2>3. i \in S /\ \A y \in S : i >= y  BY <2>1, <2>2
  <2>4. Max(S) \in S /\ \A y \in S : Max(S) >= y  BY <2>3, Zenon DEF Max
  <2>5. Max(S) \in Nat /\ Max(S) <= i  BY <2>2, <2>4
  <2>6. Max(S) >= i  BY <2>1, <2>4
  <2>7. Max(S) = i  BY <2>5, <2>6
  <2> QED BY <2>1, <2>7 DEF S
<1> QED BY <1>2, <1>3, <1>4

\* An argument that is no option changes nothing.
LEMMA TakenWithout ==
    ASSUME NEW i \in Nat, i # 0, TakenUpTo(i - 1), given[i].kind # "option",
           UNCHANGED <<options, given, before>>
    PROVE  TakenUpTo(i)'
<1>1. \A k : SetBy(k, i)' = SetBy(k, i - 1)
  <2>1. \A k : SetBy(k, i) = SetBy(k, i - 1)  BY SetByGrows
  <2>2. \A k : SetBy(k, i)' = SetBy(k, i)  BY DEF SetBy
  <2> QED BY <2>1, <2>2
<1>2. \A n \in 1 .. i : n \in 1 .. i - 1 \/ n = i  OBVIOUS
<1>3. \A n \in 1 .. i : given[n].kind = "option" => given[n].key \in DOMAIN options
  BY <1>2 DEF TakenUpTo
<1>4. \A k \in DOMAIN options :
        options[k] = IF SetBy(k, i - 1) # {} THEN given[Max(SetBy(k, i - 1))].value ELSE before[k]
  BY DEF TakenUpTo
<1>5. DOMAIN before \subseteq DOMAIN options  BY DEF TakenUpTo
<1> QED BY <1>1, <1>3, <1>4, <1>5 DEF TakenUpTo

\* An option that is set has the value of its last argument.
LEMMA TakenWith ==
    ASSUME NEW i \in Nat, i # 0, TakenUpTo(i - 1), given[i].kind = "option",
           options' = With(options, given[i].key, given[i].value),
           UNCHANGED <<given, before>>
    PROVE  TakenUpTo(i)'
<1> DEFINE key == given[i].key
<1>1. /\ \A k : k # key => SetBy(k, i)' = SetBy(k, i - 1)
      /\ SetBy(key, i)' # {} /\ Max(SetBy(key, i)') = i
  <2>1. \A k : SetBy(k, i)' = SetBy(k, i)  BY DEF SetBy
  <2> QED BY <2>1, SetByGrows
<1>2. /\ DOMAIN options' = DOMAIN options \cup {key}
      /\ \A k \in DOMAIN options \cup {key} :
            options'[k] = IF k = key THEN given[i].value ELSE options[k]
  BY DEF With
<1>3. /\ \A k \in DOMAIN options :
           options[k] = IF SetBy(k, i - 1) # {} THEN given[Max(SetBy(k, i - 1))].value
                                                ELSE before[k]
      /\ DOMAIN before \subseteq DOMAIN options
      /\ \A n \in 1 .. i - 1 : given[n].kind = "option" => given[n].key \in DOMAIN options
  BY DEF TakenUpTo
<1>4. \A n \in 1 .. i : n \in 1 .. i - 1 \/ n = i  OBVIOUS
<1>5. \A n \in 1 .. i : given'[n].kind = "option" => given'[n].key \in DOMAIN options'
  BY <1>2, <1>3, <1>4
<1>6. ASSUME NEW k \in DOMAIN options'
      PROVE  options'[k] = IF SetBy(k, i)' # {} THEN given'[Max(SetBy(k, i)')].value
                                                ELSE before'[k]
  <2>1. CASE k = key  BY <1>1, <1>2, <2>1
  <2>2. CASE k # key  BY <1>1, <1>2, <1>3, <2>2
  <2> QED BY <2>1, <2>2
<1>7. DOMAIN before' \subseteq DOMAIN options'  BY <1>2, <1>3
<1>8. /\ \A k \in DOMAIN options' :
           options'[k] = IF SetBy(k, i)' # {} THEN given'[Max(SetBy(k, i)')].value
                                              ELSE before'[k]
  BY <1>6
<1> QED BY <1>5, <1>7, <1>8 DEF TakenUpTo

\* The scan ends before the end: nothing is removed.
LEMMA ScanStops ==
    ASSUME ConfigInv, frame.pc = "scan", frame' = NoFrame, result' \in {"help", "thrown"},
           UNCHANGED <<argv, argc, given, before>>,
           options' \in LegalOptions,
           NoFiles => \E c \in Nat : EndedAt(c)'
    PROVE  ConfigInv' /\ OptionsInv'
<1>1. frame'.pc = "idle" /\ ~InCall'  BY Idle DEF InCall
<1>2. /\ argv \in Arrays /\ EndsAt(argv, argc) /\ DOMAIN given = 0 .. argc
      /\ \A n \in 0 .. argc : argv[n] = given[n]
  BY DEF ConfigInv, Typed, ScanInv
<1>3. Typed'
  <2>1. argv' \in Arrays /\ EndsAt(argv', argc')  BY <1>2
  <2> QED BY <1>1, <2>1, Idle DEF Typed
<1>4. ConfigInv'  BY <1>1, <1>3 DEF ConfigInv, ScanInv, RemoveInv, ArgumentsCompacted
<1>5. NoFiles' => NoFiles  BY GivenSame
<1> QED BY <1>1, <1>4, <1>5 DEF OptionsInv

\* The argument at which it ends is the first that is --help or an unknown option.
LEMMA EndsHere ==
    ASSUME ConfigInv, frame.pc = "scan", frame.i < argc, TakenUpTo(frame.i - 1),
           UNCHANGED <<options, given, before>>,
           \/ given[frame.i].kind = "help"
           \/ given[frame.i].kind = "option" /\ given[frame.i].key \notin DOMAIN options
    PROVE  \E c \in Nat : EndedAt(c)'
<1> DEFINE N == argc
<1>0. PICK i \in Nat : i = frame.i  BY ScanSeen
<1>1. N \in Nat /\ i \in 1 .. N  BY <1>0, ScanSeen
<1>2. /\ DOMAIN given = 0 .. N /\ EndsAt(given, N)
      /\ \A n \in 1 .. i - 1 : given[n].kind # "separator" /\ given[n].kind # "help"
  BY <1>0 DEF ConfigInv, ScanInv
<1>3. 1 .. i - 1 \subseteq Scanned /\ i \in Scanned  BY <1>0, <1>1, <1>2, ScannedSoFar
<1>4. Scanned \subseteq 1 .. N - 1  BY <1>1, <1>2, ScannedSoFar
<1> HIDE DEF N
<1>5. TakenUpTo(i - 1)  BY <1>0
<1>6. \A n \in 1 .. i - 1 : given[n].kind = "option" => given[n].key \in DOMAIN options
  BY <1>5 DEF TakenUpTo
<1>7. \A m \in DOMAIN given \ {0} : m <= i - 1 <=> Passed(m)
  <2>1. TAKE m \in DOMAIN given \ {0}
  <2>2. m \in 1 .. N  BY <1>1, <1>2
  <2>3. ASSUME m <= i - 1 PROVE Passed(m)
    <3>1. m \in 1 .. i - 1  BY <1>1, <2>2, <2>3
    <3>2. \A k \in Scanned : k <= m => k \in 1 .. i - 1  BY <1>1, <1>4, <2>2, <2>3
    <3> QED BY <1>2, <1>3, <1>6, <3>1, <3>2 DEF Passed
  <2>4. ASSUME Passed(m) PROVE m <= i - 1
    <3>1. ~ (i <= m)  BY <1>0, <1>3, <2>4 DEF Passed
    <3> QED BY <1>1, <2>2, <3>1
  <2> QED BY <2>3, <2>4
<1>8. i - 1 \in 0 .. Cardinality(DOMAIN given) /\ 1 .. i - 1 \subseteq DOMAIN given
  <2>1. Cardinality(0 .. N) = N + 1  BY <1>1, FS_Interval
  <2> QED BY <1>1, <1>2, <2>1
<1>9. EndedAt(i - 1)
  <2>1. DOMAIN given \subseteq Nat  BY <1>2
  <2> QED BY <1>5, <1>7, <1>8, <2>1 DEF EndedAt
<1>10. EndedAt(i - 1)'
  <2>1. Scanned' = Scanned  BY GivenSame
  <2>2. \A m : Passed(m)' <=> Passed(m)  BY <2>1 DEF Passed
  <2>3. TakenUpTo(i - 1)' <=> TakenUpTo(i - 1)
    <3>1. \A k : SetBy(k, i - 1)' = SetBy(k, i - 1)  BY DEF SetBy
    <3> QED BY <3>1 DEF TakenUpTo
  <2> QED BY <1>9, <2>2, <2>3 DEF EndedAt
<1> QED BY <1>1, <1>10

LEMMA ScanOptionKeeps ==
    ASSUME ConfigInv, OptionsInv, ScanOption
    PROVE  ConfigInv' /\ OptionsInv'
<1> DEFINE arg == argv[frame.i]
           out == SetParsedOption(options, arg.key, arg.value, frame.allow)
<1>1. /\ frame.pc = "scan" /\ frame.i < argc /\ arg.kind = "option" /\ Take(out)
  BY DEF ScanOption, Scanning
<1>2. /\ argc \in Nat /\ frame.i \in 1 .. argc /\ frame.allow \in BOOLEAN
      /\ arg = given[frame.i] /\ arg \in Arguments /\ result = "none"
  BY <1>1, ScanSeen
<1>3. PICK i \in Nat : i = frame.i /\ i # 0  BY <1>2
<1>4. arg.key \in Keys /\ arg.value \in ValueRange  BY <1>1, <1>2, ArgumentsLegal DEF LegalOption
<1>5. options \in LegalOptions  BY DEF ConfigInv, Typed
<1>6. out.options \in LegalOptions  BY <1>2, <1>4, <1>5, SetLegal
<1>7. IF arg.key \in DOMAIN options \/ frame.allow
      THEN out.options = With(options, arg.key, arg.value) /\ out.failed = FALSE
      ELSE out.options = options /\ out.failed = TRUE
  BY DEF SetParsedOption, Outcome
<1>8. NoFiles => TakenUpTo(i - 1)  BY <1>1, <1>3 DEF OptionsInv
<1> HIDE DEF arg, out
<1>9. /\ options' = out.options
      /\ IF out.failed THEN frame' = NoFrame /\ result' = "thrown"
         ELSE frame' = Use(frame.i) /\ result' = result
      /\ UNCHANGED <<argv, argc, given, before>>
  BY <1>1 DEF Take, Return
<1>10. CASE arg.key \in DOMAIN options \/ frame.allow
  <2>1. options' = With(options, arg.key, arg.value) /\ frame' = Use(frame.i) /\ result' = result
    BY <1>7, <1>9, <1>10
  <2>2. frame' = ScanFrame(frame.allow, frame.i + 1, Append(frame.used, frame.i))
    BY <1>1, <2>1, UseIs
  <2>3. given[frame.i].kind = "option"  BY <1>1, <1>2
  <2>4. ConfigInv' /\ frame'.pc = "scan" /\ frame'.i - 1 = frame.i /\ result' = "none"
    BY <1>1, <1>6, <1>9, <2>1, <2>2, <2>3, ScanGoesOn
  <2>5. NoFiles' => TakenUpTo(i)'
    <3>1. options' = With(options, given[i].key, given[i].value)  BY <1>2, <1>3, <2>1
    <3>2. given[i].kind = "option"  BY <1>3, <2>3
    <3>3. UNCHANGED <<given, before>>  BY <1>9
    <3>4. NoFiles' => NoFiles  BY <3>3, GivenSame
    <3> QED BY <1>3, <1>8, <3>1, <3>2, <3>3, <3>4, TakenWith
  <2> QED BY <1>3, <2>4, <2>5 DEF OptionsInv
<1>11. CASE ~ (arg.key \in DOMAIN options \/ frame.allow)
  <2>1. options' = options /\ frame' = NoFrame /\ result' = "thrown"
    BY <1>7, <1>9, <1>11
  <2>2. NoFiles => \E c \in Nat : EndedAt(c)'
    <3>1. given[frame.i].kind = "option" /\ given[frame.i].key \notin DOMAIN options
      BY <1>1, <1>2, <1>11
    <3> QED BY <1>1, <1>3, <1>8, <1>9, <2>1, <3>1, EndsHere
  <2> QED BY <1>1, <1>5, <1>9, <2>1, <2>2, ScanStops
<1> QED BY <1>10, <1>11

LEMMA ScanFileKeeps ==
    ASSUME ConfigInv, OptionsInv, ScanFile
    PROVE  ConfigInv' /\ OptionsInv'
<1>1. /\ frame.pc = "scan" /\ frame.i < argc /\ argv[frame.i].kind = "file"
  BY DEF ScanFile, Scanning
<1>2. /\ frame.allow \in BOOLEAN /\ given[frame.i].kind = "file"
      /\ frame.i \in DOMAIN given /\ Argument(frame.i) /\ result = "none"
  BY <1>1, ScanSeen
<1>3. ~NoFiles  BY <1>2 DEF NoFiles
<1>4. options \in LegalOptions  BY DEF ConfigInv, Typed
<1>5. PICK out \in FileOutcomes(options, frame.allow) : Take(out)  BY DEF ScanFile
<1>6. out.options \in LegalOptions  BY <1>2, <1>4, FilesLegal
<1>7. /\ options' = out.options
      /\ IF out.failed THEN frame' = NoFrame /\ result' = "thrown"
         ELSE frame' = Use(frame.i) /\ result' = result
      /\ UNCHANGED <<argv, argc, given, before>>
  BY <1>5 DEF Take, Return
<1>8. CASE out.failed
  <2>1. frame' = NoFrame /\ result' = "thrown"  BY <1>7, <1>8
  <2> QED BY <1>1, <1>3, <1>6, <1>7, <2>1, ScanStops
<1>9. CASE ~out.failed
  <2>1. frame' = ScanFrame(frame.allow, frame.i + 1, Append(frame.used, frame.i))
    BY <1>1, <1>7, <1>9, UseIs
  <2>2. result' = result  BY <1>7, <1>9
  <2>3. ConfigInv'  BY <1>1, <1>2, <1>6, <1>7, <2>1, <2>2, ScanGoesOn
  <2>4. ~NoFiles'  BY <1>3, <1>7, GivenSame
  <2> QED BY <2>3, <2>4 DEF OptionsInv
<1> QED BY <1>8, <1>9

LEMMA ScanPlainKeeps ==
    ASSUME ConfigInv, OptionsInv, ScanPlain
    PROVE  ConfigInv' /\ OptionsInv'
<1>1. /\ frame.pc = "scan" /\ frame.i < argc /\ argv[frame.i].kind = "plain"
      /\ frame' = [frame EXCEPT !.i = @ + 1]
      /\ UNCHANGED <<options, argv, argc, given, before, result>>
  BY DEF ScanPlain, Scanning
<1>2. frame.i \in 1 .. argc /\ argc \in Nat /\ given[frame.i].kind = "plain" /\ result = "none"
  BY <1>1, ScanSeen
<1>3. PICK i \in Nat : i = frame.i /\ i # 0  BY <1>2
<1>4. frame' = ScanFrame(frame.allow, frame.i + 1, frame.used)
  <2>1. frame = ScanFrame(frame.allow, frame.i, frame.used)  BY <1>1, FramesSeen DEF ConfigInv
  <2> QED BY <1>1, <2>1 DEF ScanFrame
<1>5. options' \in LegalOptions  BY <1>1 DEF ConfigInv, Typed
<1>6. ConfigInv' /\ frame'.pc = "scan" /\ frame'.i - 1 = frame.i /\ result' = "none"
  BY <1>1, <1>2, <1>4, <1>5, ScanGoesOn
<1>7. NoFiles' => TakenUpTo(i)'
  <2>1. given[i].kind # "option"  BY <1>2, <1>3
  <2>2. NoFiles => TakenUpTo(i - 1)  BY <1>1, <1>3 DEF OptionsInv
  <2>3. NoFiles' => NoFiles  BY <1>1, GivenSame
  <2> QED BY <1>1, <1>3, <2>1, <2>2, <2>3, TakenWithout
<1> QED BY <1>3, <1>6, <1>7 DEF OptionsInv

LEMMA ScanHelpKeeps ==
    ASSUME ConfigInv, OptionsInv, ScanHelp
    PROVE  ConfigInv' /\ OptionsInv'
<1>1. /\ frame.pc = "scan" /\ frame.i < argc /\ argv[frame.i].kind = "help"
      /\ frame' = NoFrame /\ result' = "help"
      /\ UNCHANGED <<options, argv, argc, given, before>>
  BY DEF ScanHelp, Scanning, Return
<1>2. given[frame.i].kind = "help"  BY <1>1, ScanSeen
<1>3. options' \in LegalOptions  BY <1>1 DEF ConfigInv, Typed
<1>4. NoFiles => \E c \in Nat : EndedAt(c)'
  <2>1. NoFiles => TakenUpTo(frame.i - 1)  BY <1>1 DEF OptionsInv
  <2> QED BY <1>1, <1>2, <2>1, EndsHere
<1> QED BY <1>1, <1>3, <1>4, ScanStops
-------------------------------------------------------------------------------
(* The removal.                                                                   *)

\* A sequence that increases: its first member is its least.
LEMMA FirstIsLeast ==
    ASSUME NEW used \in Seq(Nat), Increasing(used), used # <<>>
    PROVE  /\ Len(used) \in Nat /\ 1 \in 1 .. Len(used) /\ used[1] \in Nat
           /\ \A j \in 1 .. Len(used) : used[j] \in Nat /\ (j # 1 => used[1] < used[j])
           /\ used[1] \in Range(used)
           /\ \A n \in Range(used) : used[1] <= n
<1>1. Len(used) \in Nat /\ DOMAIN used = 1 .. Len(used)  BY LenProperties
<1>2. Len(used) # 0  OBVIOUS
<1>3. 1 \in 1 .. Len(used)  BY <1>1, <1>2
<1>4. \A j \in 1 .. Len(used) : used[j] \in Nat  OBVIOUS
<1>5. \A j \in 1 .. Len(used) : j # 1 => used[1] < used[j]
  <2>1. \A j \in 1 .. Len(used) : j # 1 => 1 < j  BY <1>1
  <2> QED BY <1>3, <2>1 DEF Increasing
<1>6. \A j \in 1 .. Len(used) : used[1] <= used[j]  BY <1>3, <1>4, <1>5
<1>7. used[1] \in Range(used) /\ \A n \in Range(used) : used[1] <= n
  BY <1>1, <1>3, <1>6 DEF Range
<1> QED BY <1>1, <1>3, <1>4, <1>5, <1>7

\* What the scan has used at its end is what is to be removed.
UsedAtEnd(used) == IF frame.i < argc THEN Append(used, frame.i) ELSE used

LEMMA ScanFound ==
    ASSUME ConfigInv, ScanEnd
    PROVE  /\ UsedAtEnd(frame.used) \in Seq(Nat) /\ Increasing(UsedAtEnd(frame.used))
           /\ Range(UsedAtEnd(frame.used)) = ToRemove
           /\ ToRemove \subseteq 1 .. argc - 1
           /\ Scanned = 1 .. (IF frame.i < argc THEN frame.i ELSE argc - 1)
           /\ frame.i < argc => given[frame.i].kind = "separator"
<1> DEFINE i == frame.i
<1>1. frame.pc = "scan" /\ (i = argc \/ (i < argc /\ argv[i].kind = "separator"))
  BY DEF ScanEnd, Scanning
<1>2. /\ argc \in Nat /\ i \in 1 .. argc /\ i \in Nat /\ frame.used \in Seq(Nat)
      /\ i < argc => given[i].kind = "separator"
  BY <1>1, ScanSeen
<1>3. /\ DOMAIN given = 0 .. argc /\ EndsAt(given, argc) /\ Increasing(frame.used)
      /\ Range(frame.used) = {n \in 1 .. i - 1 : given[n].kind # "plain"}
      /\ \A n \in 1 .. i - 1 : given[n].kind # "separator"
  BY <1>1 DEF ConfigInv, ScanInv
<1>4. /\ Scanned \subseteq 1 .. argc - 1
      /\ i = argc => Scanned = 1 .. argc - 1
      /\ i < argc => Scanned = 1 .. i
  BY <1>2, <1>3, ScannedSoFar
<1>5. ToRemove \subseteq 1 .. argc - 1  BY <1>4 DEF ToRemove
<1> HIDE DEF i
<1>6. CASE i = argc
  <2>1. UsedAtEnd(frame.used) = frame.used  BY <1>2, <1>6 DEF UsedAtEnd, i
  <2>2. Range(frame.used) = ToRemove  BY <1>3, <1>4, <1>6 DEF ToRemove
  <2>3. Scanned = 1 .. (IF i < argc THEN i ELSE argc - 1)  BY <1>2, <1>4, <1>6
  <2> QED BY <1>2, <1>3, <1>5, <2>1, <2>2, <2>3 DEF i
<1>7. CASE i < argc
  <2>1. UsedAtEnd(frame.used) = Append(frame.used, i)  BY <1>7 DEF UsedAtEnd, i
  <2>2. \A n \in 1 .. i : n \in 1 .. i - 1 \/ n = i  BY <1>2
  <2>3. 1 .. i - 1 \subseteq 1 .. i /\ i \in 1 .. i /\ \A n \in 1 .. i - 1 : n < i  BY <1>2
  <2>4. \A n \in Range(frame.used) : n < i  BY <1>3, <2>3
  <2>5. /\ Append(frame.used, i) \in Seq(Nat) /\ Increasing(Append(frame.used, i))
        /\ Range(Append(frame.used, i)) = Range(frame.used) \cup {i}
    BY <1>2, <1>3, <2>4, AppendIncreases
  <2>6. ToRemove = {n \in 1 .. i : given[n].kind # "plain"}  BY <1>4, <1>7 DEF ToRemove
  <2>7. Range(frame.used) \cup {i} = ToRemove  BY <1>2, <1>3, <1>7, <2>2, <2>3, <2>6
  <2>8. Scanned = 1 .. (IF i < argc THEN i ELSE argc - 1)  BY <1>4, <1>7
  <2> QED BY <1>2, <1>5, <1>7, <2>1, <2>5, <2>7, <2>8 DEF i
<1> QED BY <1>1, <1>6, <1>7 DEF i

\* At the end of the scan all its arguments have been taken.
LEMMA EndsThere ==
    ASSUME ConfigInv, OptionsInv, ScanEnd, NoFiles, UNCHANGED <<options, given, before>>
    PROVE  \E c \in Nat : EndedAt(c)'
<1> DEFINE N == argc
<1>1. frame.pc = "scan"  BY DEF ScanEnd, Scanning
<1>2. N \in Nat /\ frame.i \in 1 .. N  BY <1>1, ScanSeen
<1>3. PICK i \in Nat : i = frame.i /\ i # 0  BY <1>2
<1>4. PICK c \in Nat : c = IF i < N THEN i ELSE N - 1
  <2>1. N # 0  BY <1>2
  <2> QED BY <1>2, <2>1
<1>5. Scanned = 1 .. c /\ (i < N => given[i].kind = "separator")  BY <1>3, <1>4, ScanFound
<1>6. DOMAIN given = 0 .. N /\ \A n \in 1 .. i - 1 : given[n].kind # "help"
  BY <1>1, <1>3 DEF ConfigInv, ScanInv
<1>7. TakenUpTo(i - 1)  BY <1>1, <1>3 DEF OptionsInv
<1>8. TakenUpTo(c)'
  <2>1. CASE i < N
    <3>1. given[i].kind # "option" /\ c = i  BY <1>4, <1>5, <2>1
    <3> QED BY <1>3, <1>7, <3>1, TakenWithout
  <2>2. CASE ~ (i < N)
    <3>1. c = i - 1  BY <1>2, <1>3, <1>4, <2>2
    <3>2. \A k : SetBy(k, c)' = SetBy(k, c)  BY DEF SetBy
    <3> QED BY <1>7, <3>1, <3>2 DEF TakenUpTo
  <2> QED BY <2>1, <2>2
<1> HIDE DEF N
<1>9. \A n \in 1 .. c : given[n].kind # "help"
  <2>1. CASE i < N
    <3>1. \A n \in 1 .. c : n \in 1 .. i - 1 \/ n = i  BY <1>3, <1>4, <2>1
    <3> QED BY <1>5, <1>6, <2>1, <3>1
  <2>2. CASE ~ (i < N)
    <3>1. c = i - 1  BY <1>2, <1>3, <1>4, <2>2
    <3> QED BY <1>6, <3>1
  <2> QED BY <2>1, <2>2
<1>10. \A n \in 1 .. c : given[n].kind = "option" => given[n].key \in DOMAIN options'
  BY <1>8 DEF TakenUpTo
<1>11. Scanned' = 1 .. c  BY <1>5, GivenSame
<1>12. \A m \in DOMAIN given' \ {0} : m <= c <=> Passed(m)'
  <2>1. TAKE m \in DOMAIN given' \ {0}
  <2>2. m \in Nat /\ m # 0 /\ (m <= c <=> m \in 1 .. c)  BY <1>2, <1>6
  <2>3. \A k \in 1 .. c : /\ given'[k].kind # "help"
                          /\ given'[k].kind = "option" => given'[k].key \in DOMAIN options'
    BY <1>9, <1>10
  <2> QED BY <1>11, <2>2, <2>3 DEF Passed
<1>13. c \in 0 .. Cardinality(DOMAIN given') /\ 1 .. c \subseteq DOMAIN given'
  <2>1. Cardinality(0 .. N) = N + 1  BY <1>2, FS_Interval
  <2>2. c <= N  BY <1>2, <1>3, <1>4
  <2> QED BY <1>2, <1>6, <2>1, <2>2
<1>14. EndedAt(c)'
  <2>1. DOMAIN given' \subseteq Nat  BY <1>6
  <2> QED BY <1>8, <1>12, <1>13, <2>1 DEF EndedAt
<1> QED BY <1>14

LEMMA StartRemovalKeeps ==
    ASSUME ConfigInv, OptionsInv, StartRemoval
    PROVE  ConfigInv' /\ OptionsInv'
<1> DEFINE N == argc
           used == UsedAtEnd(frame.used)
<1>1. frame.pc = "scan" /\ ScanEnd  BY DEF StartRemoval, ScanEnd, Scanning
<1>2. N \in Nat /\ result = "none" /\ frame.i \in 1 .. N  BY <1>1, ScanSeen
<1>3. /\ used \in Seq(Nat) /\ Increasing(used) /\ Range(used) = ToRemove
      /\ ToRemove \subseteq 1 .. N - 1
  BY <1>1, ScanFound
<1>4. UNCHANGED <<options, argv, given, before>>  BY DEF StartRemoval
<1>5. /\ DOMAIN given = 0 .. N /\ EndsAt(given, N) /\ \A n \in 0 .. N : argv[n] = given[n]
      /\ argv \in Arrays /\ EndsAt(argv, N) /\ options \in LegalOptions
  BY <1>1 DEF ConfigInv, ScanInv, Typed
<1>6. IF used = <<>> THEN frame' = NoFrame /\ result' = "parsed" /\ argc' = argc
      ELSE argc' = argc - Len(used) /\ frame' = Removal(used) /\ result' = result
  <2>1. Use(frame.i).used = Append(frame.used, frame.i)  BY <1>1, UseIs DEF ScanFrame
  <2>2. used = IF frame.i < argc THEN Use(frame.i).used ELSE frame.used  BY <2>1 DEF UsedAtEnd
  <2> HIDE DEF used
  <2> QED BY <2>2, Zenon DEF StartRemoval, Return
<1> HIDE DEF used, N
<1>7. ToKeep = (0 .. N) \ ToRemove  BY <1>5 DEF ToKeep
<1> DEFINE K == ToKeep
<1>8. /\ K \in SUBSET (0 .. N) /\ N \in K
      /\ Cardinality(K) = N + 1 - Cardinality(ToRemove) /\ Cardinality(ToRemove) \in Nat
      /\ \A n \in K : n # N => Rank(K, n) < Cardinality(K) - 1
  BY <1>2, <1>3, <1>7, KeepCounts
<1>9. Cardinality(ToRemove) = Len(used)  BY <1>3, IncreasingCounts DEF Increasing
<1>10. NoFiles' => \E c \in Nat : EndedAt(c)'
  <2>1. NoFiles' => NoFiles  BY <1>4, GivenSame
  <2> QED BY <1>1, <1>4, <2>1, EndsThere
<1>11. ToKeep' = K /\ ToRemove' = ToRemove  BY <1>4, GivenSame
<1>12. CASE used = <<>>
  <2>1. frame' = NoFrame /\ result' = "parsed" /\ argc' = N  BY <1>6, <1>12 DEF N
  <2>2. Typed' /\ frame'.pc = "idle"
    <3>1. EndsAt(argv', argc')  BY <1>4, <1>5, <2>1
    <3> QED BY <1>4, <1>5, <2>1, <3>1, Idle DEF Typed, InCall
  <2>3. ToRemove = {} /\ K = 0 .. N
    <3>1. Range(<<>>) = {}  BY DEF Range
    <3> QED BY <1>3, <1>7, <1>12, <3>1
  <2>4. argc' = Cardinality(K) - 1
    <3>1. Cardinality(0 .. N) = N + 1  BY <1>2, FS_Interval
    <3> QED BY <1>2, <2>1, <2>3, <3>1
  <2>5. \A n \in K : Rank(K, n) = n
    <3>1. TAKE n \in K
    <3>2. n \in Nat /\ \A k \in 0 .. n - 1 : k \in K  BY <1>2, <2>3
    <3> QED BY <1>2, <1>8, <3>2, RankLags
  <2>6. \A n \in K : argv'[Rank(K, n)] = given'[n]  BY <1>4, <1>5, <1>8, <2>5
  <2>7. ArgumentsCompacted'  BY <1>11, <2>4, <2>6 DEF ArgumentsCompacted, Rank
  <2>8. ConfigInv'  BY <2>2, <2>7 DEF ConfigInv, ScanInv, RemoveInv
  <2> QED BY <1>10, <2>1, <2>2, <2>8 DEF OptionsInv
<1>13. CASE used # <<>>
  <2> DEFINE a == used[1]
             L == Len(used)
  <2>1. /\ L \in Nat /\ 1 \in 1 .. L /\ a \in Nat
        /\ \A j \in 1 .. L : used[j] \in Nat /\ (j # 1 => a < used[j])
        /\ a \in ToRemove /\ \A n \in ToRemove : a <= n
    BY <1>3, <1>13, FirstIsLeast
  <2>2. frame' = RemoveFrame(used, 2, a + 1, a) /\ result' = "none" /\ argc' = N - L
    BY <1>2, <1>6, <1>13 DEF Removal, RemoveFrame, N
  <2> HIDE DEF a, L
  <2>3. /\ frame' \in RemoveFrames /\ frame'.pc = "remove" /\ frame'.used = used
        /\ frame'.u = 2 /\ frame'.old = a + 1 /\ frame'.new = a
    <3>1. 2 \in Nat /\ a + 1 \in Nat  BY <2>1
    <3> QED BY <1>3, <2>1, <2>2, <3>1 DEF RemoveFrames, RemoveFrame
  <2>4. a \in 1 .. N - 1  BY <1>3, <2>1
  <2>5. \A k \in 0 .. a - 1 : k \in K /\ k # N
    <3>1. \A k \in 0 .. a - 1 : k \in 0 .. N /\ k # N /\ ~ (a <= k)  BY <1>2, <2>1, <2>4
    <3> QED BY <1>7, <2>1, <3>1
  <2>6. \A n \in 0 .. a : Rank(K, n) = n
    <3>1. TAKE n \in 0 .. a
    <3>2. n \in Nat /\ \A k \in 0 .. n - 1 : k \in 0 .. a - 1  BY <2>1
    <3>3. \A k \in 0 .. n - 1 : k \in K  BY <2>5, <3>2
    <3> QED BY <1>2, <1>8, <3>2, <3>3, RankLags
  <2>7. Rank(K, a + 1) = a
    <3>1. a \notin K  BY <1>7, <2>1
    <3>2. Rank(K, a + 1) = Rank(K, a)  BY <1>2, <1>8, <2>1, <3>1, RankCounts
    <3>3. a \in 0 .. a  BY <2>1
    <3> QED BY <2>6, <3>2, <3>3
  <2>8. argc' = Cardinality(K) - 1  BY <1>2, <1>8, <1>9, <2>1, <2>2 DEF L
  <2>9. \A p \in 0 .. a - 1 : argv'[p] = Null <=> p = argc'
    <3>1. TAKE p \in 0 .. a - 1
    <3>2. p \in 0 .. N /\ p \in 0 .. N - 1 /\ p \in 0 .. a /\ p \in Nat  BY <1>2, <2>1, <2>4
    <3>3. argv'[p] # Null  BY <1>4, <1>5, <3>2, ArgumentsLegal DEF EndsAt
    <3>4. p < Cardinality(K) - 1  BY <1>8, <2>5, <2>6, <3>2
    <3> QED BY <2>8, <3>2, <3>3, <3>4
  <2>10. \A n \in K : n < a + 1 => argv'[Rank(K, n)] = given'[n]
    <3>1. TAKE n \in K
    <3>2. n \in 0 .. N /\ (n < a + 1 => n \in 0 .. a)  BY <1>8, <2>1
    <3> QED BY <1>4, <1>5, <2>6, <3>2
  <2>11. \A n \in a + 1 .. N : argv'[n] = given'[n]
    <3>1. \A n \in a + 1 .. N : n \in 0 .. N  BY <1>2, <2>1
    <3> QED BY <1>4, <1>5, <3>1
  <2>12. \A j \in 1 .. L : j < 2 <=> used[j] < a + 1
    <3>1. TAKE j \in 1 .. L
    <3>2. CASE j = 1
      <4>1. used[j] = a  BY <3>2 DEF a
      <4> QED BY <2>1, <3>2, <4>1
    <3>3. CASE j # 1
      <4>1. a < used[j] /\ used[j] \in Nat  BY <2>1, <3>3
      <4> QED BY <2>1, <3>3, <4>1
    <3> QED BY <3>2, <3>3
  <2>13. 2 \in 2 .. L + 1 /\ a + 1 \in 1 .. N + 1  BY <1>2, <2>1, <2>4
  <2>14. 0 .. N \subseteq DOMAIN argv'  BY <1>4, <1>5 DEF EndsAt
  <2>15. \E M \in Nat : RemovalAt(M)'
    <3>1. DOMAIN given' = 0 .. N /\ EndsAt(given', N)  BY <1>4, <1>5
    <3>2. PICK M \in Nat : M = N  BY <1>2
    <3>3. RemovalAt(M)'
      BY <1>3, <1>11, <2>3, <2>7, <2>8, <2>9, <2>10, <2>11, <2>12, <2>13, <2>14, <3>1, <3>2
      DEF RemovalAt, L
    <3> QED BY <3>2, <3>3
  <2>16. Typed'
    <3>1. argv' \in Arrays  BY <1>4, <1>5
    <3> QED BY <1>4, <1>5, <2>2, <2>3, <3>1 DEF Typed
  <2>17. ConfigInv'
    BY <1>2, <2>2, <2>3, <2>15, <2>16 DEF ConfigInv, ScanInv, RemoveInv, ArgumentsCompacted
  <2> QED BY <1>10, <2>2, <2>3, <2>17 DEF OptionsInv
<1> QED BY <1>12, <1>13

\* What the removal knows.
LEMMA RemovalSeen ==
    ASSUME ConfigInv, frame.pc = "remove", NEW N \in Nat, RemovalAt(N)
    PROVE  /\ frame = RemoveFrame(frame.used, frame.u, frame.old, frame.new)
           /\ frame.used \in Seq(Nat) /\ Len(frame.used) \in Nat
           /\ frame.u \in Nat /\ frame.old \in Nat /\ frame.new \in Nat
           /\ ToKeep = (0 .. N) \ ToRemove
           /\ ToKeep \in SUBSET (0 .. N) /\ N \in ToKeep /\ argc \in 0 .. N
           /\ Rank(ToKeep, N) = argc
           /\ \A n \in ToKeep : n # N => Rank(ToKeep, n) < argc
           /\ MoreUsed => frame.old <= frame.used[frame.u] /\ frame.used[frame.u] \in 1 .. N - 1
           /\ MoreUsed => frame.u \in 1 .. Len(frame.used)
           /\ ~MoreUsed /\ InTail => frame.old \in ToKeep
           /\ ~MoreUsed /\ ~InTail => \A n \in ToKeep : n < frame.old
           /\ frame.new < frame.old
<1>1. /\ frame \in RemoveFrames
      /\ frame = RemoveFrame(frame.used, frame.u, frame.old, frame.new)
  BY FramesSeen DEF ConfigInv
<1>2. /\ frame.used \in Seq(Nat) /\ frame.u \in Nat /\ frame.old \in Nat /\ frame.new \in Nat
  BY <1>1 DEF RemoveFrames
<1> DEFINE L == Len(frame.used)
           K == ToKeep
<1>3. L \in Nat /\ DOMAIN frame.used = 1 .. L  BY <1>2, LenProperties
<1>4. /\ DOMAIN given = 0 .. N /\ Increasing(frame.used)
      /\ Range(frame.used) = ToRemove /\ ToRemove \subseteq 1 .. N - 1
      /\ argc = Cardinality(K) - 1
      /\ frame.u \in 2 .. L + 1 /\ frame.old \in 1 .. N + 1
      /\ \A j \in 1 .. L : j < frame.u <=> frame.used[j] < frame.old
      /\ frame.new = Rank(K, frame.old)
  BY DEF RemovalAt
<1>5. K = (0 .. N) \ ToRemove  BY <1>4 DEF ToKeep
<1> HIDE DEF K, L
<1>6. /\ K \in SUBSET (0 .. N) /\ N \in K
      /\ Cardinality(K) - 1 \in 0 .. N
      /\ Rank(K, N) = Cardinality(K) - 1 /\ Rank(K, N + 1) = Cardinality(K)
      /\ \A n \in K : n # N => Rank(K, n) < Cardinality(K) - 1
  <2>1. ToRemove \in SUBSET (1 .. N - 1)  BY <1>4
  <2> QED BY <1>5, <2>1, KeepCounts, Zenon
<1>7. \A j \in 1 .. L : frame.used[j] \in ToRemove  BY <1>3, <1>4 DEF Range
<1>8. ASSUME MoreUsed
      PROVE  /\ frame.old <= frame.used[frame.u] /\ frame.used[frame.u] \in 1 .. N - 1
             /\ frame.u \in 1 .. L
  <2>1. frame.u \in 1 .. L  BY <1>3, <1>4, <1>8 DEF MoreUsed, L
  <2>2. frame.used[frame.u] \in 1 .. N - 1  BY <1>4, <1>7, <2>1
  <2>3. ~ (frame.used[frame.u] < frame.old)  BY <1>2, <1>4, <2>1
  <2> QED BY <1>2, <2>1, <2>2, <2>3
<1>9. ASSUME ~MoreUsed PROVE \A n \in ToRemove : n < frame.old
  <2>1. \A j \in 1 .. L : j < frame.u  BY <1>2, <1>3, <1>9 DEF MoreUsed, L
  <2>2. \A j \in 1 .. L : frame.used[j] < frame.old  BY <1>4, <2>1
  <2> QED BY <1>3, <1>4, <2>2 DEF Range
<1>10. ASSUME ~MoreUsed, InTail PROVE frame.old \in K
  <2>1. frame.old # N + 1
    <3>1. SUFFICES ASSUME frame.old = N + 1 PROVE FALSE  OBVIOUS
    <3>2. frame.new = Cardinality(K)  BY <1>4, <1>6, <3>1
    <3> QED BY <1>2, <1>4, <1>6, <1>10, <3>2 DEF InTail
  <2>2. frame.old \in 0 .. N  BY <1>4, <2>1
  <2>3. frame.old \notin ToRemove  BY <1>2, <1>9, <1>10
  <2> QED BY <1>5, <2>2, <2>3
<1>11. ASSUME ~MoreUsed, ~InTail PROVE \A n \in K : n < frame.old
  <2>1. Rank(K, frame.old) <= Cardinality(K) /\ Cardinality(K) \in Nat
    BY <1>2, <1>6, RankCounts
  <2>2. Rank(K, frame.old) = Cardinality(K)
    BY <1>2, <1>4, <1>6, <1>11, <2>1 DEF InTail
  <2> QED BY <1>2, <1>6, <2>2, RankCounts
<1>12. frame.new < frame.old
  <2>1. 1 \in 1 .. L /\ 1 < frame.u
    <3>1. L # 0
      <4>1. SUFFICES ASSUME L = 0 PROVE FALSE  OBVIOUS
      <4>2. frame.u \in 2 .. 1  BY <1>4, <4>1
      <4> QED BY <4>2
    <3> QED BY <1>2, <1>3, <1>4, <3>1
  <2>2. frame.used[1] < frame.old /\ frame.used[1] \in ToRemove  BY <1>4, <1>7, <2>1
  <2>3. frame.used[1] \in 1 .. N - 1  BY <1>4, <2>2
  <2>4. frame.used[1] \in 0 .. frame.old - 1  BY <1>2, <2>2, <2>3
  <2>5. frame.used[1] \notin K  BY <1>5, <2>2
  <2>6. Rank(K, frame.old) < frame.old  BY <1>2, <1>6, <2>4, <2>5, RankLags
  <2> QED BY <1>4, <2>6
<1> QED BY <1>1, <1>2, <1>3, <1>4, <1>5, <1>6, <1>8, <1>10, <1>11, <1>12 DEF K, L

\* An argument that is kept moves to its place.
LEMMA CopyKeeps ==
    ASSUME ConfigInv, frame.pc = "remove", NEW N \in Nat, RemovalAt(N),
           frame.old \in ToKeep, CopyOne,
           UNCHANGED <<options, argc, given, before, result>>
    PROVE  ConfigInv' /\ frame'.pc = "remove"
<1> DEFINE K    == ToKeep
           used == frame.used
           L    == Len(used)
           u    == frame.u
           old  == frame.old
           new  == frame.new
<1>1. /\ frame = RemoveFrame(used, u, old, new) /\ used \in Seq(Nat) /\ L \in Nat
      /\ u \in Nat /\ old \in Nat /\ new \in Nat /\ new < old
      /\ K = (0 .. N) \ ToRemove /\ K \in SUBSET (0 .. N) /\ argc \in 0 .. N
      /\ Rank(K, N) = argc /\ \A n \in K : n # N => Rank(K, n) < argc
  BY RemovalSeen
<1>2. /\ DOMAIN given = 0 .. N /\ EndsAt(given, N) /\ 0 .. N \subseteq DOMAIN argv
      /\ Increasing(used) /\ Range(used) = ToRemove /\ ToRemove \subseteq 1 .. N - 1
      /\ argc = Cardinality(K) - 1
      /\ u \in 2 .. L + 1 /\ old \in 1 .. N + 1
      /\ \A j \in 1 .. L : j < u <=> used[j] < old
      /\ new = Rank(K, old)
      /\ \A n \in old .. N : argv[n] = given[n]
      /\ \A n \in K : n < old => argv[Rank(K, n)] = given[n]
      /\ \A p \in 0 .. new - 1 : argv[p] = Null <=> p = argc
  BY DEF RemovalAt
<1>3. result = "none" /\ argv \in Arrays /\ options \in LegalOptions
  BY DEF ConfigInv, Typed, InCall
<1>4. old \in 0 .. N /\ old \in K /\ old \notin ToRemove /\ new \in DOMAIN argv /\ old \in DOMAIN argv
  BY <1>1, <1>2
<1>5. frame' = RemoveFrame(used, u, old + 1, new + 1)
  <2>1. frame' = [frame EXCEPT !.old = old + 1, !.new = new + 1]  BY DEF CopyOne
  <2>2. [frame EXCEPT !.old = old + 1] = RemoveFrame(used, u, old + 1, new)
    BY <1>1 DEF RemoveFrame
  <2>3. [RemoveFrame(used, u, old + 1, new) EXCEPT !.new = new + 1]
          = RemoveFrame(used, u, old + 1, new + 1)
    BY DEF RemoveFrame
  <2> QED BY <2>1, <2>2, <2>3
<1>6. argv' = [argv EXCEPT ![new] = argv[old]]  BY DEF CopyOne
<1>7. ToKeep' = K /\ ToRemove' = ToRemove  BY GivenSame
<1> HIDE DEF K, used, L, u, old, new
<1>8. /\ frame' \in RemoveFrames /\ frame'.pc = "remove" /\ frame'.used = used
      /\ frame'.u = u /\ frame'.old = old + 1 /\ frame'.new = new + 1
  <2>1. old + 1 \in Nat /\ new + 1 \in Nat  BY <1>1
  <2> QED BY <1>1, <1>5, <2>1 DEF RemoveFrames, RemoveFrame
<1>9. /\ argv' \in Arrays /\ DOMAIN argv' = DOMAIN argv
      /\ argv'[new] = argv[old] /\ \A n \in DOMAIN argv : n # new => argv'[n] = argv[n]
  <2>1. argv[old] \in Cells  BY <1>3, <1>4, ArraysSeen
  <2> QED BY <1>3, <1>4, <1>6, <2>1, ArraysSeen
<1>10. argv[old] = given[old]
  <2>1. old \in old .. N  BY <1>1, <1>4
  <2> QED BY <1>2, <2>1
<1>11. Rank(K, old + 1) = new + 1
  <2>1. Rank(K, old + 1) = Rank(K, old) + 1  BY <1>1, <1>4, RankCounts
  <2> QED BY <1>2, <2>1
<1>12. \A n \in old + 1 .. N : argv'[n] = given[n]
  <2>1. TAKE n \in old + 1 .. N
  <2>2. n \in old .. N /\ n \in 0 .. N /\ n # new  BY <1>1
  <2> QED BY <1>2, <1>9, <2>2
<1>13. \A n \in K : n < old + 1 => argv'[Rank(K, n)] = given[n]
  <2>1. SUFFICES ASSUME NEW n \in K, n < old + 1 PROVE argv'[Rank(K, n)] = given[n]  OBVIOUS
  <2>2. CASE n = old  BY <1>2, <1>9, <1>10, <2>2
  <2>3. CASE n # old
    <3>1. n \in Nat /\ n < old /\ n <= N  BY <1>1, <2>1, <2>3
    <3>2. Rank(K, n) < new  BY <1>1, <1>2, <3>1, RankGrows
    <3>3. Rank(K, n) \in Nat  BY <1>1, <3>1, RankCounts
    <3>4. Rank(K, n) \in 0 .. N /\ Rank(K, n) # new
      BY <1>1, <1>4, <3>2, <3>3
    <3> QED BY <1>2, <1>9, <3>1, <3>4
  <2> QED BY <2>2, <2>3
<1>14. \A p \in 0 .. (new + 1) - 1 : argv'[p] = Null <=> p = argc
  <2>1. TAKE p \in 0 .. (new + 1) - 1
  <2>2. CASE p = new
    <3>1. CASE old = N
      <4>1. argv'[p] = Null /\ p = argc  BY <1>1, <1>2, <1>9, <1>10, <2>2, <3>1 DEF EndsAt
      <4> QED BY <4>1
    <3>2. CASE old # N
      <4>1. old \in 0 .. N - 1  BY <1>4, <3>2
      <4>2. given[old] # Null  BY <1>2, <4>1, ArgumentsLegal DEF EndsAt
      <4>3. new < argc  BY <1>1, <1>2, <1>4, <3>2
      <4> QED BY <1>1, <1>9, <1>10, <2>2, <4>2, <4>3
    <3> QED BY <3>1, <3>2
  <2>3. CASE p # new
    <3>1. p \in 0 .. new - 1 /\ p \in 0 .. N  BY <1>1, <1>4, <2>3
    <3> QED BY <1>2, <1>9, <2>3, <3>1
  <2> QED BY <2>2, <2>3
<1>15. \A j \in 1 .. L : j < u <=> used[j] < old + 1
  <2>1. TAKE j \in 1 .. L
  <2>2. used[j] \in Nat /\ used[j] \in ToRemove
    <3>1. DOMAIN used = 1 .. L /\ \A k \in 1 .. L : used[k] \in Nat
      BY <1>1, LenProperties DEF L
    <3> QED BY <1>2, <3>1 DEF Range
  <2>3. used[j] # old  BY <1>4, <2>2
  <2> QED BY <1>1, <1>2, <2>2, <2>3
<1>16. old + 1 \in 1 .. N + 1  BY <1>4
<1>17. RemovalAt(N)'
  <2>1. DOMAIN given' = 0 .. N /\ EndsAt(given', N) /\ 0 .. N \subseteq DOMAIN argv'
    BY <1>2, <1>9
  <2> QED BY <1>2, <1>7, <1>8, <1>11, <1>12, <1>13, <1>14, <1>15, <1>16, <2>1 DEF RemovalAt, L
<1>18. Typed'  BY <1>3, <1>8, <1>9 DEF Typed
<1>19. ConfigInv'
  BY <1>3, <1>8, <1>17, <1>18 DEF ConfigInv, ScanInv, RemoveInv, ArgumentsCompacted
<1> QED BY <1>8, <1>19

\* The removal leaves the options alone.
LEMMA OptionsStay ==
    ASSUME OptionsInv, frame.pc = "remove", UNCHANGED <<options, given, before>>,
           frame'.pc # "scan", result' \in {"none", "parsed"}
    PROVE  OptionsInv'
<1>1. Scanned' = Scanned /\ (NoFiles' <=> NoFiles)  BY GivenSame
<1>2. \A m : Passed(m)' <=> Passed(m)  BY <1>1 DEF Passed
<1>3. \A k, c : SetBy(k, c)' = SetBy(k, c)  BY DEF SetBy
<1>4. \A c : TakenUpTo(c)' <=> TakenUpTo(c)  BY <1>3 DEF TakenUpTo
<1>5. \A c : EndedAt(c)' <=> EndedAt(c)  BY <1>2, <1>4 DEF EndedAt
<1> QED BY <1>1, <1>5 DEF OptionsInv

LEMMA CopyGapKeeps ==
    ASSUME ConfigInv, OptionsInv, CopyGap
    PROVE  ConfigInv' /\ OptionsInv'
<1>1. frame.pc = "remove" /\ result = "none"  BY DEF CopyGap, ConfigInv, Typed, InCall
<1>2. PICK N \in Nat : RemovalAt(N)  BY <1>1 DEF ConfigInv, RemoveInv
<1>3. /\ MoreUsed /\ frame.old < frame.used[frame.u] /\ CopyOne
      /\ UNCHANGED <<options, argc, given, before, result>>
  BY DEF CopyGap
<1>4. /\ frame.used[frame.u] \in 1 .. N - 1 /\ frame.u \in 1 .. Len(frame.used)
      /\ frame.used \in Seq(Nat) /\ frame.old \in Nat /\ frame.u \in Nat
      /\ ToKeep = (0 .. N) \ ToRemove /\ Len(frame.used) \in Nat
  BY <1>1, <1>2, <1>3, RemovalSeen
<1>5. /\ Increasing(frame.used) /\ Range(frame.used) = ToRemove
      /\ \A j \in 1 .. Len(frame.used) : j < frame.u <=> frame.used[j] < frame.old
  BY <1>2 DEF RemovalAt
<1>6. \A j \in 1 .. Len(frame.used) : frame.used[j] # frame.old
  <2>1. SUFFICES ASSUME NEW j \in 1 .. Len(frame.used), frame.used[j] = frame.old PROVE FALSE
    OBVIOUS
  <2>2. ~ (j < frame.u)  BY <1>4, <1>5, <2>1
  <2>3. j = frame.u \/ frame.u < j  BY <1>4, <2>2
  <2>4. frame.used[frame.u] \in Nat  BY <1>4
  <2>5. CASE j = frame.u  BY <1>3, <1>4, <2>1, <2>4, <2>5
  <2>6. CASE frame.u < j
    <3>1. frame.used[frame.u] < frame.used[j]  BY <1>4, <1>5, <2>6 DEF Increasing
    <3> QED BY <1>3, <1>4, <2>1, <2>4, <3>1
  <2> QED BY <2>3, <2>5, <2>6
<1>7. frame.old \in ToKeep
  <2>1. frame.old \in 0 .. N  BY <1>2, <1>3, <1>4
  <2>2. frame.old \notin ToRemove
    <3>1. DOMAIN frame.used = 1 .. Len(frame.used)  BY <1>4, LenProperties
    <3> QED BY <1>5, <1>6, <3>1 DEF Range
  <2> QED BY <1>4, <2>1, <2>2
<1>8. ConfigInv' /\ frame'.pc = "remove"  BY <1>1, <1>2, <1>3, <1>7, CopyKeeps
<1> QED BY <1>1, <1>3, <1>8, OptionsStay

LEMMA CopyTailKeeps ==
    ASSUME ConfigInv, OptionsInv, CopyTail
    PROVE  ConfigInv' /\ OptionsInv'
<1>1. frame.pc = "remove" /\ result = "none"  BY DEF CopyTail, ConfigInv, Typed, InCall
<1>2. PICK N \in Nat : RemovalAt(N)  BY <1>1 DEF ConfigInv, RemoveInv
<1>3. ~MoreUsed /\ InTail /\ CopyOne /\ UNCHANGED <<options, argc, given, before, result>>
  BY DEF CopyTail
<1>4. frame.old \in ToKeep  BY <1>1, <1>2, <1>3, RemovalSeen
<1>5. ConfigInv' /\ frame'.pc = "remove"  BY <1>1, <1>2, <1>3, <1>4, CopyKeeps
<1> QED BY <1>1, <1>3, <1>5, OptionsStay

LEMMA SkipUsedKeeps ==
    ASSUME ConfigInv, OptionsInv, SkipUsed
    PROVE  ConfigInv' /\ OptionsInv'
<1> DEFINE K    == ToKeep
           used == frame.used
           L    == Len(used)
           u    == frame.u
           old  == frame.old
           new  == frame.new
<1>1. frame.pc = "remove" /\ result = "none" /\ argv \in Arrays /\ options \in LegalOptions
  BY DEF SkipUsed, ConfigInv, Typed, InCall
<1>2. PICK N \in Nat : RemovalAt(N)  BY <1>1 DEF ConfigInv, RemoveInv
<1>3. /\ MoreUsed /\ old >= used[u]
      /\ frame' = [frame EXCEPT !.old = old + 1, !.u = u + 1]
      /\ UNCHANGED <<options, argv, argc, given, before, result>>
  BY DEF SkipUsed
<1>4. /\ frame = RemoveFrame(used, u, old, new) /\ used \in Seq(Nat) /\ L \in Nat
      /\ u \in Nat /\ old \in Nat /\ new \in Nat
      /\ K = (0 .. N) \ ToRemove /\ K \in SUBSET (0 .. N)
      /\ old <= used[u] /\ used[u] \in 1 .. N - 1 /\ u \in 1 .. L
  BY <1>1, <1>2, <1>3, RemovalSeen
<1>5. /\ DOMAIN given = 0 .. N /\ EndsAt(given, N) /\ 0 .. N \subseteq DOMAIN argv
      /\ Increasing(used) /\ Range(used) = ToRemove /\ ToRemove \subseteq 1 .. N - 1
      /\ argc = Cardinality(K) - 1
      /\ u \in 2 .. L + 1
      /\ \A j \in 1 .. L : j < u <=> used[j] < old
      /\ new = Rank(K, old)
      /\ \A n \in old .. N : argv[n] = given[n]
      /\ \A n \in K : n < old => argv[Rank(K, n)] = given[n]
      /\ \A p \in 0 .. new - 1 : argv[p] = Null <=> p = argc
  BY <1>2 DEF RemovalAt
<1>6. frame' = RemoveFrame(used, u + 1, old + 1, new)
  <2>1. [frame EXCEPT !.old = old + 1] = RemoveFrame(used, u, old + 1, new)
    BY <1>4 DEF RemoveFrame
  <2>2. [RemoveFrame(used, u, old + 1, new) EXCEPT !.u = u + 1]
          = RemoveFrame(used, u + 1, old + 1, new)
    BY DEF RemoveFrame
  <2> QED BY <1>3, <2>1, <2>2
<1>7. ToKeep' = K /\ ToRemove' = ToRemove  BY <1>3, GivenSame
<1> HIDE DEF K, used, L, u, old, new
<1>9. used[u] = old  BY <1>3, <1>4
<1>10. /\ frame' \in RemoveFrames /\ frame'.pc = "remove" /\ frame'.used = used
       /\ frame'.u = u + 1 /\ frame'.old = old + 1 /\ frame'.new = new
  <2>1. old + 1 \in Nat /\ u + 1 \in Nat  BY <1>4
  <2> QED BY <1>4, <1>6, <2>1 DEF RemoveFrames, RemoveFrame
<1>11. old \notin K
  <2>1. DOMAIN used = 1 .. L  BY <1>4, LenProperties DEF L
  <2>2. old \in ToRemove  BY <1>4, <1>5, <1>9, <2>1 DEF Range
  <2> QED BY <1>4, <2>2
<1>12. new = Rank(K, old + 1)  BY <1>4, <1>5, <1>11, RankCounts
<1>13. \A j \in 1 .. L : j < u + 1 <=> used[j] < old + 1
  <2>1. TAKE j \in 1 .. L
  <2>2. used[j] \in Nat  BY <1>4 DEF L
  <2>3. CASE j = u  BY <1>4, <1>9, <2>3
  <2>4. CASE j # u
    <3>1. used[j] # old
      <4>1. j < u \/ u < j  BY <1>4, <2>4
      <4>2. used[j] < used[u] \/ used[u] < used[j]  BY <1>4, <1>5, <4>1 DEF Increasing, L
      <4> QED BY <1>4, <1>9, <2>2, <4>2
    <3> QED BY <1>4, <1>5, <2>2, <2>4, <3>1
  <2> QED BY <2>3, <2>4
<1>14. \A n \in K : n < old + 1 => n < old
  <2>1. \A n \in K : n \in Nat /\ n # old  BY <1>4, <1>11
  <2> QED BY <1>4, <2>1
<1>15. \A n \in old + 1 .. N : n \in old .. N  BY <1>4
<1>16. u + 1 \in 2 .. L + 1 /\ old + 1 \in 1 .. N + 1  BY <1>4, <1>9
<1>17. RemovalAt(N)'
  BY <1>3, <1>5, <1>7, <1>10, <1>12, <1>13, <1>14, <1>15, <1>16 DEF RemovalAt, L
<1>18. Typed'  BY <1>1, <1>3, <1>10 DEF Typed
<1>19. ConfigInv'
  BY <1>1, <1>3, <1>10, <1>17, <1>18 DEF ConfigInv, ScanInv, RemoveInv, ArgumentsCompacted
<1> QED BY <1>1, <1>3, <1>10, <1>19, OptionsStay

LEMMA FinishKeeps ==
    ASSUME ConfigInv, OptionsInv, Finish
    PROVE  ConfigInv' /\ OptionsInv'
<1> DEFINE K == ToKeep
<1>1. /\ frame.pc = "remove" /\ ~MoreUsed /\ ~InTail /\ frame' = NoFrame /\ result' = "parsed"
      /\ UNCHANGED <<options, argv, argc, given, before>>
  BY DEF Finish, Return
<1>2. PICK N \in Nat : RemovalAt(N)  BY <1>1 DEF ConfigInv, RemoveInv
<1>3. /\ \A n \in K : n < frame.old
      /\ K \in SUBSET (0 .. N) /\ N \in K /\ argc \in 0 .. N
      /\ Rank(K, N) = argc /\ frame.old \in Nat /\ frame.new \in Nat
  BY <1>1, <1>2, RemovalSeen
<1>4. /\ 0 .. N \subseteq DOMAIN argv /\ argc = Cardinality(K) - 1
      /\ frame.new = Rank(K, frame.old)
      /\ \A n \in K : n < frame.old => argv[Rank(K, n)] = given[n]
      /\ \A p \in 0 .. frame.new - 1 : argv[p] = Null <=> p = argc
  BY <1>2 DEF RemovalAt
<1>5. frame.new = argc + 1
  <2>1. Rank(K, frame.old) = Cardinality(K) /\ Cardinality(K) \in Nat  BY <1>3, RankCounts
  <2> QED BY <1>3, <1>4, <2>1
<1>6. EndsAt(argv, argc)
  <2>1. \A p \in 0 .. argc : argv[p] = Null <=> p = argc  BY <1>3, <1>4, <1>5
  <2>2. 0 .. argc \subseteq DOMAIN argv /\ argc \in 0 .. argc /\ argc \in Nat  BY <1>3, <1>4
  <2>3. argv \in Arrays  BY DEF ConfigInv, Typed
  <2>4. \A p \in 0 .. argc - 1 : p \in 0 .. argc /\ p # argc  BY <1>3
  <2>5. \A p \in 0 .. argc - 1 : argv[p] \in Arguments  BY <2>1, <2>2, <2>3, <2>4, ArraysSeen DEF Cells
  <2> QED BY <2>1, <2>2, <2>5 DEF EndsAt
<1>7. ToKeep' = K  BY <1>1, GivenSame
<1>8. ArgumentsCompacted'
  <2>1. \A n \in K : argv'[Rank(K, n)] = given'[n]  BY <1>1, <1>3, <1>4
  <2>2. argc' = Cardinality(K) - 1  BY <1>1, <1>4
  <2> QED BY <1>7, <2>1, <2>2 DEF ArgumentsCompacted, Rank
<1>9. Typed' /\ frame'.pc = "idle"
  <2>1. EndsAt(argv', argc')  BY <1>1, <1>6
  <2> QED BY <1>1, <2>1, Idle DEF ConfigInv, Typed, InCall
<1>10. ConfigInv'  BY <1>8, <1>9 DEF ConfigInv, ScanInv, RemoveInv
<1> QED BY <1>1, <1>9, <1>10, OptionsStay
-------------------------------------------------------------------------------
(* Every step keeps both.                                                         *)

LEMMA StepsKeep ==
    ASSUME ConfigInv, OptionsInv, [Next]_vars
    PROVE  ConfigInv' /\ OptionsInv'
<1>1. CASE \/ \E line \in CommandLines : Provide(line)
           \/ DoSet \/ DoRemove \/ DoClear
           \/ DoParseFileContent \/ DoParseFile \/ DoParseGlobalConfig
  BY <1>1, ProgramKeeps
<1>2. CASE \E allow \in BOOLEAN : CallParseArgs(allow)  BY <1>2, CallKeeps
<1>3. CASE ScanOption    BY <1>3, ScanOptionKeeps
<1>4. CASE ScanFile      BY <1>4, ScanFileKeeps
<1>5. CASE ScanPlain     BY <1>5, ScanPlainKeeps
<1>6. CASE ScanHelp      BY <1>6, ScanHelpKeeps
<1>7. CASE StartRemoval  BY <1>7, StartRemovalKeeps
<1>8. CASE CopyGap       BY <1>8, CopyGapKeeps
<1>9. CASE SkipUsed      BY <1>9, SkipUsedKeeps
<1>10. CASE CopyTail     BY <1>10, CopyTailKeeps
<1>11. CASE Finish       BY <1>11, FinishKeeps
<1>12. CASE UNCHANGED vars
  <2>1. UNCHANGED <<options, argv, argc, frame, given, before, result>>  BY <1>12 DEF vars
  <2>2. Scanned' = Scanned /\ ToRemove' = ToRemove /\ ToKeep' = ToKeep /\ (NoFiles' <=> NoFiles)
    BY <2>1, GivenSame
  <2>3. Typed'  BY <2>1 DEF ConfigInv, Typed, InCall
  <2>4. ScanInv'  BY <2>1 DEF ConfigInv, ScanInv
  <2>5. RemoveInv'
    <3>1. \A N : RemovalAt(N)' <=> RemovalAt(N)  BY <2>1, <2>2 DEF RemovalAt
    <3> QED BY <2>1, <3>1 DEF ConfigInv, RemoveInv
  <2>6. ArgumentsCompacted'  BY <2>1, <2>2 DEF ConfigInv, ArgumentsCompacted
  <2>7. OptionsInv'
    <3>1. \A m : Passed(m)' <=> Passed(m)  BY <2>1, <2>2 DEF Passed
    <3>2. \A k, c : SetBy(k, c)' = SetBy(k, c)  BY <2>1 DEF SetBy
    <3>3. \A c : TakenUpTo(c)' <=> TakenUpTo(c)  BY <2>1, <3>2 DEF TakenUpTo
    <3>4. \A c : EndedAt(c)' <=> EndedAt(c)  BY <2>1, <3>1, <3>3 DEF EndedAt
    <3>5. TakenUpTo(frame.i - 1)' <=> TakenUpTo(frame.i - 1)
      <4>1. \A k : SetBy(k, frame.i - 1)' = SetBy(k, frame.i - 1)  BY <2>1 DEF SetBy
      <4> QED BY <2>1, <4>1 DEF TakenUpTo
    <3> QED BY <2>1, <2>2, <3>4, <3>5 DEF OptionsInv
  <2> QED BY <2>3, <2>4, <2>5, <2>6, <2>7 DEF ConfigInv
<1> QED BY <1>1, <1>2, <1>3, <1>4, <1>5, <1>6, <1>7, <1>8, <1>9, <1>10, <1>11, <1>12
        DEF Next, Program, Step

LEMMA AlwaysInside == Spec => [](ConfigInv /\ OptionsInv)
<1>1. Init => ConfigInv /\ OptionsInv  BY StartsInside
<1>2. (ConfigInv /\ OptionsInv) /\ [Next]_vars => (ConfigInv /\ OptionsInv)'  BY StepsKeep
<1> QED BY <1>1, <1>2, PTL DEF Spec

LEMMA InsideTyped == ConfigInv => TypeOK
<1> SUFFICES ASSUME ConfigInv PROVE TypeOK  OBVIOUS
<1>1. DOMAIN options \subseteq Keys /\ Range(options) \subseteq ValueRange
  BY LegalSeen DEF ConfigInv, Typed, Range
<1>2. Range(argv) \subseteq Arguments \cup {Null}
  BY ArraysSeen DEF ConfigInv, Typed, Cells, Range
<1>3. frame.pc \in {"idle", "scan", "remove"} /\ (~InCall <=> frame.pc = "idle")
  BY FramesSeen DEF ConfigInv
<1>4. result \in {"none", "parsed", "help", "thrown"}  BY DEF ConfigInv, Typed
<1>5. frame.pc # "remove" => argc \in DOMAIN argv
  <2>1. \A c \in Nat : c \in 0 .. c  OBVIOUS
  <2> QED BY <2>1 DEF ConfigInv, Typed, EndsAt
<1>6. frame.pc = "scan" => /\ frame.i \in 1 .. argc /\ frame.allow \in BOOLEAN
                           /\ Range(frame.used) \subseteq DOMAIN given
  <2> SUFFICES ASSUME frame.pc = "scan"
               PROVE  /\ frame.i \in 1 .. argc /\ frame.allow \in BOOLEAN
                      /\ Range(frame.used) \subseteq DOMAIN given
    OBVIOUS
  <2>1. frame.i \in 1 .. argc /\ argc \in Nat /\ frame.allow \in BOOLEAN  BY ScanSeen
  <2>2. /\ Range(frame.used) \subseteq 1 .. frame.i - 1 /\ DOMAIN given = 0 .. argc
    BY DEF ConfigInv, ScanInv
  <2>3. 1 .. frame.i - 1 \subseteq 0 .. argc  BY <2>1
  <2> QED BY <2>1, <2>2, <2>3
<1>7. frame.pc = "remove" => /\ {frame.u, frame.old, frame.new} \subseteq Nat
                             /\ argc \in DOMAIN argv
                             /\ Range(frame.used) \subseteq DOMAIN given
  <2> SUFFICES ASSUME frame.pc = "remove"
               PROVE  /\ {frame.u, frame.old, frame.new} \subseteq Nat
                      /\ argc \in DOMAIN argv
                      /\ Range(frame.used) \subseteq DOMAIN given
    OBVIOUS
  <2>1. PICK N \in Nat : RemovalAt(N)  BY DEF ConfigInv, RemoveInv
  <2>2. frame.u \in Nat /\ frame.old \in Nat /\ frame.new \in Nat /\ argc \in 0 .. N
    BY <2>1, RemovalSeen
  <2>3. /\ 0 .. N \subseteq DOMAIN argv /\ DOMAIN given = 0 .. N
        /\ Range(frame.used) \subseteq 1 .. N - 1
    BY <2>1 DEF RemovalAt
  <2>4. 1 .. N - 1 \subseteq 0 .. N  OBVIOUS
  <2> QED BY <2>2, <2>3, <2>4
<1> QED BY <1>1, <1>2, <1>3, <1>4, <1>5, <1>6, <1>7 DEF TypeOK

LEMMA InsideAhead == ConfigInv => ReadsAhead
<1> SUFFICES ASSUME ConfigInv, frame.pc = "remove"
             PROVE  /\ frame.new < frame.old
                    /\ \A n \in frame.old .. Cardinality(DOMAIN given) - 1 : argv[n] = given[n]
                    /\ (MoreUsed \/ InTail) => frame.old \in DOMAIN given
  BY InsideTyped DEF ReadsAhead
<1>1. PICK N \in Nat : RemovalAt(N)  BY DEF ConfigInv, RemoveInv
<1>2. /\ frame.new < frame.old /\ frame.old \in Nat
      /\ MoreUsed => frame.old <= frame.used[frame.u] /\ frame.used[frame.u] \in 1 .. N - 1
      /\ ~MoreUsed /\ InTail => frame.old \in ToKeep
      /\ ToKeep \in SUBSET (0 .. N)
  BY <1>1, RemovalSeen
<1>3. DOMAIN given = 0 .. N /\ \A n \in frame.old .. N : argv[n] = given[n]
  BY <1>1 DEF RemovalAt
<1>4. Cardinality(DOMAIN given) - 1 = N
  <2>1. Cardinality(0 .. N) = N + 1  BY FS_Interval
  <2> QED BY <1>3, <2>1
<1>5. MoreUsed => frame.old \in DOMAIN given  BY <1>2, <1>3
<1> QED BY <1>2, <1>3, <1>4, <1>5

LEMMA InsideLast == ConfigInv /\ OptionsInv => LastArgumentWins
<1> DEFINE Bound(n) == \A m \in DOMAIN given \ {0} : m <= n <=> Passed(m)
           count    == CHOOSE n \in 0 .. Cardinality(DOMAIN given) : Bound(n)
           set(k)   == {n \in Scanned : n <= count /\ given[n].kind = "option" /\ given[n].key = k}
           files    == {n \in DOMAIN given : Argument(n) /\ given[n].kind = "file"}
<1> SUFFICES ASSUME ConfigInv, OptionsInv, result # "none", files = {}
             PROVE  /\ \A k \in DOMAIN options :
                          options[k] = IF set(k) # {} THEN given[Max(set(k))].value ELSE before[k]
                    /\ DOMAIN before \subseteq DOMAIN options
  BY Zenon DEF LastArgumentWins, Passed
<1>1. NoFiles  BY DEF NoFiles
<1>2. PICK c \in Nat : EndedAt(c)  BY <1>1 DEF OptionsInv
<1>3. /\ c \in 0 .. Cardinality(DOMAIN given) /\ 1 .. c \subseteq DOMAIN given
      /\ DOMAIN given \subseteq Nat /\ Bound(c) /\ TakenUpTo(c)
  BY <1>2 DEF EndedAt
<1>4. Bound(count)
  <2> HIDE DEF Bound
  <2> QED BY <1>3
<1>5. \A n \in Scanned : n \in DOMAIN given \ {0}  BY DEF Scanned, Argument
<1>6. ASSUME NEW k PROVE set(k) = SetBy(k, c)
  <2>1. \A n \in Scanned : n <= count <=> n <= c  BY <1>3, <1>4, <1>5
  <2> HIDE DEF count
  <2>2. \A n \in Scanned : n <= c <=> n \in 1 .. c
    <3>1. \A n \in Scanned : n \in Nat /\ n # 0  BY <1>3, <1>5
    <3> QED BY <3>1
  <2>3. \A n \in 1 .. c : n \in Scanned
    <3>1. \A n \in 1 .. c : n # 0 /\ n <= c  OBVIOUS
    <3> QED BY <1>3, <3>1 DEF Passed
  <2> QED BY <2>1, <2>2, <2>3 DEF SetBy
<1> HIDE DEF set
<1>7. /\ \A k \in DOMAIN options :
           options[k] = IF SetBy(k, c) # {} THEN given[Max(SetBy(k, c))].value ELSE before[k]
      /\ DOMAIN before \subseteq DOMAIN options
  BY <1>3 DEF TakenUpTo
<1> QED BY <1>6, <1>7

\* The types: options with legal keys and values whatever was read, indexes inside
\* argv.
THEOREM TypeCorrect == Spec => []TypeOK
BY AlwaysInside, InsideTyped, PTL

\* The removal (config.cpp:87-101) reads ahead of what it writes, never outside the
\* array, for command lines of any length.
THEOREM RemovalReadsAhead == Spec => []ReadsAhead
BY AlwaysInside, InsideAhead, PTL

\* What parse_args leaves in argv is what it did not parse, each argument once, in
\* their order, and the null after them.
THEOREM UnparsedArgumentsStay == Spec => []ArgumentsCompacted
<1>1. ConfigInv => ArgumentsCompacted  BY DEF ConfigInv
<1> QED BY <1>1, AlwaysInside, PTL

\* After a call of parse_args that read no file each option has the value of the
\* last argument for it before the call ended, or the one it had.
THEOREM OptionsFollowArguments == Spec => []LastArgumentWins
BY AlwaysInside, InsideLast, PTL

-------------------------------------------------------------------------------
(* Readings and references.                                                       *)

\* The lines that are read before the first bad one.
GoodLines(text, opts, allow) ==
    {n \in Options(text) : \A b \in BadLines(text, opts, allow) : n < b}

\* A text in which no bare key swallows a line sets what its good lines set.
LEMMA ReadingIs ==
    ASSUME NEW text, Legal(text), BareKeysTakeNoLine(text),
           NEW opts \in LegalOptions, NEW allow \in BOOLEAN
    PROVE  ParseFileContent(text, opts, allow)
             = Outcome(Taken(text, opts, GoodLines(text, opts, allow)),
                       BadLines(text, opts, allow) # {})
<1> DEFINE N   == Len(text.lines)
           bad == BadLines(text, opts, allow)
           f   == CHOOSE h : Reads(h, text, opts, allow, N)
           E   == {n \in 0 .. N : ReadUpTo(text, opts, allow, n, f[n])}
<1>1. N \in Nat /\ 0 \in 0 .. N /\ N \in 0 .. N  BY DEF Legal
<1>2. Reads(f, text, opts, allow, N)  BY <1>1, ReadsExists, Zenon
<1>3. \A n \in 0 .. N : f[n] = IF n = 0 THEN Start(opts) ELSE ReadLine(text, n, f[n - 1], allow)
  <2> HIDE DEF f
  <2> QED BY <1>2, Zenon DEF Reads
<1>4. ParseFileContent(text, opts, allow) = Outcome(f[N].options, f[N].failed)
  BY Zenon DEF ParseFileContent, Reads, Start, Reading
<1>5. bad \subseteq 1 .. N  BY DEF BadLines, Options, Sections, Legal
<1>6. GoodUpTo(text, bad, 0) = {}
  <2>1. \A m \in Options(text) : m \in Nat /\ m >= 1  BY DEF Options, Legal
  <2> QED BY <2>1 DEF GoodUpTo
<1> HIDE DEF f
<1>7. 0 \in E
  <2>1. f[0] = Reading(<<>>, opts, FALSE, FALSE)  BY <1>1, <1>3 DEF Start
  <2>2. Taken(text, opts, {}) = opts
    <3>1. {FullKey(text, m) : m \in {}} = {}  OBVIOUS
    <3>2. Taken(text, opts, {}) = [k \in DOMAIN opts |-> opts[k]]
      BY <3>1, Zenon DEF Taken
    <3>3. opts = [k \in DOMAIN opts |-> opts[k]]  BY DEF LegalOptions
    <3> QED BY <3>2, <3>3
  <2>3. IsReading(f[0]) /\ f[0].options = opts /\ f[0].skip = FALSE /\ f[0].failed = FALSE
        /\ f[0].prefix = <<>>
    BY <2>1 DEF Reading, IsReading
  <2>4. Prefix(text, 0) = <<>>  BY PrefixNext
  <2>5. \A b \in bad : ~ (b <= 0)  BY <1>1, <1>5
  <2> QED BY <1>1, <1>6, <2>2, <2>3, <2>4, <2>5 DEF ReadUpTo
<1>8. ASSUME NEW n \in 1 .. N, n - 1 \in E PROVE n \in E
  <2>1. n \in 0 .. N /\ n # 0 /\ n \in 1 .. Len(text.lines)  BY <1>1
  <2>2. f[n] = ReadLine(text, n, f[n - 1], allow)  BY <1>3, <2>1
  <2>3. ReadUpTo(text, opts, allow, n - 1, f[n - 1])  BY <1>8
  <2> QED BY <2>1, <2>2, <2>3, ReadLineIs
<1> HIDE DEF E
<1>9. N \in E  BY <1>1, <1>7, <1>8, InductionUpTo
<1>10. ReadUpTo(text, opts, allow, N, f[N])  BY <1>9 DEF E
<1> DEFINE good == GoodLines(text, opts, allow)
<1>11. GoodUpTo(text, bad, N) = good
  <2>1. \A m \in Options(text) : m <= N  BY <1>1 DEF Options, Legal
  <2> QED BY <2>1 DEF GoodUpTo, GoodLines
<1>12. f[N].options = Taken(text, opts, good)
  <2> HIDE DEF good
  <2> QED BY <1>10, <1>11 DEF ReadUpTo
<1>13. f[N].failed = (bad # {})
  <2>1. f[N].failed \in BOOLEAN /\ (f[N].failed <=> \E b \in bad : b <= N)
    BY <1>10 DEF ReadUpTo
  <2>2. \A b \in bad : b <= N  BY <1>1, <1>5
  <2> HIDE DEF bad
  <2> QED BY <2>1, <2>2
<1> QED BY <1>4, <1>12, <1>13

\* What the good lines should set.
Said(text, opts, good) ==
    LET keys == {FullKey(text, m) : m \in good}
    IN [k \in DOMAIN opts \cup keys |->
           IF k \in keys THEN ValueAt(text, Max(ThoseFor(text, good, k))) ELSE opts[k]]

LEMMA ReferenceIs ==
    ASSUME NEW text, NEW opts, NEW allow
    PROVE  Reference(text, opts, allow)
             = Outcome(Said(text, opts, GoodLines(text, opts, allow)),
                       BadLines(text, opts, allow) # {})
BY Zenon DEF Reference, Said, GoodLines, ThoseFor

\* The greatest of some numbers up to N is one of them.
LEMMA MaxOfSome ==
    ASSUME NEW N \in Nat, NEW S \in SUBSET (1 .. N), S # {}
    PROVE  Max(S) \in S
<1> DEFINE T == {N - m : m \in S}
<1>1. T \subseteq Nat /\ T # {}
  <2>1. \A m \in S : N - m \in Nat  OBVIOUS
  <2> QED BY <2>1
<1>2. PICK t \in T : \A u \in T : t <= u
  <2> HIDE DEF T
  <2> QED BY <1>1, LeastExists
<1>3. PICK m \in S : t = N - m  OBVIOUS
<1>4. \A k \in S : m >= k
  <2>1. TAKE k \in S
  <2>2. N - k \in T  OBVIOUS
  <2>3. N - m <= N - k  BY <1>2, <1>3, <2>2
  <2> QED BY <2>3
<1> QED BY <1>4, Zenon DEF Max

\* The line that gives a key its value is a good line about this key.
LEMMA LastIsGood ==
    ASSUME NEW text, Legal(text), NEW opts, NEW allow, NEW k,
           NEW n \in GoodLines(text, opts, allow), FullKey(text, n) = k
    PROVE  LET m == Max(ThoseFor(text, GoodLines(text, opts, allow), k))
           IN m \in Options(text) /\ FullKey(text, m) = k
<1> DEFINE S == ThoseFor(text, GoodLines(text, opts, allow), k)
<1>1. S \in SUBSET (1 .. Len(text.lines)) /\ Len(text.lines) \in Nat
  BY DEF ThoseFor, GoodLines, Options, Legal
<1>2. n \in S  BY DEF ThoseFor
<1>3. \A m \in S : m \in Options(text) /\ FullKey(text, m) = k  BY DEF ThoseFor, GoodLines
<1> HIDE DEF S
<1>4. Max(S) \in S  BY <1>1, <1>2, MaxOfSome
<1> QED BY <1>3, <1>4 DEF S

\* Whatever the options, a text of any length in which no end of line follows a bare
\* key is read as its lines say: what parse_file_content makes of it is its reference.
THEOREM ReadingIsReference ==
    ASSUME NEW text, Legal(text), BareKeysEndTheText(text),
           NEW opts \in LegalOptions, NEW allow \in BOOLEAN
    PROVE  ParseFileContent(text, opts, allow) = Reference(text, opts, allow)
<1> DEFINE good == GoodLines(text, opts, allow)
           keys == {FullKey(text, m) : m \in good}
<1>1. BareKeysTakeNoLine(text)  BY DEF BareKeysEndTheText, BareKeysTakeNoLine, IsLast
<1>2. \A n \in Options(text) : ReadAt(text, n) = ValueAt(text, n)
  <2>1. TAKE n \in Options(text)
  <2>2. IsKind(text, n, "option") \/ IsKind(text, n, "bare")  BY DEF Options, IsKind
  <2>3. CASE IsKind(text, n, "option")  BY <2>3 DEF ReadAt, ValueAt
  <2>4. CASE ~IsKind(text, n, "option")
    <3>1. IsLast(text, n)  BY <2>2, <2>4 DEF BareKeysEndTheText, Options
    <3> QED BY <2>4, <3>1 DEF ReadAt, ValueAt, BareValue
  <2> QED BY <2>3, <2>4
<1>3. \A k \in keys : Max(ThoseFor(text, good, k)) \in Options(text)  BY LastIsGood
<1>4. Taken(text, opts, good) = Said(text, opts, good)
  <2> HIDE DEF good
  <2> QED BY <1>2, <1>3 DEF Taken, Said
<1> QED BY <1>1, <1>4, ReadingIs, ReferenceIs

\* In a text in which no bare key swallows a line, what follows a bare key can only
\* spoil the value of that key: the reading sets the same keys and fails alike.
THEOREM OtherValuesAreReference ==
    ASSUME NEW text, Legal(text), BareKeysTakeNoLine(text),
           NEW opts \in LegalOptions, NEW allow \in BOOLEAN
    PROVE  LET read == ParseFileContent(text, opts, allow)
               said == Reference(text, opts, allow)
           IN /\ read.failed = said.failed
              /\ DOMAIN read.options = DOMAIN said.options
              /\ \A k \in DOMAIN said.options : read.options[k] # said.options[k] =>
                    \E n \in Options(text) : IsKind(text, n, "bare") /\ FullKey(text, n) = k
<1> DEFINE good == GoodLines(text, opts, allow)
           bad  == BadLines(text, opts, allow)
           keys == {FullKey(text, m) : m \in good}
           read == Taken(text, opts, good)
           said == Said(text, opts, good)
<1>1. /\ ParseFileContent(text, opts, allow) = Outcome(read, bad # {})
      /\ Reference(text, opts, allow) = Outcome(said, bad # {})
  BY ReadingIs, ReferenceIs
<1>2. /\ DOMAIN read = DOMAIN opts \cup keys /\ DOMAIN said = DOMAIN opts \cup keys
      /\ \A k \in DOMAIN opts \cup keys :
            /\ read[k] = IF k \in keys THEN ReadAt(text, Max(ThoseFor(text, good, k))) ELSE opts[k]
            /\ said[k] = IF k \in keys THEN ValueAt(text, Max(ThoseFor(text, good, k))) ELSE opts[k]
  BY DEF Taken, Said
<1>3. ASSUME NEW k \in DOMAIN said, read[k] # said[k]
      PROVE  \E n \in Options(text) : IsKind(text, n, "bare") /\ FullKey(text, n) = k
  <2> DEFINE m == Max(ThoseFor(text, good, k))
  <2> HIDE DEF read, said
  <2>1. k \in keys /\ ReadAt(text, m) # ValueAt(text, m)  BY <1>2, <1>3
  <2>2. m \in Options(text) /\ FullKey(text, m) = k  BY <2>1, LastIsGood
  <2> HIDE DEF m
  <2>3. ~IsKind(text, m, "option")  BY <2>1 DEF ReadAt, ValueAt
  <2>4. IsKind(text, m, "bare")  BY <2>2, <2>3 DEF Options, IsKind
  <2> QED BY <2>2, <2>4
<1> HIDE DEF good, bad, read, said
<1>4. \A o, f : Outcome(o, f).options = o /\ Outcome(o, f).failed = f  BY DEF Outcome
<1> QED BY <1>1, <1>2, <1>3, <1>4

\* Whatever options the program has come to have, every sample in which no end of line
\* follows a bare key is read as its lines say, and every one in which no bare key
\* swallows a line differs from that in the values of bare keys only.
THEOREM TextsAreRead == Spec => []TextsReadAsWritten
<1>1. ConfigInv => options \in LegalOptions  BY DEF ConfigInv, Typed
<1>2. ASSUME NEW text \in Samples PROVE Legal(text)
  <2>1. /\ text.lines \in Seq(Range(text.lines))
        /\ \A line \in Range(text.lines) : LegalLine(line)
    BY TextsAssumption DEF IsSequence
  <2>2. Len(text.lines) \in Nat /\ DOMAIN text.lines = 1 .. Len(text.lines)
    BY <2>1, LenProperties
  <2> QED BY <2>1, <2>2 DEF Legal, Range
<1>3. ConfigInv => TextsReadAsWritten
  <2> SUFFICES ASSUME ConfigInv, NEW text \in Samples, NEW allow \in BOOLEAN
               PROVE  LET read == ParseFileContent(text, options, allow)
                          said == Reference(text, options, allow)
                      IN /\ BareKeysEndTheText(text) => read = said
                         /\ BareKeysTakeNoLine(text) =>
                              /\ read.failed = said.failed
                              /\ DOMAIN read.options = DOMAIN said.options
                              /\ \A k \in DOMAIN said.options :
                                    read.options[k] # said.options[k] =>
                                      \E n \in Options(text) :
                                        IsKind(text, n, "bare") /\ FullKey(text, n) = k
    BY Zenon DEF TextsReadAsWritten
  <2>1. options \in LegalOptions /\ Legal(text)  BY <1>1, <1>2
  <2> QED BY <2>1, ReadingIsReference, OtherValuesAreReference
<1> QED BY <1>3, AlwaysInside, PTL
=============================================================================
