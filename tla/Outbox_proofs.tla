--------------------------- MODULE Outbox_proofs ---------------------------
(***************************************************************************)
(* Proofs about Outbox for every number of users, feeds and faults and     *)
(* every size of the lists, with the one worker process of bench.conf.     *)
(*                                                                         *)
(* Wherever a list of a user is (in memcached, read by the worker, or on   *)
(* its way from the storage), it holds feeds of the storage and the one    *)
(* that the pending change takes out, newest first (Shows).  As long as no *)
(* feed comes late, the pending new feed is the newest one, and no other   *)
(* feed that the list leaves out is newer than one it has (Leaves).        *)
(***************************************************************************)
EXTENDS Outbox, SequenceTheorems, FiniteSetTheorems, WellFoundedInduction, TLAPS

-----------------------------------------------------------------------------
(* Numbers and sequences.                                                  *)

LEMMA Limits == MaxStamp \in Nat /\ Size \in Nat /\ Size >= 1 /\ Feeds \subseteq Nat
BY OutboxAssumption DEF Feeds

LEMMA Least ==
    ASSUME NEW S, S \subseteq Nat, S # {}
    PROVE  Min(S) \in S /\ \A y \in S : Min(S) <= y
<1> DEFINE R == OpToRel(<, Nat)
<1>1. PICK x \in S : \A y \in S : ~(<<y, x>> \in R)
    <2>1. IsWellFoundedOn(R, Nat)
        BY NatLessThanWellFounded
    <2> HIDE DEF R
    <2> QED BY <2>1, WFMin
<1>2. \A y \in S : ~ (y < x)
    BY <1>1 DEF OpToRel
<1>3. \A y \in S : x <= y
    BY <1>2
<1> QED BY <1>3 DEF Min

LEMMA Greatest ==
    ASSUME NEW n \in Nat, NEW S, S \subseteq 0 .. n, S # {}
    PROVE  Max(S) \in S /\ \A y \in S : y <= Max(S)
<1> DEFINE T == {n - x : x \in S}
<1>1. T \subseteq Nat /\ T # {}
    OBVIOUS
<1>2. PICK t \in T : \A y \in T : t <= y
    BY <1>1, Least
<1>3. PICK x \in S : t = n - x
    BY <1>2
<1>4. \A y \in S : y <= x
    BY <1>2, <1>3
<1>5. \E m \in S : \A y \in S : m >= y
    BY <1>4
<1> QED BY <1>5 DEF Max

Descends(s) == \A i, j \in DOMAIN s : i < j => s[i] > s[j]

LEMMA DescendsAway ==
    ASSUME NEW s \in Seq(Feeds), Descends(s)
    PROVE  /\ Len(s) \in Nat /\ DOMAIN s = 1 .. Len(s) /\ \A i \in 1 .. Len(s) : s[i] \in Feeds
           /\ \A i, j \in 1 .. Len(s) : s[i] = s[j] => i = j
           /\ \A i, j \in 1 .. Len(s) : s[i] > s[j] => i < j
<1>1. Len(s) \in Nat /\ DOMAIN s = 1 .. Len(s) /\ \A i \in 1 .. Len(s) : s[i] \in Feeds
    BY LenProperties, ElementOfSeq
<1>2. \A i \in 1 .. Len(s) : s[i] \in Nat
    BY <1>1, Limits
<1>3. ASSUME NEW i \in 1 .. Len(s), NEW j \in 1 .. Len(s), s[i] = s[j] PROVE i = j
    <2>1. ~ (s[i] > s[j]) /\ ~ (s[j] > s[i])
        BY <1>2, <1>3
    <2>2. ~ (i < j) /\ ~ (j < i)
        BY <1>1, <2>1 DEF Descends
    <2> QED BY <1>1, <2>2
<1>4. ASSUME NEW i \in 1 .. Len(s), NEW j \in 1 .. Len(s), s[i] > s[j] PROVE i < j
    <2>1. ~ (s[j] > s[i]) /\ i # j
        BY <1>2, <1>4
    <2>2. ~ (j < i)
        BY <1>1, <2>1 DEF Descends
    <2> QED BY <1>1, <2>1, <2>2
<1> QED BY <1>1, <1>3, <1>4

LEMMA EmptyList ==
    /\ <<>> \in Seq(Feeds) /\ Len(<<>>) = 0 /\ DOMAIN <<>> = {} /\ Range(<<>>) = {}
    /\ Descends(<<>>)
<1>1. <<>> \in Seq(Feeds) /\ Len(<<>>) = 0 /\ DOMAIN <<>> = {}
    BY EmptySeq
<1> QED BY <1>1 DEF Range, Descends

(* The front of a list.                                                    *)
LEMMA FrontOf ==
    ASSUME NEW S, NEW s \in Seq(S), NEW n \in 0 .. Len(s)
    PROVE  /\ SubSeq(s, 1, n) \in Seq(S) /\ Len(SubSeq(s, 1, n)) = n
           /\ DOMAIN SubSeq(s, 1, n) = 1 .. n
           /\ \A i \in 1 .. n : SubSeq(s, 1, n)[i] = s[i]
<1>1. Len(s) \in Nat /\ \A i \in 1 .. Len(s) : s[i] \in S
    BY LenProperties, ElementOfSeq
<1>2. 1 \in Int /\ n \in Nat /\ \A i \in 1 .. n : s[i] \in S
    BY <1>1
<1>3. /\ SubSeq(s, 1, n) \in Seq(S)
      /\ Len(SubSeq(s, 1, n)) = IF 1 <= n THEN n - 1 + 1 ELSE 0
      /\ \A i \in 1 .. n - 1 + 1 : SubSeq(s, 1, n)[i] = s[1 + i - 1]
    BY <1>2, SubSeqProperties
<1> DEFINE t == SubSeq(s, 1, n)
<1> HIDE DEF t
<1>4. t \in Seq(S) /\ Len(t) = n
    BY <1>2, <1>3 DEF t
<1>5. \A i \in 1 .. n : t[i] = s[i]
    BY <1>2, <1>3 DEF t
<1>6. DOMAIN t = 1 .. n
    BY <1>4, LenProperties
<1> QED BY <1>4, <1>5, <1>6 DEF t

LEMMA BackOf ==
    ASSUME NEW S, NEW s \in Seq(S), NEW k \in 1 .. Len(s) + 1
    PROVE  /\ SubSeq(s, k, Len(s)) \in Seq(S) /\ Len(SubSeq(s, k, Len(s))) = Len(s) + 1 - k
           /\ \A i \in 1 .. Len(s) + 1 - k : SubSeq(s, k, Len(s))[i] = s[k + i - 1]
<1> DEFINE n == Len(s)
           t == SubSeq(s, k, n)
<1>1. n \in Nat /\ \A i \in 1 .. n : s[i] \in S
    BY LenProperties, ElementOfSeq
<1>2. k \in Int /\ n \in Int /\ \A i \in k .. n : s[i] \in S
    BY <1>1
<1>3. /\ t \in Seq(S) /\ Len(t) = IF k <= n THEN n - k + 1 ELSE 0
      /\ \A i \in 1 .. n - k + 1 : t[i] = s[k + i - 1]
    BY <1>2, SubSeqProperties
<1> HIDE DEF t
<1>4. n - k + 1 = n + 1 - k /\ (IF k <= n THEN n - k + 1 ELSE 0) = n + 1 - k
    BY <1>1
<1>5. Len(t) = n + 1 - k /\ \A i \in 1 .. n + 1 - k : t[i] = s[k + i - 1]
    BY <1>3, <1>4
<1> QED BY <1>3, <1>5 DEF t

LEMMA RemovedAt ==
    ASSUME NEW S, NEW s \in Seq(S), NEW k \in 1 .. Len(s)
    PROVE  /\ RemoveAt(s, k) \in Seq(S) /\ Len(RemoveAt(s, k)) = Len(s) - 1
           /\ \A i \in 1 .. Len(s) - 1 :
                RemoveAt(s, k)[i] = IF i < k THEN s[i] ELSE s[i + 1]
<1> DEFINE n == Len(s)
           a == SubSeq(s, 1, k - 1)
           b == SubSeq(s, k + 1, n)
           r == RemoveAt(s, k)
<1>1. n \in Nat
    BY LenProperties
<1>2. k - 1 \in 0 .. n /\ k + 1 \in 1 .. n + 1 /\ n + 1 - (k + 1) = n - k
    BY <1>1
<1>3. a \in Seq(S) /\ Len(a) = k - 1 /\ \A i \in 1 .. k - 1 : a[i] = s[i]
    BY <1>2, FrontOf
<1>4. /\ b \in Seq(S) /\ Len(b) = n - k
      /\ \A i \in 1 .. n - k : b[i] = s[(k + 1) + i - 1]
    <2>1. /\ b \in Seq(S) /\ Len(b) = n + 1 - (k + 1)
          /\ \A i \in 1 .. n + 1 - (k + 1) : b[i] = s[(k + 1) + i - 1]
        BY <1>2, BackOf
    <2> HIDE DEF b
    <2> QED BY <1>2, <2>1
<1>5. r = a \o b
    BY DEF RemoveAt
<1> HIDE DEF a, b, r
<1>6. /\ r \in Seq(S) /\ Len(r) = Len(a) + Len(b)
      /\ \A i \in 1 .. Len(a) + Len(b) : r[i] = IF i <= Len(a) THEN a[i] ELSE b[i - Len(a)]
    <2>1. a \in Seq(S) /\ b \in Seq(S)
        BY <1>3, <1>4
    <2> QED BY <1>5, <2>1, ConcatProperties
<1>7. Len(r) = n - 1 /\ Len(a) + Len(b) = n - 1
    BY <1>1, <1>3, <1>4, <1>6
<1>8. \A i \in 1 .. n - 1 : r[i] = IF i < k THEN s[i] ELSE s[i + 1]
    <2> SUFFICES ASSUME NEW i \in 1 .. n - 1 PROVE r[i] = IF i < k THEN s[i] ELSE s[i + 1]
        OBVIOUS
    <2>1. r[i] = IF i <= Len(a) THEN a[i] ELSE b[i - Len(a)]
        BY <1>6, <1>7
    <2>2. CASE i < k
        <3>1. i <= Len(a) /\ i \in 1 .. k - 1
            BY <1>3, <2>2
        <3> QED BY <1>3, <2>1, <2>2, <3>1
    <2>3. CASE ~ (i < k)
        <3>1. ~ (i <= Len(a)) /\ i - Len(a) \in 1 .. n - k /\ (k + 1) + (i - Len(a)) - 1 = i + 1
            BY <1>1, <1>3, <2>3
        <3>2. b[i - Len(a)] = s[(k + 1) + (i - Len(a)) - 1]
            BY <1>4, <3>1
        <3> QED BY <2>1, <2>3, <3>1, <3>2
    <2> QED BY <2>2, <2>3
<1> QED BY <1>6, <1>7, <1>8 DEF r

LEMMA InsertedAt ==
    ASSUME NEW S, NEW s \in Seq(S), NEW k \in 1 .. Len(s) + 1, NEW x \in S
    PROVE  /\ InsertAt(s, k, x) \in Seq(S) /\ Len(InsertAt(s, k, x)) = Len(s) + 1
           /\ \A i \in 1 .. Len(s) + 1 :
                InsertAt(s, k, x)[i] = IF i < k THEN s[i] ELSE IF i = k THEN x ELSE s[i - 1]
<1> DEFINE n == Len(s)
           a == SubSeq(s, 1, k - 1)
           o == <<x>>
           b == SubSeq(s, k, n)
           c == a \o o
           r == InsertAt(s, k, x)
<1>1. n \in Nat
    BY LenProperties
<1>2. k - 1 \in 0 .. n
    BY <1>1
<1>3. a \in Seq(S) /\ Len(a) = k - 1 /\ \A i \in 1 .. k - 1 : a[i] = s[i]
    BY <1>2, FrontOf
<1>4. /\ b \in Seq(S) /\ Len(b) = n + 1 - k
      /\ \A i \in 1 .. n + 1 - k : b[i] = s[k + i - 1]
    BY BackOf
<1>5. o \in Seq(S) /\ Len(o) = 1 /\ o[1] = x
    OBVIOUS
<1>6. r = c \o b
    BY DEF InsertAt
<1> HIDE DEF a, b, o, r
<1>7. /\ c \in Seq(S) /\ Len(c) = Len(a) + Len(o)
      /\ \A i \in 1 .. Len(a) + Len(o) : c[i] = IF i <= Len(a) THEN a[i] ELSE o[i - Len(a)]
    <2>1. a \in Seq(S) /\ o \in Seq(S)
        BY <1>3, <1>5
    <2> QED BY <2>1, ConcatProperties
<1>8. Len(c) = k
    BY <1>1, <1>3, <1>5, <1>7
<1> HIDE DEF c
<1>9. /\ r \in Seq(S) /\ Len(r) = Len(c) + Len(b)
      /\ \A i \in 1 .. Len(c) + Len(b) : r[i] = IF i <= Len(c) THEN c[i] ELSE b[i - Len(c)]
    <2>1. c \in Seq(S) /\ b \in Seq(S)
        BY <1>4, <1>7
    <2> QED BY <1>6, <2>1, ConcatProperties
<1>10. Len(r) = n + 1 /\ Len(c) + Len(b) = n + 1
    BY <1>1, <1>4, <1>8, <1>9
<1>11. \A i \in 1 .. n + 1 : r[i] = IF i < k THEN s[i] ELSE IF i = k THEN x ELSE s[i - 1]
    <2> SUFFICES ASSUME NEW i \in 1 .. n + 1
                 PROVE  r[i] = IF i < k THEN s[i] ELSE IF i = k THEN x ELSE s[i - 1]
        OBVIOUS
    <2>1. r[i] = IF i <= k THEN c[i] ELSE b[i - k]
        BY <1>8, <1>9, <1>10
    <2>2. CASE i < k
        <3>1. i <= k /\ i <= Len(a) /\ i \in 1 .. Len(a) + Len(o) /\ i \in 1 .. k - 1
            BY <1>3, <1>5, <2>2
        <3> QED BY <1>3, <1>7, <2>1, <2>2, <3>1
    <2>3. CASE i = k
        <3>1. i <= k /\ ~ (i <= Len(a)) /\ i \in 1 .. Len(a) + Len(o) /\ i - Len(a) = 1
            BY <1>3, <1>5, <2>3
        <3> QED BY <1>5, <1>7, <2>1, <2>3, <3>1
    <2>4. CASE i > k
        <3>1. ~ (i <= k) /\ i - k \in 1 .. n + 1 - k /\ k + (i - k) - 1 = i - 1
            BY <1>1, <2>4
        <3>2. b[i - k] = s[k + (i - k) - 1]
            BY <1>4, <3>1
        <3> QED BY <2>1, <2>4, <3>1, <3>2
    <2> QED BY <2>2, <2>3, <2>4
<1> QED BY <1>9, <1>10, <1>11 DEF r

-----------------------------------------------------------------------------
(* The feeds of a user, newest first.                                      *)

LEMMA FewFeeds == \A S \in SUBSET Feeds : IsFiniteSet(S) /\ Cardinality(S) \in Nat
<1>1. IsFiniteSet(Feeds)
    BY Limits, FS_Interval DEF Feeds
<1> QED BY <1>1, FS_Subset, FS_CardinalityType

LEMMA GreatestFeed ==
    ASSUME NEW S \in SUBSET Feeds, S # {}
    PROVE  \E m \in S : \A x \in S : x <= m
<1>1. S \subseteq 0 .. MaxStamp
    BY Limits DEF Feeds
<1> QED BY <1>1, Limits, Greatest

(* Every set of feeds can be put in order: without its newest feed it can. *)
CanSort(n) ==
    \A S \in SUBSET Feeds : Cardinality(S) = n => \E s \in [1 .. n -> S] : Descends(s)

LEMMA AlwaysSorts == \A n \in Nat : CanSort(n)
<1> SUFFICES ASSUME NEW k \in Nat, ~ CanSort(k) PROVE FALSE
    OBVIOUS
<1> DEFINE Bad == {n \in Nat : ~ CanSort(n)}
<1>1. Bad \subseteq Nat /\ Bad # {}
    OBVIOUS
<1>2. PICK n \in Bad : \A y \in Bad : n <= y
    BY <1>1, Least
<1>3. n \in Nat /\ ~ CanSort(n) /\ \A m \in Nat : m < n => CanSort(m)
    BY <1>2
<1>4. PICK S \in SUBSET Feeds : /\ Cardinality(S) = n
                                /\ ~ \E s \in [1 .. n -> S] : Descends(s)
    BY <1>3 DEF CanSort
<1> HIDE DEF Bad
<1>5. CASE n = 0
    <2>1. <<>> \in [1 .. 0 -> S] /\ DOMAIN <<>> = {}
        OBVIOUS
    <2> QED BY <1>4, <1>5, <2>1 DEF Descends
<1>6. CASE n # 0
    <2>1. S # {}
        BY <1>4, <1>6, FS_EmptySet
    <2>2. PICK m \in S : \A x \in S : x <= m
        BY <2>1, GreatestFeed
    <2> DEFINE T == S \ {m}
    <2>3. T \in SUBSET Feeds /\ Cardinality(T) = n - 1 /\ n - 1 \in Nat /\ n - 1 < n
        BY <1>3, <1>4, <1>6, FewFeeds, FS_RemoveElement
    <2>4. PICK t \in [1 .. n - 1 -> T] : Descends(t)
        BY <1>3, <2>3 DEF CanSort
    <2> DEFINE s == [i \in 1 .. n |-> IF i = 1 THEN m ELSE t[i - 1]]
    <2>5. \A i \in 2 .. n : i - 1 \in 1 .. n - 1 /\ t[i - 1] \in T
        BY <1>3, <2>4
    <2>6. s \in [1 .. n -> S]
        BY <1>3, <2>5
    <2>7. ASSUME NEW i \in 1 .. n, NEW j \in 1 .. n, i < j PROVE s[i] > s[j]
        <3>1. j \in 2 .. n /\ s[j] = t[j - 1] /\ s[j] \in T
            BY <1>3, <2>5, <2>7
        <3>2. CASE i = 1
            <4>1. s[i] = m
                BY <3>2
            <4>2. t[j - 1] <= m /\ t[j - 1] # m /\ t[j - 1] \in Nat /\ m \in Nat
                BY <2>2, <2>5, <3>1, Limits
            <4> QED BY <3>1, <4>1, <4>2
        <3>3. CASE i # 1
            <4>1. i \in 2 .. n /\ s[i] = t[i - 1] /\ i - 1 < j - 1
                BY <1>3, <2>7, <3>3
            <4> QED BY <2>4, <2>5, <3>1, <4>1 DEF Descends
        <3> QED BY <3>2, <3>3
    <2>8. Descends(s)
        BY <2>7 DEF Descends
    <2> QED BY <1>4, <2>6, <2>8
<1> QED BY <1>5, <1>6

LEMMA SortedIs ==
    ASSUME NEW S \in SUBSET Feeds
    PROVE  Sorted(S) \in Seq(Feeds) /\ Descends(Sorted(S)) /\ Range(Sorted(S)) = S
<1> DEFINE n == Cardinality(S)
           s == Sorted(S)
<1>1. n \in Nat /\ IsFiniteSet(S)
    BY FewFeeds
<1>2. s \in [1 .. n -> S] /\ Descends(s)
    <2>1. \E t \in [1 .. n -> S] : \A i, j \in DOMAIN t : i < j => t[i] > t[j]
        BY <1>1, AlwaysSorts DEF CanSort, Descends
    <2> QED BY <2>1 DEF Sorted, Descends
<1> HIDE DEF s
<1>3. s \in Seq(Feeds) /\ DOMAIN s = 1 .. n
    BY <1>1, <1>2
<1>4. s \in Injection(1 .. n, S)
    <2>1. \A i, j \in 1 .. n : s[i] = s[j] => i = j
        BY <1>2, <1>3, DescendsAway
    <2> QED BY <1>2, <2>1 DEF Injection, IsInjective
<1>5. Cardinality(1 .. n) = n
    BY <1>1, FS_Interval
<1>6. s \in Surjection(1 .. n, S)
    BY <1>1, <1>4, <1>5, FS_Injection
<1>7. Range(s) = S
    BY <1>2, <1>3, <1>6 DEF Range, Surjection
<1> QED BY <1>2, <1>3, <1>7 DEF s

(* What Cut leaves out is older than what it keeps.                        *)
LEMMA CutIs ==
    ASSUME NEW s \in Seq(Feeds), Descends(s)
    PROVE  /\ Cut(s) \in Seq(Feeds) /\ Descends(Cut(s)) /\ Len(Cut(s)) <= Size
           /\ Range(Cut(s)) \subseteq Range(s)
           /\ \A x \in Range(s) \ Range(Cut(s)), y \in Range(Cut(s)) : x < y
<1> DEFINE n == Len(s)
           m == Min({n, Size})
           t == Cut(s)
<1>1. n \in Nat /\ DOMAIN s = 1 .. n
    BY LenProperties
<1>2. m \in {n, Size} /\ m <= n /\ m <= Size
    BY <1>1, Limits, Least
<1> HIDE DEF m
<1>3. m \in 0 .. n
    BY <1>1, <1>2, Limits
<1>4. t \in Seq(Feeds) /\ Len(t) = m /\ DOMAIN t = 1 .. m /\ \A i \in 1 .. m : t[i] = s[i]
    BY <1>3, FrontOf DEF Cut, m
<1> HIDE DEF t
<1>5. Descends(t)
    BY <1>1, <1>3, <1>4 DEF Descends
<1>6. Range(t) \subseteq Range(s)
    BY <1>1, <1>3, <1>4 DEF Range
<1>7. ASSUME NEW x \in Range(s) \ Range(t), NEW y \in Range(t) PROVE x < y
    <2>1. PICK i \in 1 .. n : x = s[i]
        BY <1>1 DEF Range
    <2>2. PICK j \in 1 .. m : y = t[j]
        BY <1>4 DEF Range
    <2>3. ~ (i <= m)
        BY <1>4, <2>1 DEF Range
    <2>4. j < i /\ j \in 1 .. n /\ y = s[j]
        BY <1>1, <1>3, <1>4, <2>1, <2>2, <2>3
    <2>5. y > x /\ x \in Nat /\ y \in Nat
        BY <1>1, <2>1, <2>4, ElementOfSeq, Limits DEF Descends
    <2> QED BY <2>5
<1> QED BY <1>2, <1>4, <1>5, <1>6, <1>7 DEF t

(* A list with a new feed in its place.                                    *)
LEMMA InsertedIs ==
    ASSUME NEW s \in Seq(Feeds), Descends(s), NEW f \in Feeds, f \notin Range(s)
    PROVE  /\ InsertedInto(f, s) \in Seq(Feeds) /\ Descends(InsertedInto(f, s))
           /\ Range(InsertedInto(f, s)) = Range(s) \cup {f}
<1> DEFINE n == Len(s)
           older == {i \in DOMAIN s : s[i] <= f}
           k == IF older = {} THEN n + 1 ELSE Min(older)
           r == InsertedInto(f, s)
<1>1. n \in Nat /\ DOMAIN s = 1 .. n /\ f \in Nat /\ \A i \in 1 .. n : s[i] \in Feeds
    BY LenProperties, ElementOfSeq, Limits
<1>2. \A i \in 1 .. n : s[i] \in Nat /\ s[i] # f
    BY <1>1, Limits DEF Range
<1>3. /\ k \in 1 .. n + 1
      /\ \A i \in 1 .. n : i < k => s[i] > f
      /\ \A i \in 1 .. n : i >= k => f > s[i]
    <2>1. CASE older = {}
        BY <1>1, <1>2, <2>1
    <2>2. CASE older # {}
        <3>1. k \in older /\ \A i \in older : k <= i
            <4>1. older \subseteq Nat
                BY <1>1
            <4>2. k = Min(older)
                BY <2>2
            <4> HIDE DEF older, k
            <4>3. Min(older) \in older /\ \A i \in older : Min(older) <= i
                BY <2>2, <4>1, Least
            <4> QED BY <4>2, <4>3
        <3>2. k \in 1 .. n /\ f > s[k]
            BY <1>1, <1>2, <3>1
        <3> HIDE DEF k
        <3>3. ASSUME NEW i \in 1 .. n, i < k PROVE s[i] > f
            <4>1. i \notin older
                BY <1>1, <3>1, <3>2, <3>3
            <4> QED BY <1>1, <1>2, <4>1
        <3>4. ASSUME NEW i \in 1 .. n, i >= k PROVE f > s[i]
            <4>1. i = k \/ k < i
                BY <3>2, <3>4
            <4>2. CASE k < i
                <5>1. s[k] > s[i]
                    BY <1>1, <3>2, <4>2 DEF Descends
                <5> QED BY <1>1, <1>2, <3>2, <5>1
            <4> QED BY <3>2, <4>1, <4>2
        <3> QED BY <1>1, <3>2, <3>3, <3>4
    <2> QED BY <2>1, <2>2
<1>4. r = InsertAt(s, k, f)
    BY DEF InsertedInto
<1> HIDE DEF k, r
<1>5. /\ r \in Seq(Feeds) /\ Len(r) = n + 1 /\ DOMAIN r = 1 .. n + 1
      /\ \A i \in 1 .. n + 1 : r[i] = IF i < k THEN s[i] ELSE IF i = k THEN f ELSE s[i - 1]
    <2> DEFINE a == InsertAt(s, k, f)
    <2>1. /\ a \in Seq(Feeds) /\ Len(a) = n + 1
          /\ \A i \in 1 .. n + 1 : a[i] = IF i < k THEN s[i] ELSE IF i = k THEN f ELSE s[i - 1]
        BY <1>3, InsertedAt
    <2> HIDE DEF a
    <2>2. DOMAIN a = 1 .. n + 1
        BY <2>1, LenProperties
    <2> QED BY <1>4, <2>1, <2>2 DEF a
<1>6. ASSUME NEW i \in 1 .. n + 1, NEW j \in 1 .. n + 1, i < j PROVE r[i] > r[j]
    <2>1. CASE j < k
        <3>1. i \in 1 .. n /\ j \in 1 .. n /\ r[i] = s[i] /\ r[j] = s[j]
            BY <1>1, <1>3, <1>5, <1>6, <2>1
        <3> QED BY <1>1, <1>6, <3>1 DEF Descends
    <2>2. CASE j = k
        <3>1. i \in 1 .. n /\ i < k /\ r[i] = s[i] /\ r[j] = f
            BY <1>1, <1>3, <1>5, <1>6, <2>2
        <3> QED BY <1>3, <3>1
    <2>3. CASE j > k /\ i < k
        <3>1. i \in 1 .. n /\ j - 1 \in 1 .. n /\ i < j - 1 /\ r[i] = s[i] /\ r[j] = s[j - 1]
            BY <1>1, <1>3, <1>5, <1>6, <2>3
        <3> QED BY <1>1, <3>1 DEF Descends
    <2>4. CASE j > k /\ i = k
        <3>1. j - 1 \in 1 .. n /\ j - 1 >= k /\ r[i] = f /\ r[j] = s[j - 1]
            BY <1>1, <1>3, <1>5, <1>6, <2>4
        <3> QED BY <1>3, <3>1
    <2>5. CASE j > k /\ i > k
        <3>1. /\ i - 1 \in 1 .. n /\ j - 1 \in 1 .. n /\ i - 1 < j - 1
              /\ r[i] = s[i - 1] /\ r[j] = s[j - 1]
            BY <1>1, <1>3, <1>5, <1>6, <2>5
        <3> QED BY <1>1, <3>1 DEF Descends
    <2> QED BY <1>3, <2>1, <2>2, <2>3, <2>4, <2>5
<1>7. ASSUME NEW x \in Range(s) \cup {f} PROVE \E i \in 1 .. n + 1 : r[i] = x
    <2>1. CASE x = f
        BY <1>3, <1>5, <2>1
    <2>2. CASE x \in Range(s)
        <3>1. PICK i \in 1 .. n : s[i] = x
            BY <1>1, <2>2 DEF Range
        <3>2. CASE i < k
            BY <1>1, <1>3, <1>5, <3>1, <3>2
        <3>3. CASE ~ (i < k)
            <4>1. i + 1 \in 1 .. n + 1 /\ ~ (i + 1 < k) /\ i + 1 # k /\ (i + 1) - 1 = i
                BY <1>1, <1>3, <3>3
            <4> QED BY <1>5, <3>1, <4>1
        <3> QED BY <3>2, <3>3
    <2> QED BY <2>1, <2>2
<1>8. ASSUME NEW i \in 1 .. n + 1 PROVE r[i] \in Range(s) \cup {f}
    <2>1. (i < k => i \in 1 .. n) /\ (i > k => i - 1 \in 1 .. n) /\ (i < k \/ i = k \/ i > k)
        BY <1>1, <1>3
    <2> QED BY <1>1, <1>3, <1>5, <2>1 DEF Range
<1>9. Range(r) = Range(s) \cup {f}
    <2>1. Range(r) = {r[i] : i \in 1 .. n + 1}
        BY <1>5 DEF Range
    <2> QED BY <1>7, <1>8, <2>1
<1>10. Descends(r)
    BY <1>5, <1>6 DEF Descends
<1> QED BY <1>5, <1>9, <1>10 DEF r

(* A list without a feed.                                                  *)
LEMMA WithoutIs ==
    ASSUME NEW s \in Seq(Feeds), Descends(s), NEW g
    PROVE  /\ Without(g, s) \in Seq(Feeds) /\ Descends(Without(g, s))
           /\ Range(Without(g, s)) = Range(s) \ {g}
<1>1. CASE g \notin Range(s)
    BY <1>1 DEF Without
<1>2. CASE g \in Range(s)
    <2> DEFINE n == Len(s)
               k == Min({i \in DOMAIN s : s[i] = g})
               r == Without(g, s)
    <2>1. n \in Nat /\ DOMAIN s = 1 .. n
        BY LenProperties
    <2>2. k \in 1 .. n /\ s[k] = g
        <3> DEFINE at == {i \in DOMAIN s : s[i] = g}
        <3>1. at \subseteq Nat /\ at # {}
            BY <1>2, <2>1 DEF Range
        <3>2. Min(at) \in at
            BY <3>1, Least
        <3> QED BY <2>1, <3>2
    <2>3. r = RemoveAt(s, k)
        BY <1>2 DEF Without
    <2> HIDE DEF k, r
    <2>4. /\ r \in Seq(Feeds) /\ Len(r) = n - 1
          /\ \A i \in 1 .. n - 1 : r[i] = IF i < k THEN s[i] ELSE s[i + 1]
        BY <2>2, <2>3, RemovedAt
    <2>5. DOMAIN r = 1 .. n - 1
        BY <2>4, LenProperties
    <2>6. ASSUME NEW i \in 1 .. n - 1, NEW j \in 1 .. n - 1, i < j PROVE r[i] > r[j]
        <3>1. CASE j < k
            <4>1. i \in 1 .. n /\ j \in 1 .. n /\ r[i] = s[i] /\ r[j] = s[j]
                BY <2>1, <2>2, <2>4, <2>6, <3>1
            <4> QED BY <2>1, <2>6, <4>1 DEF Descends
        <3>2. CASE ~ (j < k) /\ i < k
            <4>1. i \in 1 .. n /\ j + 1 \in 1 .. n /\ r[i] = s[i] /\ r[j] = s[j + 1] /\ i < j + 1
                BY <2>1, <2>2, <2>4, <2>6, <3>2
            <4> QED BY <2>1, <4>1 DEF Descends
        <3>3. CASE ~ (j < k) /\ ~ (i < k)
            <4>1. /\ i + 1 \in 1 .. n /\ j + 1 \in 1 .. n /\ i + 1 < j + 1
                  /\ r[i] = s[i + 1] /\ r[j] = s[j + 1]
                BY <2>1, <2>2, <2>4, <2>6, <3>3
            <4> QED BY <2>1, <4>1 DEF Descends
        <3> QED BY <3>1, <3>2, <3>3
    <2>7. ASSUME NEW i \in 1 .. n - 1 PROVE r[i] \in Range(s) \ {g}
        <3>1. \E j \in 1 .. n : j # k /\ r[i] = s[j]
            <4>1. (i < k => i \in 1 .. n /\ i # k) /\ (~ (i < k) => i + 1 \in 1 .. n /\ i + 1 # k)
                BY <2>1, <2>2
            <4> QED BY <2>4, <4>1
        <3> QED BY <2>1, <2>2, <3>1, DescendsAway DEF Range
    <2>8. ASSUME NEW x \in Range(s) \ {g} PROVE \E i \in 1 .. n - 1 : r[i] = x
        <3>1. PICK j \in 1 .. n : s[j] = x
            BY <2>1, <2>8 DEF Range
        <3>2. j # k
            BY <2>2, <2>8, <3>1
        <3>3. CASE j < k
            <4>1. j \in 1 .. n - 1
                BY <2>1, <2>2, <3>3
            <4> QED BY <2>4, <3>1, <3>3, <4>1
        <3>4. CASE ~ (j < k)
            <4>1. j - 1 \in 1 .. n - 1 /\ ~ (j - 1 < k) /\ (j - 1) + 1 = j
                BY <2>1, <2>2, <3>2, <3>4
            <4> QED BY <2>4, <3>1, <4>1
        <3> QED BY <3>3, <3>4
    <2>9. Range(r) = Range(s) \ {g}
        BY <2>5, <2>7, <2>8 DEF Range
    <2>10. Descends(r)
        BY <2>5, <2>6 DEF Descends
    <2> QED BY <2>4, <2>9, <2>10 DEF r
<1> QED BY <1>1, <1>2

-----------------------------------------------------------------------------
(* The changes.                                                            *)

Added(o) == IF o.kind \in {"insert", "update"} THEN {o.new} ELSE {}
Old(o) == IF o.kind \in {"update", "delete"} THEN {o.old} ELSE {}
Inserts == {Insert(f) : f \in Feeds}
Updates == {Update(f, g) : f, g \in Feeds}
Deletes == {Delete(g) : g \in Feeds}
Ops == Inserts \cup Updates \cup Deletes

LEMMA OpIs ==
    /\ Added(NoOp) = {} /\ Old(NoOp) = {} /\ ~ Refused(NoOp)
    /\ \A f, g : /\ Added(Insert(f)) = {f} /\ Old(Insert(f)) = {}
                 /\ Added(Update(f, g)) = {f} /\ Old(Update(f, g)) = {g}
                 /\ Added(Delete(g)) = {} /\ Old(Delete(g)) = {g}
                 /\ ~ Refused(Insert(f)) /\ ~ Refused(Delete(g))
                 /\ NoOp \notin {Insert(f), Update(f, g), Delete(g)}
BY DEF Added, Old, NoOp, Insert, Update, Delete, Refused

LEMMA OpsAre ==
    ASSUME NEW o \in Ops \cup {NoOp}
    PROVE  Added(o) \subseteq Feeds /\ Old(o) \subseteq Feeds
BY OpIs DEF Ops, Inserts, Updates, Deletes

LEMMA AddedOrIs ==
    ASSUME NEW f \in Feeds, NEW s \in Seq(Feeds), Descends(s)
    PROVE  /\ AddedOr(f, s) \in Seq(Feeds) /\ Descends(AddedOr(f, s))
           /\ Range(AddedOr(f, s)) = Range(s) \cup {f}
<1>1. CASE f \in Range(s)
    BY <1>1 DEF AddedOr
<1>2. CASE f \notin Range(s)
    BY <1>2, InsertedIs DEF AddedOr
<1> QED BY <1>1, <1>2

(* What a change leaves of a list with the new feed and without the old one. *)
Fits(t, all) ==
    /\ t \in Seq(Feeds) /\ Descends(t) /\ Len(t) <= Size /\ Range(t) \subseteq all
    /\ \A x \in all \ Range(t), y \in Range(t) : x < y

LEMMA ChangedIs ==
    ASSUME NEW o \in Ops, NEW s \in Seq(Feeds), Descends(s)
    PROVE  Fits(Changed(o, s), (Range(s) \cup Added(o)) \ Old(o))
<1>1. CASE o \in Inserts
    <2>1. PICK f \in Feeds : o = Insert(f)
        BY <1>1 DEF Inserts
    <2>2. Changed(o, s) = Cut(AddedOr(f, s))
        BY <2>1 DEF Changed, Insert
    <2>3. (Range(s) \cup Added(o)) \ Old(o) = Range(AddedOr(f, s))
        BY <2>1, OpIs, AddedOrIs
    <2> QED BY <2>2, <2>3, AddedOrIs, CutIs DEF Fits
<1>2. CASE o \in Updates
    <2>1. PICK f, g \in Feeds : o = Update(f, g)
        BY <1>2 DEF Updates
    <2> DEFINE t == AddedOr(f, s)
               r == Without(g, t)
    <2>2. Changed(o, s) = Cut(r)
        BY <2>1 DEF Changed, Update
    <2>3. t \in Seq(Feeds) /\ Descends(t) /\ Range(t) = Range(s) \cup {f}
        BY AddedOrIs
    <2> HIDE DEF t
    <2>4. r \in Seq(Feeds) /\ Descends(r) /\ Range(r) = Range(t) \ {g}
        BY <2>3, WithoutIs
    <2>5. (Range(s) \cup Added(o)) \ Old(o) = Range(r)
        BY <2>1, <2>3, <2>4, OpIs
    <2> HIDE DEF r
    <2> QED BY <2>2, <2>4, <2>5, CutIs DEF Fits
<1>3. CASE o \in Deletes
    <2>1. PICK g \in Feeds : o = Delete(g)
        BY <1>3 DEF Deletes
    <2> DEFINE r == Without(g, s)
    <2>2. Changed(o, s) = Cut(r)
        BY <2>1 DEF Changed, Delete
    <2>3. r \in Seq(Feeds) /\ Descends(r) /\ Range(r) = Range(s) \ {g}
        BY WithoutIs
    <2>4. (Range(s) \cup Added(o)) \ Old(o) = Range(r)
        BY <2>1, <2>3, OpIs
    <2> HIDE DEF r
    <2> QED BY <2>2, <2>3, <2>4, CutIs DEF Fits
<1> QED BY <1>1, <1>2, <1>3 DEF Ops

(* A list that holds the newest feeds, in order, is a front of all of them. *)
LEMMA NewestAre ==
    ASSUME NEW S \in SUBSET Feeds, NEW s \in Seq(Feeds), Descends(s), Range(s) \subseteq S,
           \A x \in S \ Range(s), y \in Range(s) : x < y
    PROVE  s = SubSeq(Sorted(S), 1, Len(s))
<1> DEFINE t == Sorted(S)
           n == Len(s)
           m == Len(t)
<1>1. t \in Seq(Feeds) /\ Descends(t) /\ Range(t) = S
    BY SortedIs
<1> HIDE DEF t
<1>2. /\ n \in Nat /\ m \in Nat /\ DOMAIN s = 1 .. n /\ DOMAIN t = 1 .. m
      /\ \A i \in 1 .. n : s[i] \in Nat /\ s[i] \in S
      /\ \A i \in 1 .. m : t[i] \in Nat /\ t[i] \in S
    <2>1. n \in Nat /\ m \in Nat /\ DOMAIN s = 1 .. n /\ DOMAIN t = 1 .. m
        BY <1>1, LenProperties
    <2>2. (\A i \in 1 .. n : s[i] \in Range(s)) /\ \A i \in 1 .. m : t[i] \in Range(t)
        BY <2>1 DEF Range
    <2> QED BY <1>1, <2>1, <2>2, Limits
<1> DEFINE Bad == {i \in 1 .. n : ~ (i \in 1 .. m /\ s[i] = t[i])}
<1>3. Bad = {}
    <2> SUFFICES ASSUME Bad # {} PROVE FALSE
        OBVIOUS
    <2>1. Bad \subseteq Nat
        BY <1>2
    <2> HIDE DEF Bad
    <2>2. PICK i \in Bad : \A y \in Bad : i <= y
        BY <2>1, Least
    <2>3. i \in 1 .. n /\ ~ (i \in 1 .. m /\ s[i] = t[i])
        BY <2>2 DEF Bad
    <2>4. \A j \in 1 .. n : j < i => j \in 1 .. m /\ s[j] = t[j]
        BY <1>2, <2>2, <2>3 DEF Bad
    (* s[i] is in t, and not among the i - 1 that both have in front.      *)
    <2>5. PICK k \in 1 .. m : t[k] = s[i]
        BY <1>1, <1>2, <2>3 DEF Range
    <2>6. ~ (k < i)
        <3> SUFFICES ASSUME k < i PROVE FALSE
            OBVIOUS
        <3>1. k \in 1 .. n /\ s[k] = s[i]
            BY <1>2, <2>3, <2>4, <2>5
        <3>2. k = i
            BY <2>3, <3>1, DescendsAway
        <3> QED BY <3>2
    <2>7. k > i /\ i \in 1 .. m
        BY <1>2, <2>3, <2>5, <2>6
    (* so t[i] is newer than it, and s has it, in front of i.              *)
    <2>8. t[i] > s[i]
        BY <1>1, <1>2, <2>5, <2>7 DEF Descends
    <2>9. t[i] \in Range(s)
        <3>1. s[i] \in Range(s)
            BY <1>2, <2>3 DEF Range
        <3>2. ~ (t[i] < s[i])
            BY <1>2, <2>3, <2>7, <2>8
        <3> QED BY <1>2, <2>7, <3>1, <3>2
    <2>10. PICK j \in 1 .. n : s[j] = t[i]
        BY <1>2, <2>9 DEF Range
    <2>11. j < i
        BY <2>3, <2>8, <2>10, DescendsAway
    <2>12. t[j] = t[i] /\ j \in 1 .. m
        BY <2>4, <2>10, <2>11
    <2>13. j = i
        BY <1>1, <2>7, <2>12, DescendsAway
    <2> QED BY <2>11, <2>13, <2>3
<1>4. n \in 0 .. m /\ \A i \in 1 .. n : s[i] = t[i]
    <2>1. \A i \in 1 .. n : i \in 1 .. m /\ s[i] = t[i]
        BY <1>3
    <2>2. n = 0 \/ n \in 1 .. n
        BY <1>2
    <2> QED BY <1>2, <2>1, <2>2
<1> HIDE DEF n, m, Bad
<1> DEFINE f == SubSeq(t, 1, n)
<1>5. f \in Seq(Feeds) /\ Len(f) = n /\ \A i \in 1 .. n : f[i] = t[i]
    BY <1>1, <1>4, FrontOf DEF m
<1> HIDE DEF f
<1>6. s = f
    <2>1. Len(s) = Len(f) /\ \A i \in 1 .. Len(s) : s[i] = f[i]
        BY <1>4, <1>5 DEF n
    <2> QED BY <1>5, <2>1, SeqEqual
<1> QED BY <1>6 DEF f, t, n

-----------------------------------------------------------------------------
(* The feeds of several users in one answer of the storage.                *)

Entries == Users \X Feeds
Filled(feeds, u) == {feeds[i][2] : i \in {j \in DOMAIN feeds : feeds[j][1] = u}}
Askers(feeds) == {feeds[i][1] : i \in DOMAIN feeds}
Runs(feeds) ==
    \A i, j \in DOMAIN feeds : i < j /\ feeds[i][1] = feeds[j][1] =>
        /\ feeds[i][2] > feeds[j][2] /\ j - i < Size
        /\ \A k \in i .. j : feeds[k][1] = feeds[i][1]

(* What the storage has of one user. *)
Block(u) == [j \in DOMAIN Newest(u) |-> <<u, Newest(u)[j]>>]
IsBlock(b, u, R) ==
    /\ b \in Seq(Entries) /\ Len(b) <= Size /\ {b[i][2] : i \in DOMAIN b} = R
    /\ \A i \in DOMAIN b : b[i][1] = u
    /\ \A i, j \in DOMAIN b : i < j => b[i][2] > b[j][2]

LEMMA BlockIs ==
    ASSUME NEW u \in Users, storage[u] \in SUBSET Feeds
    PROVE  IsBlock(Block(u), u, Range(Newest(u)))
<1> DEFINE s == Newest(u)
           b == Block(u)
<1>1. s \in Seq(Feeds) /\ Descends(s) /\ Len(s) <= Size
    BY SortedIs, CutIs DEF Newest
<1> HIDE DEF s
<1>2. Len(s) \in Nat /\ DOMAIN s = 1 .. Len(s) /\ \A j \in 1 .. Len(s) : s[j] \in Feeds
    BY <1>1, LenProperties, ElementOfSeq
<1>3. b = [j \in 1 .. Len(s) |-> <<u, s[j]>>]
    BY <1>2 DEF Block, s
<1> HIDE DEF b
<1>4. /\ b \in Seq(Entries) /\ DOMAIN b = 1 .. Len(s) /\ Len(b) = Len(s)
      /\ \A j \in 1 .. Len(s) : b[j][1] = u /\ b[j][2] = s[j]
    <2>1. \A j \in 1 .. Len(s) : <<u, s[j]>> \in Entries
        BY <1>2 DEF Entries
    <2>2. b \in [1 .. Len(s) -> Entries]
        BY <1>3, <2>1
    <2>3. b \in Seq(Entries) /\ DOMAIN b = 1 .. Len(s)
        BY <1>2, <2>2
    <2>4. Len(b) = Len(s)
        BY <1>2, <2>3, LenProperties
    <2> QED BY <1>3, <2>3, <2>4
<1>5. {b[i][2] : i \in DOMAIN b} = Range(s)
    BY <1>2, <1>4 DEF Range
<1>6. \A i, j \in DOMAIN b : i < j => b[i][2] > b[j][2]
    BY <1>1, <1>2, <1>4 DEF Descends
<1> QED BY <1>1, <1>4, <1>5, <1>6 DEF IsBlock, b, s

LEMMA JoinedIs ==
    ASSUME NEW a \in Seq(Entries), NEW b, NEW u, NEW R,
           Runs(a), IsBlock(b, u, R), u \notin Askers(a)
    PROVE  /\ a \o b \in Seq(Entries) /\ Runs(a \o b) /\ Askers(a \o b) \subseteq Askers(a) \cup {u}
           /\ Filled(a \o b, u) = R /\ \A v : v # u => Filled(a \o b, v) = Filled(a, v)
<1> DEFINE n == Len(a)
           m == Len(b)
           c == a \o b
<1>1. b \in Seq(Entries) /\ m \in Nat /\ n \in Nat /\ DOMAIN a = 1 .. n /\ DOMAIN b = 1 .. m
    BY LenProperties DEF IsBlock
<1>2. /\ c \in Seq(Entries) /\ Len(c) = n + m
      /\ \A i \in 1 .. n + m : c[i] = IF i <= n THEN a[i] ELSE b[i - n]
    BY <1>1, ConcatProperties
<1> HIDE DEF c, n, m
<1>3. DOMAIN c = 1 .. n + m
    BY <1>2, LenProperties
<1>4. \A i \in 1 .. n : i \in 1 .. n + m /\ c[i] = a[i] /\ c[i][1] # u /\ c[i][1] \in Askers(a)
    <2> SUFFICES ASSUME NEW i \in 1 .. n
                 PROVE  i \in 1 .. n + m /\ c[i] = a[i] /\ c[i][1] # u /\ c[i][1] \in Askers(a)
        OBVIOUS
    <2>1. i \in 1 .. n + m /\ i <= n
        BY <1>1
    <2>2. c[i] = a[i]
        BY <1>2, <2>1
    <2> QED BY <1>1, <2>1, <2>2 DEF Askers
<1>5. \A i \in 1 .. m : i + n \in 1 .. n + m /\ c[i + n] = b[i] /\ c[i + n][1] = u
    <2> SUFFICES ASSUME NEW i \in 1 .. m
                 PROVE  i + n \in 1 .. n + m /\ c[i + n] = b[i] /\ c[i + n][1] = u
        OBVIOUS
    <2>1. i + n \in 1 .. n + m /\ ~ (i + n <= n) /\ (i + n) - n = i
        BY <1>1
    <2>2. c[i + n] = b[i]
        BY <1>2, <2>1
    <2> QED BY <1>1, <2>1, <2>2 DEF IsBlock
<1>6. \A i \in 1 .. n + m : i \in 1 .. n \/ (i - n \in 1 .. m /\ c[i] = b[i - n] /\ c[i][1] = u)
    <2> SUFFICES ASSUME NEW i \in 1 .. n + m, ~ (i \in 1 .. n)
                 PROVE  i - n \in 1 .. m /\ c[i] = b[i - n] /\ c[i][1] = u
        OBVIOUS
    <2>1. i - n \in 1 .. m /\ (i - n) + n = i
        BY <1>1
    <2> QED BY <1>5, <2>1
<1>7. Runs(c)
    <2> SUFFICES ASSUME NEW i \in 1 .. n + m, NEW j \in 1 .. n + m, i < j, c[i][1] = c[j][1]
                 PROVE  /\ c[i][2] > c[j][2] /\ j - i < Size
                        /\ \A k \in i .. j : c[k][1] = c[i][1]
        BY <1>3 DEF Runs
    <2>1. CASE i \in 1 .. n /\ j \in 1 .. n
        <3>1. /\ a[i][2] > a[j][2] /\ j - i < Size
              /\ \A k \in i .. j : a[k][1] = a[i][1]
            BY <1>1, <1>4, <2>1 DEF Runs
        <3>2. \A k \in i .. j : k \in 1 .. n
            BY <1>1, <2>1
        <3> QED BY <1>4, <2>1, <3>1, <3>2
    <2>2. CASE i \notin 1 .. n /\ j \notin 1 .. n
        <3>1. /\ i - n \in 1 .. m /\ j - n \in 1 .. m /\ c[i] = b[i - n] /\ c[j] = b[j - n]
              /\ c[i][1] = u
            BY <1>6, <2>2
        <3>2. i - n < j - n /\ m <= Size
            BY <1>1 DEF IsBlock, m
        <3>3. c[i][2] > c[j][2]
            BY <1>1, <3>1, <3>2 DEF IsBlock
        <3>4. j - i < Size
            BY <1>1, <3>1, <3>2, Limits
        <3>5. \A k \in i .. j : k \in 1 .. n + m /\ k \notin 1 .. n
            BY <1>1, <2>2
        <3> QED BY <1>6, <3>1, <3>3, <3>4, <3>5
    <2>3. ~ (i \in 1 .. n /\ j \notin 1 .. n)
        BY <1>4, <1>6
    <2>4. ~ (i \notin 1 .. n /\ j \in 1 .. n)
        BY <1>4, <1>6
    <2> QED BY <2>1, <2>2, <2>3, <2>4
<1>8. Askers(c) \subseteq Askers(a) \cup {u}
    BY <1>3, <1>4, <1>6 DEF Askers
<1>9. Filled(c, u) = R
    <2>1. Filled(c, u) = {c[i][2] : i \in {j \in 1 .. n + m : c[j][1] = u}}
        BY <1>3 DEF Filled
    <2>2. R = {b[i][2] : i \in 1 .. m}
        BY <1>1 DEF IsBlock
    <2>3. ASSUME NEW i \in 1 .. n + m, c[i][1] = u PROVE c[i][2] \in R
        BY <1>4, <1>6, <2>2, <2>3
    <2>4. ASSUME NEW i \in 1 .. m PROVE b[i][2] \in Filled(c, u)
        <3>1. i + n \in 1 .. n + m /\ c[i + n] = b[i] /\ c[i + n][1] = u
            BY <1>5
        <3> QED BY <2>1, <3>1
    <2> QED BY <2>1, <2>2, <2>3, <2>4
<1>10. ASSUME NEW v, v # u PROVE Filled(c, v) = Filled(a, v)
    <2>1. Filled(c, v) = {c[i][2] : i \in {j \in 1 .. n + m : c[j][1] = v}}
        BY <1>3 DEF Filled
    <2>2. Filled(a, v) = {a[i][2] : i \in {j \in 1 .. n : a[j][1] = v}}
        BY <1>1 DEF Filled
    <2>3. {j \in 1 .. n + m : c[j][1] = v} = {j \in 1 .. n : a[j][1] = v}
        BY <1>4, <1>6, <1>10
    <2>4. \A i \in {j \in 1 .. n : a[j][1] = v} : c[i] = a[i]
        BY <1>4
    <2> QED BY <2>1, <2>2, <2>3, <2>4
<1> QED BY <1>2, <1>7, <1>8, <1>9, <1>10 DEF c

LEMMA OneBlock ==
    ASSUME NEW b, NEW u, NEW R, IsBlock(b, u, R)
    PROVE  /\ b \in Seq(Entries) /\ Runs(b) /\ Askers(b) \subseteq {u} /\ Filled(b, u) = R
           /\ \A v : v # u => Filled(b, v) = {}
<1>1. b \in Seq(Entries) /\ Len(b) \in Nat /\ DOMAIN b = 1 .. Len(b) /\ Len(b) <= Size
    BY LenProperties DEF IsBlock
<1>2. Runs(b)
    <2> SUFFICES ASSUME NEW i \in 1 .. Len(b), NEW j \in 1 .. Len(b), i < j
                 PROVE  /\ b[i][2] > b[j][2] /\ j - i < Size
                        /\ \A k \in i .. j : b[k][1] = b[i][1]
        BY <1>1 DEF Runs
    <2>1. b[i][2] > b[j][2]
        BY <1>1 DEF IsBlock
    <2>2. j - i < Size
        BY <1>1, Limits
    <2>3. \A k \in i .. j : k \in 1 .. Len(b)
        BY <1>1
    <2> QED BY <1>1, <2>1, <2>2, <2>3 DEF IsBlock
<1>3. Askers(b) \subseteq {u} /\ Filled(b, u) = R /\ \A v : v # u => Filled(b, v) = {}
    BY DEF IsBlock, Askers, Filled
<1> QED BY <1>1, <1>2, <1>3

(* FlattenSeq joins the parts one after the other.                         *)
Joins(g, seqs, n) == g = [i \in 1 .. n |-> IF i = 1 THEN seqs[i] ELSE g[i - 1] \o seqs[i]]
CanJoin(seqs, n) == \E g : Joins(g, seqs, n)

LEMMA AlwaysJoins == \A seqs : \A n \in Nat : CanJoin(seqs, n)
<1> SUFFICES ASSUME NEW seqs, NEW k \in Nat, ~ CanJoin(seqs, k) PROVE FALSE
    OBVIOUS
<1> DEFINE Bad == {n \in Nat : ~ CanJoin(seqs, n)}
<1>1. Bad \subseteq Nat /\ Bad # {}
    OBVIOUS
<1> HIDE DEF Bad
<1>2. PICK n \in Bad : \A y \in Bad : n <= y
    BY <1>1, Least
<1>3. n \in Nat /\ ~ CanJoin(seqs, n) /\ \A m \in Nat : m < n => CanJoin(seqs, m)
    BY <1>2 DEF Bad
<1>4. CASE n = 0
    <2>1. Joins(<<>>, seqs, 0)
        BY DEF Joins
    <2> QED BY <1>3, <1>4, <2>1 DEF CanJoin
<1>5. CASE n # 0
    <2>1. n - 1 \in Nat /\ n - 1 < n
        BY <1>3, <1>5
    <2>2. PICK h : Joins(h, seqs, n - 1)
        BY <1>3, <2>1 DEF CanJoin
    <2>3. \A i \in 1 .. n - 1 : h[i] = IF i = 1 THEN seqs[i] ELSE h[i - 1] \o seqs[i]
        BY <2>2 DEF Joins
    <2> DEFINE last == IF n = 1 THEN seqs[n] ELSE h[n - 1] \o seqs[n]
               g == [i \in 1 .. n |-> IF i = n THEN last ELSE h[i]]
    <2> HIDE DEF last
    <2>4. ASSUME NEW i \in 1 .. n
          PROVE  g[i] = IF i = 1 THEN seqs[i] ELSE g[i - 1] \o seqs[i]
        <3>1. CASE i = n
            <4>1. g[i] = last
                BY <3>1
            <4>2. n # 1 => g[i - 1] = h[n - 1]
                BY <1>3, <3>1
            <4> HIDE DEF g
            <4> QED BY <3>1, <4>1, <4>2 DEF last
        <3>2. CASE i # n
            <4>1. i \in 1 .. n - 1 /\ g[i] = h[i]
                BY <1>3, <3>2
            <4>2. i # 1 => g[i - 1] = h[i - 1]
                BY <1>3, <4>1
            <4> HIDE DEF g
            <4> QED BY <2>3, <4>1, <4>2
        <3> QED BY <3>1, <3>2
    <2>5. g = [i \in 1 .. n |-> IF i = 1 THEN seqs[i] ELSE g[i - 1] \o seqs[i]]
        <3>1. g = [i \in 1 .. n |-> g[i]]
            OBVIOUS
        <3> HIDE DEF g
        <3> QED BY <2>4, <3>1
    <2> HIDE DEF g
    <2>6. Joins(g, seqs, n)
        BY <2>5 DEF Joins
    <2> QED BY <1>3, <2>6 DEF CanJoin
<1> QED BY <1>4, <1>5

LEMMA FlattenIs ==
    ASSUME NEW seqs, Len(seqs) \in Nat, Len(seqs) # 0
    PROVE  \E g : /\ FlattenSeq(seqs) = g[Len(seqs)]
                  /\ \A i \in 1 .. Len(seqs) :
                       g[i] = IF i = 1 THEN seqs[i] ELSE g[i - 1] \o seqs[i]
<1> DEFINE n == Len(seqs)
           G == CHOOSE g : Joins(g, seqs, n)
<1>1. Joins(G, seqs, n)
    BY AlwaysJoins DEF CanJoin
<1>2. FlattenSeq(seqs) = G[n]
    BY DEF FlattenSeq, Joins
<1>3. \A i \in 1 .. n : G[i] = IF i = 1 THEN seqs[i] ELSE G[i - 1] \o seqs[i]
    BY <1>1 DEF Joins
<1> QED BY <1>2, <1>3

(* The answer has the newest feeds of each user it was asked for.          *)
LEMMA AnswerIs ==
    ASSUME NEW n \in Nat \ {0}, NEW keys \in [1 .. n -> Users],
           \A i, j \in 1 .. n : i # j => keys[i] # keys[j],
           \A u \in Users : storage[u] \in SUBSET Feeds
    PROVE  /\ Answer(keys) \in Seq(Entries) /\ Runs(Answer(keys))
           /\ \A u \in Users : Filled(Answer(keys), u) \in {{}, Range(Newest(u))}
<1> DEFINE seqs == [i \in 1 .. n |-> Block(keys[i])]
<1>1. Answer(keys) = FlattenSeq(seqs)
    BY DEF Answer, Block
<1>2. Len(seqs) = n
    BY LenProperties
<1>3. \A i \in 1 .. n : seqs[i] = Block(keys[i])
    OBVIOUS
<1> HIDE DEF seqs
<1>4. PICK g : /\ FlattenSeq(seqs) = g[n]
               /\ \A i \in 1 .. n : g[i] = IF i = 1 THEN seqs[i] ELSE g[i - 1] \o seqs[i]
    <2>1. Len(seqs) \in Nat /\ Len(seqs) # 0
        BY <1>2
    <2>2. \E g : /\ FlattenSeq(seqs) = g[Len(seqs)]
                 /\ \A i \in 1 .. Len(seqs) :
                      g[i] = IF i = 1 THEN seqs[i] ELSE g[i - 1] \o seqs[i]
        BY <2>1, FlattenIs
    <2> QED BY <1>2, <2>2
<1> DEFINE Part(i) ==
               /\ g[i] \in Seq(Entries) /\ Runs(g[i])
               /\ Askers(g[i]) \subseteq {keys[k] : k \in 1 .. i}
               /\ \A u \in Users : Filled(g[i], u) \in {{}, Range(Newest(u))}
           Bad == {i \in 1 .. n : ~ Part(i)}
<1>5. \A i \in 1 .. n : IsBlock(seqs[i], keys[i], Range(Newest(keys[i]))) /\ keys[i] \in Users
    BY <1>3, BlockIs
<1>6. Part(1)
    <2> DEFINE b == g[1]
    <2>1. b = seqs[1] /\ 1 \in 1 .. n
        BY <1>4
    <2>2. IsBlock(b, keys[1], Range(Newest(keys[1])))
        BY <1>5, <2>1
    <2> HIDE DEF b
    <2>3. /\ b \in Seq(Entries) /\ Runs(b) /\ Askers(b) \subseteq {keys[1]}
          /\ Filled(b, keys[1]) = Range(Newest(keys[1]))
          /\ \A v : v # keys[1] => Filled(b, v) = {}
        BY <2>2, OneBlock
    <2>4. keys[1] \in {keys[k] : k \in 1 .. 1}
        OBVIOUS
    <2>5. \A u \in Users : Filled(b, u) \in {{}, Range(Newest(u))}
        BY <2>3
    <2> QED BY <2>3, <2>4, <2>5 DEF b
<1>7. ASSUME NEW i \in 1 .. n, i # 1, Part(i - 1) PROVE Part(i)
    <2> DEFINE a == g[i - 1]
               c == g[i]
               v == keys[i]
    <2>1. c = a \o seqs[i]
        BY <1>4, <1>7
    <2>2. /\ a \in Seq(Entries) /\ Runs(a) /\ Askers(a) \subseteq {keys[k] : k \in 1 .. i - 1}
          /\ \A u \in Users : Filled(a, u) \in {{}, Range(Newest(u))}
        BY <1>7
    <2>3. \A k \in 1 .. i - 1 : k \in 1 .. n /\ k \in 1 .. i /\ keys[k] # v
        <3> SUFFICES ASSUME NEW k \in 1 .. i - 1 PROVE k \in 1 .. n /\ k \in 1 .. i /\ keys[k] # v
            OBVIOUS
        <3>1. k \in 1 .. n /\ k \in 1 .. i /\ k # i
            OBVIOUS
        <3> QED BY <3>1
    <2>4. v \notin Askers(a) /\ IsBlock(seqs[i], v, Range(Newest(v)))
        BY <1>5, <2>2, <2>3
    <2> HIDE DEF a, c, v
    <2>5. /\ c \in Seq(Entries) /\ Runs(c) /\ Askers(c) \subseteq Askers(a) \cup {v}
          /\ Filled(c, v) = Range(Newest(v)) /\ \A u : u # v => Filled(c, u) = Filled(a, u)
        BY <2>1, <2>2, <2>4, JoinedIs
    <2>6. v \in {keys[k] : k \in 1 .. i}
        BY DEF v
    <2>7. \A u \in Users : Filled(c, u) \in {{}, Range(Newest(u))}
        BY <2>2, <2>5
    <2> QED BY <2>2, <2>3, <2>5, <2>6, <2>7 DEF c
<1> HIDE DEF Part
<1>8. Bad = {}
    <2> SUFFICES ASSUME Bad # {} PROVE FALSE
        OBVIOUS
    <2>1. Bad \subseteq Nat
        OBVIOUS
    <2> HIDE DEF Bad
    <2>2. PICK i \in Bad : \A y \in Bad : i <= y
        BY <2>1, Least
    <2>3. i \in 1 .. n /\ ~ Part(i)
        BY <2>2 DEF Bad
    <2>4. i # 1
        BY <1>6, <2>3
    <2>5. i - 1 \in 1 .. n /\ ~ (i <= i - 1)
        BY <2>3, <2>4
    <2>6. Part(i - 1)
        BY <2>2, <2>5 DEF Bad
    <2> QED BY <1>7, <2>3, <2>4, <2>6
<1>9. Part(n)
    BY <1>8
<1> QED BY <1>1, <1>4, <1>9 DEF Part

(* The last run of a user's feeds in an answer is all of them.             *)
LEMMA ListIs ==
    ASSUME NEW feeds \in Seq(Entries), Runs(feeds), NEW u,
           {i \in RunStarts(feeds) : feeds[i][1] = u} # {}
    PROVE  LET list == ListOf(feeds, Max({i \in RunStarts(feeds) : feeds[i][1] = u}))
           IN  /\ list \in Seq(Feeds) /\ Descends(list) /\ Len(list) <= Size
               /\ Range(list) = Filled(feeds, u)
<1> DEFINE n == Len(feeds)
           runs == {i \in RunStarts(feeds) : feeds[i][1] = u}
           r == Max(runs)
           ends == {j \in r .. n : j = n \/ feeds[j + 1][1] # feeds[r][1]}
           e == Min(ends)
           list == ListOf(feeds, r)
<1>1. n \in Nat /\ DOMAIN feeds = 1 .. n /\ \A i \in 1 .. n : feeds[i] \in Entries
    BY LenProperties, ElementOfSeq
<1>2. runs \subseteq 0 .. n /\ runs # {}
    BY <1>1 DEF RunStarts
<1>3. r \in runs
    <2> HIDE DEF runs
    <2> QED BY <1>1, <1>2, Greatest
<1> HIDE DEF r
<1>4. r \in 1 .. n /\ feeds[r][1] = u /\ (r = 1 \/ feeds[r - 1][1] # u)
    BY <1>1, <1>3 DEF RunStarts
<1>5. ends \subseteq Nat /\ ends # {}
    BY <1>1, <1>4
<1>6. e \in ends /\ \A j \in ends : e <= j
    <2> HIDE DEF ends
    <2> QED BY <1>5, Least
<1>7. e = RunEnd(feeds, r)
    BY DEF RunEnd
<1> HIDE DEF e, n, runs
<1>8. e \in r .. n /\ (e = n \/ feeds[e + 1][1] # u) /\ e \in Nat /\ r \in Nat
    <2>1. e \in r .. n /\ (e = n \/ feeds[e + 1][1] # u)
        BY <1>4, <1>6
    <2>2. r \in Nat
        BY <1>1, <1>4
    <2> QED BY <1>1, <2>1, <2>2
<1> HIDE DEF ends
(* The run has only feeds of the user,                                     *)
<1>9. \A k \in r .. e : feeds[k][1] = u
    <2> DEFINE Bad == {k \in r .. e : feeds[k][1] # u}
    <2> SUFFICES ASSUME Bad # {} PROVE FALSE
        OBVIOUS
    <2>1. Bad \subseteq Nat
        BY <1>1, <1>4
    <2> HIDE DEF Bad
    <2>2. PICK k \in Bad : \A y \in Bad : k <= y
        BY <2>1, Least
    <2>3. k \in r .. e /\ feeds[k][1] # u /\ k # r
        BY <1>4, <2>2 DEF Bad
    <2>4. k - 1 \in r .. n /\ k - 1 < e /\ (k - 1) + 1 = k
        BY <1>1, <1>4, <1>8, <2>3
    <2>5. feeds[(k - 1) + 1][1] # feeds[r][1]
        BY <1>4, <2>3, <2>4
    <2>6. k - 1 \in ends
        BY <2>4, <2>5 DEF ends
    <2>7. e <= k - 1
        BY <1>6, <2>6
    <2> QED BY <1>8, <2>4, <2>7
(* and no other entry is a feed of his.                                    *)
<1>10. \A k \in 1 .. n : feeds[k][1] = u => k \in r .. e
    <2> SUFFICES ASSUME NEW k \in 1 .. n, feeds[k][1] = u, ~ (k \in r .. e) PROVE FALSE
        OBVIOUS
    <2>1. CASE k < r
        <3>1. r # 1 /\ r - 1 \in k .. r
            BY <1>4, <2>1
        <3>2. feeds[r - 1][1] = feeds[k][1]
            BY <1>1, <1>4, <2>1, <3>1 DEF Runs
        <3> QED BY <1>4, <3>1, <3>2
    <2>2. CASE k > e
        <3>1. e # n /\ e + 1 \in r .. k /\ r < k
            BY <1>1, <1>4, <1>8, <2>2
        <3>2. feeds[e + 1][1] = feeds[r][1]
            BY <1>1, <1>4, <3>1 DEF Runs
        <3> QED BY <1>4, <1>8, <3>1, <3>2
    <2> QED BY <1>1, <1>4, <1>8, <2>1, <2>2
<1> DEFINE m == e - r + 1
<1>11. m \in Nat /\ \A j \in 1 .. m : r + j - 1 \in r .. e /\ r + j - 1 \in 1 .. n
    BY <1>1, <1>4, <1>8
<1>12. list = [j \in 1 .. m |-> feeds[r + j - 1][2]]
    BY <1>7 DEF ListOf
<1> HIDE DEF list, m
<1>13. /\ list \in Seq(Feeds) /\ DOMAIN list = 1 .. m /\ Len(list) = m
       /\ \A j \in 1 .. m : list[j] = feeds[r + j - 1][2]
    <2>1. \A j \in 1 .. m : feeds[r + j - 1][2] \in Feeds
        BY <1>1, <1>11 DEF Entries
    <2>2. list \in [1 .. m -> Feeds]
        BY <1>12, <2>1
    <2>3. list \in Seq(Feeds) /\ DOMAIN list = 1 .. m
        BY <1>11, <2>2
    <2>4. Len(list) = m
        BY <1>11, <2>3, LenProperties
    <2> QED BY <1>12, <2>3, <2>4
<1>14. ASSUME NEW i \in 1 .. m, NEW j \in 1 .. m, i < j PROVE list[i] > list[j]
    <2>1. r + i - 1 < r + j - 1 /\ r + i - 1 \in 1 .. n /\ r + j - 1 \in 1 .. n
        <3>1. r + i - 1 \in 1 .. n /\ r + j - 1 \in 1 .. n
            BY <1>11
        <3>2. i \in Nat /\ j \in Nat
            BY <1>11
        <3>3. r + i - 1 < r + j - 1
            BY <1>8, <1>14, <3>2
        <3> QED BY <3>1, <3>3
    <2>2. feeds[r + i - 1][1] = feeds[r + j - 1][1]
        BY <1>9, <1>11
    <2>3. feeds[r + i - 1][2] > feeds[r + j - 1][2]
        BY <1>1, <2>1, <2>2 DEF Runs
    <2> QED BY <1>13, <2>3
<1>15. Descends(list)
    BY <1>13, <1>14 DEF Descends
<1>16. Len(list) <= Size
    <2>1. CASE r = e
        BY <1>4, <1>8, <1>13, <2>1, Limits DEF m
    <2>2. CASE r < e
        <3>1. feeds[r][1] = feeds[e][1] /\ e \in 1 .. n
            BY <1>1, <1>4, <1>8, <1>9
        <3>2. e - r < Size
            BY <1>1, <1>4, <2>2, <3>1 DEF Runs
        <3> QED BY <1>4, <1>8, <1>13, <3>2, Limits DEF m
    <2> QED BY <1>4, <1>8, <2>1, <2>2
<1>17. Range(list) = Filled(feeds, u)
    <2>1. Range(list) = {list[j] : j \in 1 .. m}
        BY <1>13 DEF Range
    <2>2. Filled(feeds, u) = {feeds[i][2] : i \in {j \in 1 .. n : feeds[j][1] = u}}
        BY <1>1 DEF Filled
    <2>3. ASSUME NEW j \in 1 .. m PROVE list[j] \in Filled(feeds, u)
        BY <1>9, <1>11, <1>13, <2>2
    <2>4. ASSUME NEW i \in 1 .. n, feeds[i][1] = u PROVE feeds[i][2] \in Range(list)
        <3>1. i \in r .. e
            BY <1>10, <2>4
        <3>2. i - r + 1 \in 1 .. m /\ r + (i - r + 1) - 1 = i
            BY <1>4, <1>8, <3>1 DEF m
        <3>3. list[i - r + 1] = feeds[i][2]
            BY <1>13, <3>2
        <3> QED BY <2>1, <3>2, <3>3
    <2> QED BY <2>1, <2>2, <2>3, <2>4
<1> QED BY <1>13, <1>15, <1>16, <1>17 DEF list, r, runs

-----------------------------------------------------------------------------
(* The invariant.                                                          *)

Reads == [task : Users, list : Seq(Feeds)]
Fills == [task : {"fill"}, feeds : Seq(Entries)]
Tasks == {Idle} \cup Reads \cup Fills

Types ==
    /\ storage \in [Users -> SUBSET Feeds] /\ memc \in [Users -> Seq(Feeds)]
    /\ op \in [Users -> Ops \cup {NoOp}] /\ worker \in [Workers -> Tasks]

(* A pending change is in the storage; the worker tells the outbox of a change that is
   pending.                                                                *)
Brought(S, o) == Added(o) \subseteq S /\ Old(o) \cap S = {}
Book ==
    /\ \A u \in Users : storage[u] \subseteq written /\ Brought(storage[u], op[u])
    /\ \A w \in Workers, u \in Users : worker[w].task = u => op[u] # NoOp

(* Every list is in order and short enough, and an answer has the feeds of a user in one
   run.                                                                    *)
NeatList(s) == Descends(s) /\ Len(s) <= Size
NeatTask(t) ==
    /\ t.task \in Users => NeatList(t.list)
    /\ t.task = "fill" => Runs(t.feeds)
Neat == (\A u \in Users : NeatList(memc[u])) /\ \A w \in Workers : NeatTask(worker[w])

(* The feeds that one list or another has of the user.                     *)
TaskViews(t, u) ==
    IF t.task = u THEN {Range(t.list)}
    ELSE IF t.task = "fill" THEN {Filled(t.feeds, u)} ELSE {}
Views(u) == {Range(memc[u])} \cup UNION {TaskViews(worker[w], u) : w \in Workers}

Shows(R, S, o) == R \subseteq S \cup Old(o)
Leaves(R, S, o) == \A x \in S \ (Added(o) \cup R), y \in R : x < y
Top(S, o) == \A x \in Added(o), y \in S \cup Old(o) : y <= x
Fine(u, S, o, V, M, L) ==
    /\ u \notin M => \A R \in V : Shows(R, S, o)
    /\ u \notin M \cup L => Top(S, o) /\ \A R \in V : Leaves(R, S, o)
AllFine == \A u \in Users : Fine(u, storage[u], op[u], Views(u), missed, late)

IInv == Types /\ Book /\ Neat /\ AllFine

LEMMA NamesApart == "idle" \notin Users /\ "fill" \notin Users /\ "idle" # "fill"
BY OutboxAssumption

LEMMA TaskIs ==
    /\ \A t \in Tasks : /\ t.task = "idle" <=> t = Idle
                        /\ t.task = "fill" <=> t \in Fills
                        /\ t.task \in Users <=> t \in Reads
    /\ Idle \in Tasks /\ NeatTask(Idle) /\ \A u \in Users : TaskViews(Idle, u) = {}
<1>1. Idle.task = "idle" /\ Idle \in Tasks
    BY DEF Idle, Tasks
<1>2. (\A t \in Reads : t.task \in Users) /\ \A t \in Fills : t.task = "fill"
    BY DEF Reads, Fills
<1>3. NeatTask(Idle) /\ \A u \in Users : TaskViews(Idle, u) = {}
    BY <1>1, NamesApart DEF NeatTask, TaskViews
<1> QED BY <1>1, <1>2, <1>3, NamesApart DEF Tasks

(* With one worker there is one task.                                      *)
LEMMA OneTask ==
    ASSUME NEW w \in Workers, NEW tasks
    PROVE  \A u : UNION {TaskViews(tasks[v], u) : v \in Workers} = TaskViews(tasks[w], u)
<1>1. Workers = {w}
    BY OneWorker
<1> QED BY <1>1

LEMMA FineLess ==
    ASSUME NEW u, NEW S, NEW o, NEW V, NEW W, NEW M, NEW N, NEW L, NEW K,
           Fine(u, S, o, V, M, L), W \subseteq V \cup {{}}, M \subseteq N, L \subseteq K
    PROVE  Fine(u, S, o, W, N, K)
<1>1. \A R \in W : R \in V \/ R = {}
    OBVIOUS
<1>2. Shows({}, S, o) /\ Leaves({}, S, o)
    BY DEF Shows, Leaves
<1>3. ASSUME u \notin N PROVE \A R \in W : Shows(R, S, o)
    BY <1>1, <1>2, <1>3 DEF Fine
<1>4. ASSUME u \notin N \cup K PROVE Top(S, o) /\ \A R \in W : Leaves(R, S, o)
    BY <1>1, <1>2, <1>4 DEF Fine
<1> QED BY <1>3, <1>4 DEF Fine

(* The storage takes a change.                                             *)
LEMMA FineWrite ==
    ASSUME NEW u, NEW S, NEW T, NEW o, NEW V, NEW M, NEW L, NEW K,
           Fine(u, S, NoOp, V, M, L), S \subseteq T \cup Old(o), T \subseteq S \cup Added(o),
           L \subseteq K, u \notin K => Top(T, o)
    PROVE  Fine(u, T, o, V, M, K)
<1>1. ASSUME u \notin M, NEW R \in V PROVE Shows(R, T, o)
    <2>1. R \subseteq S
        BY <1>1, OpIs DEF Fine, Shows
    <2> QED BY <2>1 DEF Shows
<1>2. ASSUME u \notin M \cup K, NEW R \in V PROVE Leaves(R, T, o)
    <2>1. \A x \in S \ R, y \in R : x < y
        BY <1>2, OpIs DEF Fine, Leaves
    <2> QED BY <2>1 DEF Leaves
<1> QED BY <1>1, <1>2 DEF Fine

(* The outbox takes it.                                                    *)
LEMMA FineFinish ==
    ASSUME NEW u, NEW S \in SUBSET Feeds, NEW o, NEW V, NEW M, NEW L, NEW R \in V, NEW t,
           Fine(u, S, o, V, M, L), Brought(S, o), Fits(t, (R \cup Added(o)) \ Old(o))
    PROVE  Fine(u, S, NoOp, {Range(t)}, M, L)
<1>1. Range(t) \subseteq (R \cup Added(o)) \ Old(o)
    BY DEF Fits
<1>2. ASSUME u \notin M PROVE Range(t) \subseteq S
    BY <1>1, <1>2 DEF Fine, Shows, Brought
<1>3. ASSUME u \notin M \cup L, NEW x \in S \ Range(t), NEW y \in Range(t) PROVE x < y
    <2>1. y \in S /\ x \in Nat /\ y \in Nat /\ x # y
        BY <1>2, <1>3, Limits
    <2>2. CASE x \in R \cup Added(o)
        BY <2>2 DEF Fits, Brought
    <2>3. CASE x \notin R \cup Added(o) /\ y \in R
        BY <1>3, <2>3 DEF Fine, Leaves
    <2>4. CASE y \in Added(o)
        <3>1. x <= y
            BY <1>3, <2>4 DEF Fine, Top
        <3> QED BY <2>1, <3>1
    <2> QED BY <1>1, <2>2, <2>3, <2>4
<1>4. Shows(Range(t), S, NoOp) <=> Range(t) \subseteq S
    BY OpIs DEF Shows
<1>5. Leaves(Range(t), S, NoOp) <=> \A x \in S \ Range(t), y \in Range(t) : x < y
    BY OpIs DEF Leaves
<1>6. Top(S, NoOp)
    BY OpIs DEF Top
<1> QED BY <1>2, <1>3, <1>4, <1>5, <1>6 DEF Fine

(* The storage answers.                                                    *)
LEMMA FineAsk ==
    ASSUME NEW u, NEW S \in SUBSET Feeds, NEW o, NEW V, NEW W, NEW M, NEW L,
           Fine(u, S, o, V, M, L), W \subseteq V \cup {{}, Range(Cut(Sorted(S)))}
    PROVE  Fine(u, S, o, W, M, L)
<1> DEFINE R == Range(Cut(Sorted(S)))
<1>1. R \subseteq S /\ \A x \in S \ R, y \in R : x < y
    BY SortedIs, CutIs
<1> HIDE DEF R
<1>2. Shows(R, S, o) /\ Leaves(R, S, o)
    BY <1>1 DEF Shows, Leaves
<1>3. Fine(u, S, o, V \cup {R}, M, L)
    BY <1>2 DEF Fine
<1>4. W \subseteq (V \cup {R}) \cup {{}}
    BY DEF R
<1> QED BY <1>3, <1>4, FineLess

-----------------------------------------------------------------------------
(* The actions.                                                            *)

LEMMA InitInv == Init => IInv
<1> SUFFICES ASSUME Init PROVE IInv
    OBVIOUS
<1>1. Types
    BY EmptyList, TaskIs DEF Init, Types, Gone
<1>2. Book
    <2>1. \A w \in Workers : worker[w].task = "idle"
        BY DEF Init, Idle
    <2> QED BY <2>1, OpIs, NamesApart DEF Init, Book, Brought
<1>3. Neat
    BY EmptyList, TaskIs, Limits DEF Init, Neat, NeatList, Gone
<1>4. ASSUME NEW u \in Users PROVE Fine(u, storage[u], op[u], Views(u), missed, late)
    <2>1. Views(u) \subseteq {{}}
        BY EmptyList, TaskIs DEF Init, Views, Gone
    <2>2. storage[u] = {} /\ op[u] = NoOp
        BY DEF Init
    <2>3. Fine(u, {}, NoOp, {}, missed, late)
        BY OpIs DEF Fine, Top
    <2> QED BY <2>1, <2>2, <2>3, FineLess
<1> QED BY <1>1, <1>2, <1>3, <1>4 DEF IInv, AllFine

LEMMA WriteKeeps ==
    ASSUME IInv, NEW u \in Users, NEW o \in Ops, NEW feeds \in SUBSET Feeds,
           Write(u, o, feeds), Brought(feeds, o),
           storage[u] \subseteq feeds \cup Old(o), feeds \subseteq storage[u] \cup Added(o),
           written \subseteq written', feeds \subseteq written', late \subseteq late',
           u \notin late' => Top(feeds, o)
    PROVE  IInv'
<1>1. Types /\ Book /\ Neat /\ AllFine
    BY DEF IInv
<1>2. /\ op[u] = NoOp /\ op' = [op EXCEPT ![u] = o] /\ storage' = [storage EXCEPT ![u] = feeds]
      /\ memc' = memc /\ worker' = worker /\ missed' = missed
    BY DEF Write
<1>3. /\ op'[u] = o /\ storage'[u] = feeds /\ o # NoOp
      /\ \A v \in Users : v # u => op'[v] = op[v] /\ storage'[v] = storage[v]
    <2>1. o # NoOp
        BY OpIs DEF Ops, Inserts, Updates, Deletes
    <2> QED BY <1>1, <1>2, <2>1 DEF Types
<1>4. Types'
    BY <1>1, <1>2 DEF Types
<1>5. Book'
    <2>1. \A v \in Users : storage'[v] \subseteq written' /\ Brought(storage'[v], op'[v])
        BY <1>1, <1>3 DEF Book
    <2>2. \A w \in Workers, v \in Users : worker'[w].task = v => op'[v] # NoOp
        BY <1>1, <1>2, <1>3 DEF Book
    <2> QED BY <2>1, <2>2 DEF Book, Brought
<1>6. Neat'
    BY <1>1, <1>2 DEF Neat, NeatList, NeatTask
<1>7. ASSUME NEW v \in Users
      PROVE  Fine(v, storage'[v], op'[v], Views(v)', missed', late')
    <2>1. Views(v)' = Views(v)
        BY <1>2 DEF Views, TaskViews
    <2>2. Fine(v, storage[v], op[v], Views(v), missed, late)
        BY <1>1 DEF AllFine
    <2>3. CASE v = u
        <3>1. Fine(u, storage[u], NoOp, Views(u), missed, late)
            BY <1>2, <2>2, <2>3
        <3>2. Fine(u, feeds, o, Views(u), missed, late')
            BY <3>1, FineWrite
        <3> QED BY <1>2, <1>3, <2>1, <2>3, <3>2
    <2>4. CASE v # u
        <3>1. Fine(v, storage[v], op[v], Views(v), missed, late')
            BY <2>2, FineLess
        <3> QED BY <1>2, <1>3, <2>1, <2>4, <3>1
    <2> QED BY <2>3, <2>4
<1>8. AllFine'
    BY <1>7 DEF AllFine, Fine, Shows, Leaves, Top
<1> QED BY <1>4, <1>5, <1>6, <1>8 DEF IInv

LEMMA ProcessKeeps ==
    ASSUME IInv, NEW u \in Users, Process(u)
    PROVE  IInv'
<1> DEFINE S == storage[u]
<1>1. S \subseteq Feeds /\ S \subseteq written
    BY DEF IInv, Types, Book
<1>2. ASSUME NEW f \in Feeds, NEW o, NEW feeds, WriteNew(u, o, f, feeds)
      PROVE  /\ f \notin S /\ written' = written \cup {f} /\ late \subseteq late'
             /\ u \notin late' => \A y \in S : y <= f
    <2>1. /\ f \notin written /\ written' = written \cup {f}
          /\ late' = IF \E g \in S : g > f THEN late \cup {u} ELSE late
        BY <1>2 DEF WriteNew
    <2>2. ASSUME u \notin late', NEW y \in S PROVE y <= f
        <3>1. ~ (y > f) /\ y \in Nat /\ f \in Nat
            BY <1>1, <2>1, <2>2, Limits
        <3> QED BY <3>1
    <2> QED BY <1>1, <2>1, <2>2
<1>3. ASSUME NEW f \in Feeds, ProcessInsert(u, f) PROVE IInv'
    <2> DEFINE o == Insert(f)
               T == S \cup {f}
    <2>1. WriteNew(u, o, f, T) /\ Write(u, o, T)
        BY <1>3 DEF ProcessInsert, WriteNew
    <2>2. o \in Ops /\ Added(o) = {f} /\ Old(o) = {}
        BY OpIs DEF Ops, Inserts
    <2> HIDE DEF o
    <2>3. f \notin S /\ written' = written \cup {f} /\ late \subseteq late'
          /\ (u \notin late' => \A y \in S : y <= f)
        BY <1>2, <2>1
    <2>4. u \notin late' => Top(T, o)
        BY <2>2, <2>3, Limits DEF Top
    <2>5. Brought(T, o) /\ T \in SUBSET Feeds
        BY <1>1, <2>2 DEF Brought
    <2>6. S \subseteq T \cup Old(o) /\ T \subseteq S \cup Added(o)
        BY <2>2
    <2>7. written \subseteq written' /\ T \subseteq written'
        BY <1>1, <2>3
    <2> HIDE DEF T
    <2> QED BY <2>1, <2>2, <2>3, <2>4, <2>5, <2>6, <2>7, WriteKeeps
<1>4. ASSUME NEW f \in Feeds, NEW g \in Feeds, ProcessUpdate(u, f, g) PROVE IInv'
    <2> DEFINE o == Update(f, g)
               T == (S \ {g}) \cup {f}
    <2>1. WriteNew(u, o, f, T) /\ Write(u, o, T) /\ g \in S
        BY <1>4 DEF ProcessUpdate, WriteNew
    <2>2. o \in Ops /\ Added(o) = {f} /\ Old(o) = {g}
        BY OpIs DEF Ops, Updates
    <2> HIDE DEF o
    <2>3. f \notin S /\ written' = written \cup {f} /\ late \subseteq late'
          /\ (u \notin late' => \A y \in S : y <= f)
        BY <1>2, <2>1
    <2>4. u \notin late' => Top(T, o)
        BY <2>1, <2>2, <2>3, Limits DEF Top
    <2>5. Brought(T, o) /\ T \in SUBSET Feeds
        BY <1>1, <2>1, <2>2, <2>3 DEF Brought
    <2>6. S \subseteq T \cup Old(o) /\ T \subseteq S \cup Added(o)
        BY <2>2
    <2>7. written \subseteq written' /\ T \subseteq written'
        BY <1>1, <2>3
    <2> HIDE DEF T
    <2> QED BY <2>1, <2>2, <2>3, <2>4, <2>5, <2>6, <2>7, WriteKeeps
<1>5. ASSUME NEW g \in Feeds, ProcessDelete(u, g) PROVE IInv'
    <2> DEFINE o == Delete(g)
               T == S \ {g}
    <2>1. Write(u, o, T) /\ g \in S /\ written' = written /\ late' = late
        BY <1>5 DEF ProcessDelete
    <2>2. o \in Ops /\ Added(o) = {} /\ Old(o) = {g}
        BY OpIs DEF Ops, Deletes
    <2> HIDE DEF o
    <2>3. Top(T, o) /\ Brought(T, o) /\ T \in SUBSET Feeds
        BY <1>1, <2>2 DEF Brought, Top
    <2>4. S \subseteq T \cup Old(o) /\ T \subseteq S \cup Added(o)
        BY <2>2
    <2>5. written \subseteq written' /\ T \subseteq written' /\ late \subseteq late'
        BY <1>1, <2>1
    <2> HIDE DEF T
    <2> QED BY <2>1, <2>2, <2>3, <2>4, <2>5, WriteKeeps
<1> QED BY <1>3, <1>4, <1>5 DEF Process

(* Steps that leave the storage as it is.                                  *)
LEMMA StepKeeps ==
    ASSUME IInv, storage' = storage, written' = written, late' = late,
           memc' \in [Users -> Seq(Feeds)], \A u \in Users : NeatList(memc'[u]),
           worker' \in [Workers -> Tasks], \A w \in Workers : NeatTask(worker'[w]),
           op' \in [Users -> Ops \cup {NoOp}],
           \A u \in Users : op'[u] = op[u] \/ op'[u] = NoOp,
           \A w \in Workers, u \in Users : worker'[w].task = u => op'[u] # NoOp,
           \A u \in Users : Fine(u, storage[u], op'[u], Views(u)', missed', late)
    PROVE  IInv'
<1>1. Types'
    BY DEF IInv, Types
<1>2. Book'
    <2>1. ASSUME NEW u \in Users
          PROVE  storage'[u] \subseteq written' /\ Brought(storage'[u], op'[u])
        <3>1. storage[u] \subseteq written /\ Brought(storage[u], op[u])
            BY DEF IInv, Book
        <3>2. Brought(storage[u], NoOp)
            BY OpIs DEF Brought
        <3> QED BY <3>1, <3>2
    <2> QED BY <2>1 DEF Book, Brought
<1>3. Neat'
    BY DEF Neat, NeatList, NeatTask
<1>4. AllFine'
    BY DEF AllFine, Fine, Shows, Leaves, Top
<1> QED BY <1>1, <1>2, <1>3, <1>4 DEF IInv

(* What a user who missed a change sees does not matter.                   *)
LEMMA FineMissed == \A u, S, o, V, M, L : u \in M => Fine(u, S, o, V, M, L)
BY DEF Fine

LEMMA QuietKeeps ==
    ASSUME IInv, NEW u \in Users, Skip(u) \/ Break(u) \/ NewChild(u) \/ Evict(u)
    PROVE  IInv'
<1>1. Types /\ Book /\ Neat /\ AllFine
    BY DEF IInv
<1>2. \A v \in Users : Fine(v, storage[v], op[v], Views(v), missed, late)
    BY <1>1 DEF AllFine
<1>3. CASE Skip(u)
    <2>1. /\ op' = [op EXCEPT ![u] = NoOp] /\ missed' = missed \cup {u}
          /\ storage' = storage /\ memc' = memc /\ worker' = worker
          /\ written' = written /\ late' = late
          /\ \A w \in Workers : worker[w].task # u
        BY <1>3 DEF Skip
    <2>2. /\ op' \in [Users -> Ops \cup {NoOp}] /\ op'[u] = NoOp
          /\ \A v \in Users : v # u => op'[v] = op[v]
        BY <1>1, <2>1 DEF Types
    <2>3. memc' \in [Users -> Seq(Feeds)] /\ worker' \in [Workers -> Tasks]
        BY <1>1, <2>1 DEF Types
    <2>4. (\A v \in Users : NeatList(memc'[v])) /\ \A w \in Workers : NeatTask(worker'[w])
        BY <1>1, <2>1 DEF Neat
    <2>5. \A w \in Workers, v \in Users : worker'[w].task = v => op'[v] # NoOp
        BY <1>1, <2>1, <2>2 DEF Book
    <2>6. ASSUME NEW v \in Users PROVE Fine(v, storage[v], op'[v], Views(v)', missed', late)
        <3>1. Views(v)' = Views(v)
            BY <2>1 DEF Views, TaskViews
        <3>2. Fine(v, storage[v], op[v], Views(v), missed', late)
            BY <1>2, <2>1, FineLess
        <3>3. v = u => v \in missed'
            BY <2>1
        <3> QED BY <2>2, <3>1, <3>2, <3>3, FineMissed
    <2>7. \A v \in Users : op'[v] = op[v] \/ op'[v] = NoOp
        BY <2>2
    <2> QED BY <2>1, <2>2, <2>3, <2>4, <2>5, <2>6, <2>7, StepKeeps
<1>4. CASE Break(u) \/ NewChild(u) \/ Evict(u)
    <2>1. /\ op' = op /\ missed' = missed /\ storage' = storage /\ worker' = worker
          /\ written' = written /\ late' = late
          /\ memc' = memc \/ memc' = [memc EXCEPT ![u] = Gone]
        BY <1>4 DEF Break, NewChild, Evict
    <2>2. /\ memc' \in [Users -> Seq(Feeds)]
          /\ \A v \in Users : memc'[v] = memc[v] \/ memc'[v] = Gone
        BY <1>1, <2>1, EmptyList DEF Types, Gone
    <2>3. \A v \in Users : NeatList(memc'[v])
        <3>1. NeatList(Gone)
            BY EmptyList, Limits DEF NeatList, Gone
        <3> QED BY <1>1, <2>2, <3>1 DEF Neat
    <2>4. op' \in [Users -> Ops \cup {NoOp}] /\ worker' \in [Workers -> Tasks]
        BY <1>1, <2>1 DEF Types
    <2>5. \A w \in Workers : NeatTask(worker'[w])
        BY <1>1, <2>1 DEF Neat
    <2>6. \A w \in Workers, v \in Users : worker'[w].task = v => op'[v] # NoOp
        BY <1>1, <2>1 DEF Book
    <2>7. ASSUME NEW v \in Users PROVE Fine(v, storage[v], op'[v], Views(v)', missed', late)
        <3>1. Range(memc'[v]) \in {Range(memc[v]), {}}
            BY <2>2, EmptyList DEF Gone
        <3>2. Views(v)' \subseteq Views(v) \cup {{}}
            BY <2>1, <3>1 DEF Views, TaskViews
        <3>3. Fine(v, storage[v], op[v], Views(v)', missed, late)
            BY <1>2, <3>2, FineLess
        <3> QED BY <2>1, <3>3
    <2>8. \A v \in Users : op'[v] = op[v] \/ op'[v] = NoOp
        BY <2>1
    <2> QED BY <2>1, <2>2, <2>3, <2>4, <2>5, <2>6, <2>7, <2>8, StepKeeps
<1> QED BY <1>3, <1>4

(* A step of the worker.                                                   *)
LEMMA WorkerStep ==
    ASSUME Types, NEW w \in Workers, NEW t \in Tasks, worker' = [worker EXCEPT ![w] = t]
    PROVE  /\ worker' \in [Workers -> Tasks] /\ \A v \in Workers : v = w /\ worker'[v] = t
           /\ \A u : Views(u)' = {Range(memc'[u])} \cup TaskViews(t, u)
<1>1. worker' \in [Workers -> Tasks] /\ \A v \in Workers : v = w /\ worker'[v] = t
    BY OneWorker DEF Types
<1>2. ASSUME NEW u PROVE Views(u)' = {Range(memc'[u])} \cup TaskViews(t, u)
    <2> DEFINE tasks == worker'
    <2>1. UNION {TaskViews(worker'[v], u) : v \in Workers} = TaskViews(worker'[w], u)
        <3> HIDE DEF tasks
        <3>1. UNION {TaskViews(tasks[v], u) : v \in Workers} = TaskViews(tasks[w], u)
            BY OneTask
        <3> QED BY <3>1 DEF tasks
    <2>2. UNION {TaskViews(worker'[v], u) : v \in Workers} = TaskViews(t, u)
        BY <1>1, <2>1
    <2>3. Views(u)' = {Range(memc'[u])} \cup UNION {TaskViews(worker'[v], u) : v \in Workers}
        BY DEF Views, TaskViews
    <2> QED BY <2>2, <2>3
<1> QED BY <1>1, <1>2

LEMMA ViewsAre ==
    ASSUME NEW w \in Workers, NEW u
    PROVE  Views(u) = {Range(memc[u])} \cup TaskViews(worker[w], u)
BY OneTask DEF Views

LEMMA WorkerKeeps ==
    ASSUME IInv, NEW w \in Workers, NEW t \in Tasks, worker' = [worker EXCEPT ![w] = t],
           NeatTask(t), storage' = storage, written' = written, late' = late,
           memc' \in [Users -> Seq(Feeds)], \A u \in Users : NeatList(memc'[u]),
           op' \in [Users -> Ops \cup {NoOp}],
           \A u \in Users : op'[u] = op[u] \/ op'[u] = NoOp,
           \A u \in Users : t.task = u => op'[u] # NoOp,
           \A u \in Users :
             Fine(u, storage[u], op'[u], {Range(memc'[u])} \cup TaskViews(t, u), missed', late)
    PROVE  IInv'
<1>1. /\ worker' \in [Workers -> Tasks] /\ \A v \in Workers : v = w /\ worker'[v] = t
      /\ \A u : Views(u)' = {Range(memc'[u])} \cup TaskViews(t, u)
    BY WorkerStep DEF IInv
<1>2. \A v \in Workers : NeatTask(worker'[v])
    BY <1>1
<1>3. \A v \in Workers, u \in Users : worker'[v].task = u => op'[u] # NoOp
    BY <1>1
<1>4. \A u \in Users : Fine(u, storage[u], op'[u], Views(u)', missed', late)
    BY <1>1
<1> QED BY <1>1, <1>2, <1>3, <1>4, StepKeeps

(* What holds when the worker of a user's change ends.                     *)
LEMMA OpEnds ==
    ASSUME Types, NEW u \in Users, op' = [op EXCEPT ![u] = NoOp]
    PROVE  /\ op' \in [Users -> Ops \cup {NoOp}] /\ op'[u] = NoOp
           /\ \A v \in Users : v # u => op'[v] = op[v]
           /\ \A v \in Users : op'[v] = op[v] \/ op'[v] = NoOp
BY DEF Types

LEMMA StartKeeps ==
    ASSUME IInv, NEW w \in Workers, NEW u \in Users, Start(w, u)
    PROVE  IInv'
<1>1. Types /\ Book /\ Neat /\ AllFine
    BY DEF IInv
<1>2. /\ worker[w] = Idle /\ op[u] # NoOp
      /\ storage' = storage /\ memc' = memc /\ written' = written /\ late' = late
      /\ missed' = IF Refused(op[u]) THEN missed \cup {u} ELSE missed
    BY DEF Start
<1>3. \A v \in Users : Views(v) = {Range(memc[v])}
    BY <1>2, ViewsAre, TaskIs
<1>4. \A v \in Users : Fine(v, storage[v], op[v], {Range(memc[v])}, missed, late)
    BY <1>1, <1>3 DEF AllFine
<1>5. memc' \in [Users -> Seq(Feeds)] /\ \A v \in Users : NeatList(memc'[v])
    BY <1>1, <1>2 DEF Types, Neat
<1>6. ASSUME Refused(op[u]) \/ memc[u] = Gone PROVE IInv'
    <2>1. op' = [op EXCEPT ![u] = NoOp] /\ worker' = worker
        BY <1>6 DEF Start, Answered
    <2>2. worker' = [worker EXCEPT ![w] = Idle]
        BY <1>1, <1>2, <2>1 DEF Types
    <2>3. /\ op' \in [Users -> Ops \cup {NoOp}] /\ op'[u] = NoOp
          /\ \A v \in Users : v # u => op'[v] = op[v]
          /\ \A v \in Users : op'[v] = op[v] \/ op'[v] = NoOp
        BY <1>1, <2>1, OpEnds
    <2>4. \A v \in Users : Idle.task = v => op'[v] # NoOp
        BY NamesApart DEF Idle
    <2>5. ASSUME NEW v \in Users
          PROVE  Fine(v, storage[v], op'[v], {Range(memc'[v])} \cup TaskViews(Idle, v),
                      missed', late)
        <3>1. {Range(memc'[v])} \cup TaskViews(Idle, v) = {Range(memc[v])}
            BY <1>2, TaskIs
        <3>2. CASE v # u
            <4>1. Fine(v, storage[v], op[v], {Range(memc[v])}, missed', late)
                BY <1>2, <1>4, FineLess
            <4> QED BY <2>3, <3>1, <3>2, <4>1
        <3>3. CASE v = u /\ Refused(op[u])
            <4>1. v \in missed'
                BY <1>2, <3>3
            <4> QED BY <4>1, FineMissed
        <3>4. CASE v = u /\ ~ Refused(op[u])
            <4>1. Range(memc[v]) = {} /\ missed' = missed
                BY <1>2, <1>6, <3>4, EmptyList DEF Gone
            <4>2. Fine(v, storage[v], NoOp, {}, missed', late)
                BY OpIs DEF Fine, Top
            <4>3. Fine(v, storage[v], NoOp, {{}}, missed', late)
                BY <4>2, FineLess
            <4> QED BY <2>3, <3>1, <3>4, <4>1, <4>3
        <3> QED BY <3>2, <3>3, <3>4
    <2> QED BY <1>2, <1>5, <2>2, <2>3, <2>4, <2>5, TaskIs, WorkerKeeps
<1>7. ASSUME ~ (Refused(op[u]) \/ memc[u] = Gone) PROVE IInv'
    <2> DEFINE t == [task |-> u, list |-> memc[u]]
    <2>1. worker' = [worker EXCEPT ![w] = t] /\ op' = op /\ missed' = missed
        BY <1>2, <1>7 DEF Start
    <2>2. t \in Tasks /\ t.task = u /\ t.list = memc[u]
        BY <1>1 DEF Types, Tasks, Reads
    <2>3. NeatTask(t)
        BY <1>1, <2>2, NamesApart DEF Neat, NeatTask
    <2> HIDE DEF t
    <2>4. op' \in [Users -> Ops \cup {NoOp}] /\ \A v \in Users : op'[v] = op[v] \/ op'[v] = NoOp
        BY <1>1, <2>1 DEF Types
    <2>5. \A v \in Users : t.task = v => op'[v] # NoOp
        BY <1>2, <2>1, <2>2
    <2>6. ASSUME NEW v \in Users
          PROVE  Fine(v, storage[v], op'[v], {Range(memc'[v])} \cup TaskViews(t, v), missed', late)
        <3>1. TaskViews(t, v) \subseteq {Range(memc[v])}
            BY <2>2, NamesApart DEF TaskViews
        <3>2. {Range(memc'[v])} \cup TaskViews(t, v) = {Range(memc[v])}
            BY <1>2, <3>1
        <3> QED BY <1>4, <2>1, <3>2
    <2> QED BY <1>2, <1>5, <2>1, <2>2, <2>3, <2>4, <2>5, <2>6, WorkerKeeps
<1> QED BY <1>6, <1>7

LEMMA FinishKeeps ==
    ASSUME IInv, NEW w \in Workers, NEW u \in Users, Finish(w, u)
    PROVE  IInv'
<1> DEFINE o == op[u]
           s == worker[w].list
           t == Changed(o, s)
<1>1. Types /\ Book /\ Neat /\ AllFine
    BY DEF IInv
<1>2. /\ worker[w].task = u /\ worker' = [worker EXCEPT ![w] = Idle]
      /\ memc' = [memc EXCEPT ![u] = t] /\ op' = [op EXCEPT ![u] = NoOp]
      /\ storage' = storage /\ written' = written /\ late' = late /\ missed' = missed
    BY DEF Finish, Answered
<1>3. worker[w] \in Reads
    BY <1>1, <1>2, TaskIs DEF Types
<1>4. s \in Seq(Feeds) /\ Descends(s)
    BY <1>1, <1>2, <1>3 DEF Reads, Neat, NeatTask, NeatList
<1>5. o \in Ops /\ Brought(storage[u], o) /\ storage[u] \in SUBSET Feeds
    BY <1>1, <1>2 DEF Types, Book
<1>6. Fits(t, (Range(s) \cup Added(o)) \ Old(o))
    BY <1>4, <1>5, ChangedIs
<1>7. Range(s) \in Views(u)
    BY <1>2, ViewsAre DEF TaskViews
<1> HIDE DEF t, s, o
<1>8. t \in Seq(Feeds) /\ NeatList(t)
    BY <1>6 DEF Fits, NeatList
<1>9. memc'[u] = t /\ \A v \in Users : v # u => memc'[v] = memc[v]
    BY <1>1, <1>2 DEF Types
<1>10. memc' \in [Users -> Seq(Feeds)] /\ \A v \in Users : NeatList(memc'[v])
    BY <1>1, <1>2, <1>8, <1>9 DEF Types, Neat
<1>11. /\ op' \in [Users -> Ops \cup {NoOp}] /\ op'[u] = NoOp
       /\ \A v \in Users : v # u => op'[v] = op[v]
       /\ \A v \in Users : op'[v] = op[v] \/ op'[v] = NoOp
    BY <1>1, <1>2, OpEnds
<1>12. \A v \in Users : Idle.task = v => op'[v] # NoOp
    BY NamesApart DEF Idle
<1>13. ASSUME NEW v \in Users
       PROVE  Fine(v, storage[v], op'[v], {Range(memc'[v])} \cup TaskViews(Idle, v), missed', late)
    <2>1. {Range(memc'[v])} \cup TaskViews(Idle, v) = {Range(memc'[v])}
        BY TaskIs
    <2>2. Fine(v, storage[v], op[v], Views(v), missed, late)
        BY <1>1 DEF AllFine
    <2>3. CASE v = u
        <3>1. Fine(u, storage[u], o, Views(u), missed, late)
            BY <2>2, <2>3 DEF o
        <3>2. Fine(u, storage[u], NoOp, {Range(t)}, missed, late)
            BY <1>5, <1>6, <1>7, <3>1, FineFinish
        <3> QED BY <1>2, <1>9, <1>11, <2>1, <2>3, <3>2
    <2>4. CASE v # u
        <3>1. {Range(memc'[v])} \subseteq Views(v)
            BY <1>9, <2>4 DEF Views
        <3>2. Fine(v, storage[v], op[v], {Range(memc'[v])}, missed, late)
            BY <2>2, <3>1, FineLess
        <3> QED BY <1>2, <1>11, <2>1, <2>4, <3>2
    <2> QED BY <2>3, <2>4
<1> QED BY <1>2, <1>10, <1>11, <1>12, <1>13, TaskIs, WorkerKeeps

LEMMA FailKeeps ==
    ASSUME IInv, NEW w \in Workers, FailFill(w) \/ \E u \in Users : Fail(w, u)
    PROVE  IInv'
<1>1. Types /\ Book /\ Neat /\ AllFine
    BY DEF IInv
<1>2. /\ worker' = [worker EXCEPT ![w] = Idle]
      /\ memc' = memc /\ storage' = storage /\ written' = written /\ late' = late
    BY DEF FailFill, Fail
<1>3. memc' \in [Users -> Seq(Feeds)] /\ \A v \in Users : NeatList(memc'[v])
    BY <1>1, <1>2 DEF Types, Neat
<1>4. /\ missed \subseteq missed' /\ op' \in [Users -> Ops \cup {NoOp}]
      /\ \A v \in Users : op'[v] = op[v] \/ (op'[v] = NoOp /\ v \in missed')
    <2>1. CASE FailFill(w)
        <3>1. missed' = missed /\ op' = op
            BY <2>1 DEF FailFill
        <3> QED BY <1>1, <3>1 DEF Types
    <2>2. CASE \E u \in Users : Fail(w, u)
        <3>1. PICK u \in Users : Fail(w, u)
            BY <2>2
        <3>2. missed' = missed \cup {u} /\ op' = [op EXCEPT ![u] = NoOp]
            BY <3>1 DEF Fail, Answered
        <3>3. /\ op' \in [Users -> Ops \cup {NoOp}] /\ op'[u] = NoOp
              /\ \A v \in Users : v # u => op'[v] = op[v]
            BY <1>1, <3>2, OpEnds
        <3> QED BY <3>2, <3>3
    <2> QED BY <2>1, <2>2
<1>5. \A v \in Users : Idle.task = v => op'[v] # NoOp
    BY NamesApart DEF Idle
<1>6. ASSUME NEW v \in Users
      PROVE  Fine(v, storage[v], op'[v], {Range(memc'[v])} \cup TaskViews(Idle, v), missed', late)
    <2>1. {Range(memc'[v])} \cup TaskViews(Idle, v) \subseteq Views(v)
        BY <1>2, TaskIs DEF Views
    <2>2. Fine(v, storage[v], op[v], Views(v), missed, late)
        BY <1>1 DEF AllFine
    <2>3. Fine(v, storage[v], op[v], {Range(memc'[v])} \cup TaskViews(Idle, v), missed', late)
        BY <1>4, <2>1, <2>2, FineLess
    <2> QED BY <1>4, <2>3, FineMissed
<1>7. \A v \in Users : op'[v] = op[v] \/ op'[v] = NoOp
    BY <1>4
<1> QED BY <1>2, <1>3, <1>4, <1>5, <1>6, <1>7, TaskIs, WorkerKeeps

LEMMA AskKeeps ==
    ASSUME IInv, NEW w \in Workers, NEW keys \in SUBSET Users, Ask(w, keys)
    PROVE  IInv'
<1> DEFINE S == {u \in keys : memc[u] = Gone}
<1>1. Types /\ Book /\ Neat /\ AllFine
    BY DEF IInv
<1>2. PICK order \in SetToSeqs(S) :
        /\ order # <<>>
        /\ worker' = [worker EXCEPT ![w] = [task |-> "fill", feeds |-> Answer(order)]]
    BY DEF Ask
<1>3. /\ worker[w] = Idle /\ storage' = storage /\ memc' = memc /\ op' = op
      /\ written' = written /\ late' = late /\ missed' = missed
    BY DEF Ask
<1> DEFINE n == Cardinality(S)
           feeds == Answer(order)
           t == [task |-> "fill", feeds |-> feeds]
<1>4. S \subseteq Users /\ n \in Nat
    BY OutboxAssumption, FS_Subset, FS_CardinalityType
<1> HIDE DEF S
<1>5. order \in [1 .. n -> S] /\ \A i, j \in 1 .. n : i # j => order[i] # order[j]
    BY DEF SetToSeqs
<1> HIDE DEF n
<1>6. n # 0
    <2> SUFFICES ASSUME n = 0 PROVE FALSE
        OBVIOUS
    <2>1. order \in [1 .. 0 -> S]
        BY <1>5
    <2>2. order = <<>>
        BY <2>1
    <2> QED BY <1>2, <2>2
<1>7. \A u \in Users : storage[u] \in SUBSET Feeds
    BY <1>1 DEF Types
<1>8. order \in [1 .. n -> Users] /\ n \in Nat \ {0}
    BY <1>4, <1>5, <1>6
<1>9. /\ feeds \in Seq(Entries) /\ Runs(feeds)
      /\ \A u \in Users : Filled(feeds, u) \in {{}, Range(Newest(u))}
    BY <1>5, <1>7, <1>8, AnswerIs
<1> HIDE DEF feeds
<1>10. t \in Tasks /\ t.task = "fill" /\ t.feeds = feeds
    BY <1>9 DEF Tasks, Fills
<1>11. worker' = [worker EXCEPT ![w] = t]
    BY <1>2 DEF feeds
<1> HIDE DEF t
<1>12. NeatTask(t)
    BY <1>9, <1>10, NamesApart DEF NeatTask
<1>13. memc' \in [Users -> Seq(Feeds)] /\ \A v \in Users : NeatList(memc'[v])
    BY <1>1, <1>3 DEF Types, Neat
<1>14. op' \in [Users -> Ops \cup {NoOp}] /\ \A v \in Users : op'[v] = op[v] \/ op'[v] = NoOp
    BY <1>1, <1>3 DEF Types
<1>15. \A v \in Users : t.task = v => op'[v] # NoOp
    BY <1>10, NamesApart
<1>16. ASSUME NEW v \in Users
       PROVE  Fine(v, storage[v], op'[v], {Range(memc'[v])} \cup TaskViews(t, v), missed', late)
    <2>1. TaskViews(t, v) \subseteq {{}, Range(Newest(v))}
        BY <1>9, <1>10, NamesApart DEF TaskViews
    <2>2. {Range(memc'[v])} \cup TaskViews(t, v) \subseteq Views(v) \cup {{}, Range(Cut(Sorted(storage[v])))}
        BY <1>3, <2>1 DEF Views, Newest
    <2>3. Fine(v, storage[v], op[v], Views(v), missed, late)
        BY <1>1 DEF AllFine
    <2>4. Fine(v, storage[v], op[v], {Range(memc'[v])} \cup TaskViews(t, v), missed, late)
        BY <1>7, <2>2, <2>3, FineAsk
    <2> QED BY <1>3, <2>4
<1> QED BY <1>3, <1>10, <1>11, <1>12, <1>13, <1>14, <1>15, <1>16, WorkerKeeps

LEMMA FillKeeps ==
    ASSUME IInv, NEW w \in Workers, Fill(w)
    PROVE  IInv'
<1> DEFINE feeds == worker[w].feeds
           runs(u) == {i \in RunStarts(feeds) : feeds[i][1] = u}
<1>1. Types /\ Book /\ Neat /\ AllFine
    BY DEF IInv
<1>2. /\ worker[w].task = "fill" /\ worker' = [worker EXCEPT ![w] = Idle]
      /\ memc' = [u \in Users |-> IF runs(u) = {} THEN memc[u] ELSE ListOf(feeds, Max(runs(u)))]
      /\ storage' = storage /\ op' = op /\ written' = written
      /\ late' = late /\ missed' = missed
    BY DEF Fill
<1>3. worker[w] \in Fills
    BY <1>1, <1>2, TaskIs DEF Types
<1>4. feeds \in Seq(Entries) /\ Runs(feeds)
    BY <1>1, <1>2, <1>3 DEF Fills, Neat, NeatTask
<1>5. \A u \in Users : Filled(feeds, u) \in Views(u)
    BY <1>2, ViewsAre, NamesApart DEF TaskViews
<1> HIDE DEF feeds
<1>6. ASSUME NEW u \in Users
      PROVE  memc'[u] \in Seq(Feeds) /\ NeatList(memc'[u]) /\ Range(memc'[u]) \in Views(u)
    <2>1. CASE runs(u) = {}
        <3>1. memc'[u] = memc[u]
            BY <1>2, <2>1
        <3> QED BY <1>1, <3>1 DEF Types, Neat, Views
    <2>2. CASE runs(u) # {}
        <3> DEFINE list == ListOf(feeds, Max(runs(u)))
        <3>1. memc'[u] = list
            BY <1>2, <2>2
        <3>2. /\ list \in Seq(Feeds) /\ Descends(list) /\ Len(list) <= Size
              /\ Range(list) = Filled(feeds, u)
            BY <1>4, <2>2, ListIs
        <3> HIDE DEF list
        <3> QED BY <1>5, <3>1, <3>2 DEF NeatList
    <2> QED BY <2>1, <2>2
<1>7. memc' \in [Users -> Seq(Feeds)]
    <2>1. memc' = [u \in Users |-> memc'[u]]
        BY <1>2
    <2> QED BY <1>6, <2>1
<1>8. op' \in [Users -> Ops \cup {NoOp}] /\ \A v \in Users : op'[v] = op[v] \/ op'[v] = NoOp
    BY <1>1, <1>2 DEF Types
<1>9. \A v \in Users : Idle.task = v => op'[v] # NoOp
    BY NamesApart DEF Idle
<1>10. ASSUME NEW v \in Users
       PROVE  Fine(v, storage[v], op'[v], {Range(memc'[v])} \cup TaskViews(Idle, v), missed', late)
    <2>1. {Range(memc'[v])} \cup TaskViews(Idle, v) \subseteq Views(v)
        BY <1>6, TaskIs
    <2>2. Fine(v, storage[v], op[v], Views(v), missed, late)
        BY <1>1 DEF AllFine
    <2>3. Fine(v, storage[v], op[v], {Range(memc'[v])} \cup TaskViews(Idle, v), missed, late)
        BY <2>1, <2>2, FineLess
    <2> QED BY <1>2, <2>3
<1> QED BY <1>2, <1>6, <1>7, <1>8, <1>9, <1>10, TaskIs, WorkerKeeps

-----------------------------------------------------------------------------
(* The theorems.                                                           *)

LEMMA NextInv == IInv /\ [Next]_vars => IInv'
<1> SUFFICES ASSUME IInv, [Next]_vars PROVE IInv'
    OBVIOUS
<1>1. ASSUME NEW u \in Users, Process(u) \/ Skip(u) \/ Break(u) \/ NewChild(u) \/ Evict(u)
      PROVE  IInv'
    BY <1>1, ProcessKeeps, QuietKeeps
<1>2. ASSUME NEW w \in Workers, Serve(w) \/ FailFill(w) PROVE IInv'
    BY <1>2, FillKeeps, StartKeeps, FinishKeeps, FailKeeps DEF Serve
<1>3. ASSUME NEW w \in Workers, NEW u \in Users, Fail(w, u) PROVE IInv'
    BY <1>3, FailKeeps
<1>4. ASSUME NEW w \in Workers, NEW keys \in SUBSET Users, Ask(w, keys) PROVE IInv'
    BY <1>4, AskKeeps
<1>5. ASSUME UNCHANGED vars PROVE IInv'
    BY <1>5 DEF vars, IInv, Types, Book, Brought, Neat, NeatList, NeatTask, AllFine, Fine,
                Shows, Leaves, Top, Views, TaskViews
<1> QED BY <1>1, <1>2, <1>3, <1>4, <1>5 DEF Next

LEMMA Holds == Spec => []IInv
BY InitInv, NextInv, PTL DEF Spec

(* What memcached shows of a user whose outbox took every change, and has none to take. *)
LEMMA ListFine ==
    ASSUME IInv, NEW u \in Users, op[u] = NoOp, u \notin missed
    PROVE  /\ memc[u] \in Seq(Feeds) /\ storage[u] \in SUBSET Feeds
           /\ Descends(memc[u]) /\ Len(memc[u]) <= Size
           /\ Range(memc[u]) \subseteq storage[u]
           /\ u \notin late => \A x \in storage[u] \ Range(memc[u]), y \in Range(memc[u]) : x < y
<1>1. Types /\ NeatList(memc[u]) /\ Fine(u, storage[u], NoOp, Views(u), missed, late)
    BY DEF IInv, Neat, AllFine
<1>2. Range(memc[u]) \in Views(u)
    BY DEF Views
<1>3. Shows(Range(memc[u]), storage[u], NoOp)
    BY <1>1, <1>2 DEF Fine
<1>4. u \notin late => Leaves(Range(memc[u]), storage[u], NoOp)
    BY <1>1, <1>2 DEF Fine
<1> QED BY <1>1, <1>3, <1>4, OpIs DEF Types, NeatList, Shows, Leaves

(* While the outbox takes every change of a user, and none is on its way, the list that
   memcached has of him shows only feeds that the storage still has, newest first and none
   twice: an update or a delete takes its old feed out of the list as the storage did,
   also when a reader's fill brought the list from before it.              *)
THEOREM NothingGone == Spec => []NoGhost
<1>1. IInv => NoGhost
    <2> SUFFICES ASSUME IInv, NEW u \in Users, u \notin missed, Settled(u)
                 PROVE  /\ Range(memc[u]) \subseteq storage[u]
                        /\ \A i, j \in DOMAIN memc[u] : i < j => memc[u][i] > memc[u][j]
        BY DEF NoGhost
    <2>1. op[u] = NoOp
        BY DEF Settled
    <2> QED BY <2>1, ListFine DEF Descends
<1> QED BY <1>1, Holds, PTL

(* As long as no feed comes late, that list is a front of all the feeds of the user, newest
   first, and no longer than outbox_size: it leaves no feed out that is newer than one it
   shows.                                                                  *)
THEOREM NewestAreShown == Spec => []NewestShown
<1>1. IInv => NewestShown
    <2> SUFFICES ASSUME IInv, NEW u \in Users, u \notin missed, u \notin late, Settled(u)
                 PROVE  /\ Len(memc[u]) <= Size
                        /\ memc[u] = SubSeq(Sorted(storage[u]), 1, Len(memc[u]))
        BY DEF NewestShown
    <2>1. op[u] = NoOp
        BY DEF Settled
    <2>2. /\ memc[u] \in Seq(Feeds) /\ storage[u] \in SUBSET Feeds
          /\ Descends(memc[u]) /\ Len(memc[u]) <= Size
          /\ Range(memc[u]) \subseteq storage[u]
          /\ \A x \in storage[u] \ Range(memc[u]), y \in Range(memc[u]) : x < y
        BY <2>1, ListFine
    <2> QED BY <2>2, NewestAre
<1> QED BY <1>1, Holds, PTL

=============================================================================
