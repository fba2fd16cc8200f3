--------------------------- MODULE Timestamp_proofs ---------------------------
(***************************************************************************)
(* Proofs about Timestamp for every set of users and timestamps, every     *)
(* limit of nodes and every pool that holds one node more.                 *)
(*                                                                         *)
(* The inductive invariant counts the addresses: those ever taken from the *)
(* pool's block, 1 .. pos, are split into the nodes in use, which the list *)
(* lists once each, and the freed ones, which the stack lists once each.   *)
(* So whenever the stack is empty there are as many nodes in use as were   *)
(* ever taken, at most MaxNodes, and the block is not used up: an insert   *)
(* cannot fail, and the cache agrees with the database.                    *)
(***************************************************************************)
EXTENDS Timestamp, SequenceTheorems, TLAPS

-----------------------------------------------------------------------------
(* Sequences that list the addresses of a set, each once.                  *)

Lists(s, X, n) ==
    /\ s \in Seq(Addresses) /\ IsInjective(s) /\ Range(s) = X /\ Len(s) = n

LEMMA ListFacts ==
    ASSUME NEW s, NEW X, NEW n, Lists(s, X, n)
    PROVE  /\ s \in Seq(Addresses) /\ X \subseteq Addresses
           /\ n \in Nat /\ Len(s) = n /\ DOMAIN s = 1 .. n
           /\ \A i \in 1 .. n : s[i] \in X
           /\ \A x \in X : \E i \in 1 .. n : s[i] = x
           /\ \A i, j \in 1 .. n : s[i] = s[j] => i = j
<1>1. s \in Seq(Addresses) /\ Len(s) = n /\ n \in Nat /\ DOMAIN s = 1 .. n
    BY LenProperties DEF Lists
<1>2. X \subseteq Addresses
    BY RangeOfSeq DEF Lists
<1> QED BY <1>1, <1>2 DEF Lists, Range, IsInjective

LEMMA ListIf ==
    ASSUME NEW s \in Seq(Addresses), NEW X, NEW n, Len(s) = n,
           \A i \in 1 .. n : s[i] \in X,
           \A x \in X : \E i \in 1 .. n : s[i] = x,
           \A i, j \in 1 .. n : s[i] = s[j] => i = j
    PROVE  Lists(s, X, n)
<1>1. DOMAIN s = 1 .. n
    BY LenProperties
<1> QED BY <1>1 DEF Lists, Range, IsInjective

LEMMA ListNone == Lists(<<>>, {}, 0)
<1>1. <<>> \in Seq(Addresses) /\ Len(<<>>) = 0
    BY EmptySeq
<1>2. \A i \in 1 .. 0 : FALSE
    OBVIOUS
<1> QED BY <1>1, <1>2, ListIf

LEMMA ListOne ==
    ASSUME NEW a \in Addresses
    PROVE  Lists(<<a>>, {a}, 1)
<1> DEFINE s == <<a>>
<1>1. s \in Seq(Addresses) /\ Len(s) = 1 /\ s[1] = a
    OBVIOUS
<1>2. 1 \in 1 .. 1 /\ \A i \in 1 .. 1 : i = 1
    OBVIOUS
<1> HIDE DEF s
<1>3. Lists(s, {a}, 1)
    BY <1>1, <1>2, ListIf
<1> QED BY <1>3 DEF s

LEMMA ListConcat ==
    ASSUME NEW s, NEW X, NEW m, NEW t, NEW Y, NEW n,
           Lists(s, X, m), Lists(t, Y, n), X \cap Y = {}
    PROVE  Lists(s \o t, X \cup Y, m + n)
<1> DEFINE r == s \o t
<1>1. /\ s \in Seq(Addresses) /\ Len(s) = m /\ m \in Nat
      /\ \A i \in 1 .. m : s[i] \in X
      /\ \A x \in X : \E i \in 1 .. m : s[i] = x
      /\ \A i, j \in 1 .. m : s[i] = s[j] => i = j
    BY ListFacts
<1>2. /\ t \in Seq(Addresses) /\ Len(t) = n /\ n \in Nat
      /\ \A i \in 1 .. n : t[i] \in Y
      /\ \A x \in Y : \E i \in 1 .. n : t[i] = x
      /\ \A i, j \in 1 .. n : t[i] = t[j] => i = j
    BY ListFacts
<1>3. /\ r \in Seq(Addresses) /\ Len(r) = m + n
      /\ \A i \in 1 .. m + n : r[i] = IF i <= m THEN s[i] ELSE t[i - m]
    <2>1. /\ r \in Seq(Addresses) /\ Len(r) = Len(s) + Len(t)
          /\ \A i \in 1 .. Len(s) + Len(t) :
               r[i] = IF i <= Len(s) THEN s[i] ELSE t[i - Len(s)]
        <3>1. s \in Seq(Addresses) /\ t \in Seq(Addresses)
            BY <1>1, <1>2
        <3> QED BY <3>1, ConcatProperties
    <2> HIDE DEF r
    <2> QED BY <2>1, <1>1, <1>2
<1> HIDE DEF r
<1>split. \A i \in 1 .. m + n : IF i <= m THEN i \in 1 .. m ELSE i - m \in 1 .. n
    BY <1>1, <1>2
<1>4. \A i \in 1 .. m + n : \/ i \in 1 .. m /\ r[i] = s[i]
                            \/ i - m \in 1 .. n /\ r[i] = t[i - m]
    BY <1>3, <1>split
<1>5. /\ \A i \in 1 .. m : i \in 1 .. m + n /\ r[i] = s[i]
      /\ \A i \in 1 .. n : m + i \in 1 .. m + n /\ r[m + i] = t[i]
    BY <1>1, <1>2, <1>3
<1>6. \A i \in 1 .. m + n : r[i] \in X \cup Y
    BY <1>1, <1>2, <1>4
<1>7. \A x \in X \cup Y : \E i \in 1 .. m + n : r[i] = x
    BY <1>1, <1>2, <1>5
<1>8. \A i, j \in 1 .. m + n : r[i] = r[j] => i = j
    <2> SUFFICES ASSUME NEW i \in 1 .. m + n, NEW j \in 1 .. m + n, r[i] = r[j]
                 PROVE  i = j
        OBVIOUS
    <2>1. CASE i \in 1 .. m /\ j \in 1 .. m /\ r[i] = s[i] /\ r[j] = s[j]
        BY <2>1, <1>1
    <2>2. CASE i - m \in 1 .. n /\ j - m \in 1 .. n /\ r[i] = t[i - m] /\ r[j] = t[j - m]
        <3>1. i - m = j - m
            BY <2>2, <1>2
        <3> QED BY <3>1, <1>1, <1>2
    <2>3. CASE r[i] \in X /\ r[j] \in Y
        BY <2>3
    <2>4. CASE r[i] \in Y /\ r[j] \in X
        BY <2>4
    <2> QED BY <2>1, <2>2, <2>3, <2>4, <1>1, <1>2, <1>4
<1>9. Lists(r, X \cup Y, m + n)
    BY <1>3, <1>6, <1>7, <1>8, ListIf
<1> QED BY <1>9 DEF r

(* An element taken out, and the two ends of a list. *)
LEMMA ListRemove ==
    ASSUME NEW s, NEW X, NEW n, Lists(s, X, n), NEW i \in 1 .. n
    PROVE  s[i] \in X /\ Lists(RemoveAt(s, i), X \ {s[i]}, n - 1)
<1> DEFINE a == SubSeq(s, 1, i - 1)
<1> DEFINE b == SubSeq(s, i + 1, n)
<1> DEFINE A == {s[k] : k \in 1 .. i - 1}
<1> DEFINE B == {s[k] : k \in i + 1 .. n}
<1>1. /\ s \in Seq(Addresses) /\ Len(s) = n /\ n \in Nat
      /\ \A k \in 1 .. n : s[k] \in X
      /\ \A x \in X : \E k \in 1 .. n : s[k] = x
      /\ \A k, l \in 1 .. n : s[k] = s[l] => k = l
    BY ListFacts
<1>2. \A k \in 1 .. n : s[k] \in Addresses
    BY <1>1, ElementOfSeq
<1>3. Lists(a, A, i - 1)
    <2>1. /\ a \in Seq(Addresses) /\ Len(a) = i - 1
          /\ \A k \in 1 .. i - 1 : a[k] = s[k]
        <3>1. /\ i - 1 \in Int /\ \A k \in 1 .. i - 1 : k \in 1 .. n
            BY <1>1
        <3>2. \A k \in 1 .. i - 1 : s[k] \in Addresses
            BY <3>1, <1>2
        <3> QED BY <3>1, <3>2, SubSeqProperties
    <2>2. \A k \in 1 .. i - 1 : k \in 1 .. n
        BY <1>1
    <2> HIDE DEF a
    <2> QED BY <2>1, <2>2, <1>1, ListIf
<1>4. Lists(b, B, n - i)
    <2>1. /\ b \in Seq(Addresses) /\ Len(b) = n - i
          /\ \A k \in 1 .. n - i : b[k] = s[i + k]
        <3>1. /\ i + 1 \in Int /\ n \in Int /\ \A k \in i + 1 .. n : k \in 1 .. n
            BY <1>1
        <3>2. \A k \in i + 1 .. n : s[k] \in Addresses
            BY <3>1, <1>2
        <3>3. /\ b \in Seq(Addresses)
              /\ Len(b) = IF i + 1 <= n THEN n - (i + 1) + 1 ELSE 0
              /\ \A k \in 1 .. n - (i + 1) + 1 : b[k] = s[(i + 1) + k - 1]
            BY <3>1, <3>2, SubSeqProperties
        <3>4. /\ n - (i + 1) + 1 = n - i
              /\ (IF i + 1 <= n THEN n - (i + 1) + 1 ELSE 0) = n - i
              /\ \A k \in 1 .. n - i : (i + 1) + k - 1 = i + k
            BY <1>1
        <3> HIDE DEF b
        <3> QED BY <3>3, <3>4
    <2>2. /\ \A k \in 1 .. n - i : i + k \in i + 1 .. n /\ i + k \in 1 .. n
          /\ \A k \in i + 1 .. n : k - i \in 1 .. n - i /\ k = i + (k - i)
          /\ \A k, l \in 1 .. n - i : i + k = i + l => k = l
        BY <1>1
    <2> HIDE DEF b
    <2>3. \A k \in 1 .. n - i : b[k] \in B
        BY <2>1, <2>2
    <2>4. \A x \in B : \E k \in 1 .. n - i : b[k] = x
        BY <2>1, <2>2
    <2>5. \A k, l \in 1 .. n - i : b[k] = b[l] => k = l
        BY <2>1, <2>2, <1>1
    <2> HIDE DEF B
    <2> QED BY <2>1, <2>3, <2>4, <2>5, ListIf
<1>5. /\ \A k \in 1 .. i - 1 : k \in 1 .. n /\ k # i /\ k \notin i + 1 .. n
      /\ \A k \in i + 1 .. n : k \in 1 .. n /\ k # i
      /\ \A k \in 1 .. n : k = i \/ k \in 1 .. i - 1 \/ k \in i + 1 .. n
    BY <1>1
<1>6. A \cap B = {} /\ A \cup B = X \ {s[i]}
    BY <1>1, <1>5
<1>7. (i - 1) + (n - i) = n - 1
    BY <1>1
<1> HIDE DEF a, b, A, B
<1>8. Lists(a \o b, A \cup B, (i - 1) + (n - i))
    BY <1>3, <1>4, <1>6, ListConcat
<1>9. RemoveAt(s, i) = a \o b
    BY <1>1 DEF RemoveAt, a, b
<1> QED BY <1>1, <1>6, <1>7, <1>8, <1>9

LEMMA ListMove ==
    ASSUME NEW s, NEW X, NEW n, Lists(s, X, n), NEW x \in X
    PROVE  Lists(<<x>> \o Without(s, x), X, n)
<1> DEFINE i == CHOOSE k \in DOMAIN s : s[k] = x
<1>1. i \in 1 .. n /\ s[i] = x /\ x \in Addresses /\ n \in Nat /\ x \in Range(s)
    BY ListFacts DEF Lists
<1> HIDE DEF i
<1>2. Lists(RemoveAt(s, i), X \ {x}, n - 1)
    BY <1>1, ListRemove
<1>3. Without(s, x) = RemoveAt(s, i)
    BY <1>1 DEF Without, i
<1> DEFINE r == Without(s, x)
<1> DEFINE o == <<x>>
<1>4. Lists(o, {x}, 1) /\ Lists(r, X \ {x}, n - 1)
    BY <1>1, <1>2, <1>3, ListOne
<1>5. {x} \cap (X \ {x}) = {} /\ {x} \cup (X \ {x}) = X /\ 1 + (n - 1) = n
    BY <1>1
<1> HIDE DEF r, o
<1>6. Lists(o \o r, {x} \cup (X \ {x}), 1 + (n - 1))
    BY <1>4, <1>5, ListConcat
<1> QED BY <1>5, <1>6 DEF r, o

LEMMA ListLast ==
    ASSUME NEW s, NEW X, NEW n, Lists(s, X, n), n # 0
    PROVE  /\ s[Len(s)] \in X
           /\ Lists(SubSeq(s, 1, Len(s) - 1), X \ {s[Len(s)]}, n - 1)
<1>1. s \in Seq(Addresses) /\ Len(s) = n /\ n \in Nat /\ n \in 1 .. n
    BY ListFacts
<1>2. s[n] \in X /\ Lists(RemoveAt(s, n), X \ {s[n]}, n - 1)
    BY <1>1, ListRemove
<1>3. RemoveAt(s, n) = SubSeq(s, 1, n - 1)
    <2> DEFINE a == SubSeq(s, 1, n - 1)
    <2>1. SubSeq(s, n + 1, n) = <<>>
        <3>1. n + 1 \in Int /\ n \in Int /\ n < n + 1
            BY <1>1
        <3> QED BY <3>1, SubSeqEmpty
    <2>2. a \in Seq(Addresses)
        <3>1. n - 1 \in Int /\ \A k \in 1 .. n - 1 : k \in 1 .. Len(s)
            BY <1>1
        <3>2. \A k \in 1 .. n - 1 : s[k] \in Addresses
            BY <3>1, <1>1, ElementOfSeq
        <3> QED BY <3>1, <3>2, SubSeqProperties
    <2> HIDE DEF a
    <2>3. a \o <<>> = a
        BY <2>2, ConcatEmptySeq
    <2> QED BY <2>1, <2>3, <1>1 DEF RemoveAt, a
<1> QED BY <1>1, <1>2, <1>3

LEMMA ListHead ==
    ASSUME NEW s, NEW X, NEW n, Lists(s, X, n), s # <<>>
    PROVE  Head(s) \in X /\ Lists(Tail(s), X \ {Head(s)}, n - 1)
<1>1. s \in Seq(Addresses) /\ Len(s) = n /\ n \in Nat /\ 1 \in 1 .. n /\ Head(s) = s[1]
    BY ListFacts, EmptySeq
<1>2. s[1] \in X /\ Lists(RemoveAt(s, 1), X \ {s[1]}, n - 1)
    BY <1>1, ListRemove
<1>3. RemoveAt(s, 1) = Tail(s)
    <2>1. SubSeq(s, 1, 0) = <<>>
        BY SubSeqEmpty
    <2>2. Tail(s) = SubSeq(s, 2, n) /\ Tail(s) \in Seq(Addresses)
        BY <1>1, TailIsSubSeq, HeadTailProperties
    <2>3. <<>> \o Tail(s) = Tail(s)
        BY <2>2, ConcatEmptySeq
    <2>4. RemoveAt(s, 1) = SubSeq(s, 1, 0) \o SubSeq(s, 2, n)
        BY <1>1 DEF RemoveAt
    <2> QED BY <2>1, <2>2, <2>3, <2>4
<1> QED BY <1>1, <1>2, <1>3

-----------------------------------------------------------------------------
(* The inductive invariant.                                                *)

\* The freed addresses.
Freed == (1 .. pos) \ tree

OnePerUser ==
    /\ \A a \in tree : user[a] \in Users
    /\ \A a, b \in tree : user[a] = user[b] => a = b

Books ==
    /\ Lists(lru, tree, num) /\ num <= MaxNodes /\ refs = num
    /\ tree \subseteq 1 .. pos /\ Lists(reuse, Freed, pos - num)
    /\ blocks = 1
    /\ OnePerUser

IInv == TypeOK /\ Books /\ Coherent

LEMMA Limits == MaxNodes \in Nat \ {0} /\ Items \in Nat /\ Items > MaxNodes
BY TimestampAssumption

LEMMA BooksFacts ==
    ASSUME IInv
    PROVE  /\ num \in 0 .. MaxNodes /\ pos \in 0 .. Items /\ num <= pos
           /\ 1 .. pos \subseteq Addresses /\ tree \subseteq 1 .. pos
           /\ reuse = <<>> => pos = num /\ pos < Items /\ tree = 1 .. pos
           /\ Lists(lru, tree, num) /\ Lists(reuse, Freed, pos - num)
<1>1. /\ Lists(lru, tree, num) /\ Lists(reuse, Freed, pos - num) /\ tree \subseteq 1 .. pos
      /\ pos \in 0 .. Items /\ num <= MaxNodes
    BY DEF IInv, Books, TypeOK
<1>2. /\ num \in Nat /\ pos - num \in Nat
      /\ Len(reuse) = pos - num
      /\ \A a \in Freed : \E i \in 1 .. pos - num : reuse[i] = a
    BY <1>1, ListFacts
<1>3. num \in 0 .. MaxNodes /\ num <= pos
    BY <1>1, <1>2, Limits
<1>4. 1 .. pos \subseteq Addresses
    BY <1>1, Limits DEF Addresses
<1>5. ASSUME reuse = <<>>
      PROVE  pos = num /\ pos < Items /\ tree = 1 .. pos
    <2>1. Len(reuse) = 0
        BY <1>5
    <2>2. pos = num /\ pos < Items
        BY <2>1, <1>1, <1>2, Limits
    <2>3. \A i \in 1 .. pos - num : FALSE
        BY <2>2, <1>1
    <2>4. Freed = {}
        BY <2>3, <1>2
    <2> QED BY <2>2, <2>4, <1>1 DEF Freed
<1> QED BY <1>1, <1>3, <1>4, <1>5

LEMMA NeverEmpty == IInv => ~ PoolEmpty
BY BooksFacts DEF PoolEmpty

\* The node that is taken, and what is left of the stack.
LEMMA FreshFacts ==
    ASSUME IInv, Advance
    PROVE  /\ Fresh \in 1 .. pos' /\ Fresh \notin tree /\ tree \subseteq 1 .. pos'
           /\ pos' \in 0 .. Items /\ 1 .. pos' \subseteq Addresses /\ blocks' = 1
           /\ Lists(Rest, (1 .. pos') \ (tree \cup {Fresh}), pos' - num - 1)
<1>1. /\ num \in 0 .. MaxNodes /\ pos \in 0 .. Items /\ num <= pos
      /\ tree \subseteq 1 .. pos /\ Lists(reuse, Freed, pos - num) /\ blocks = 1
    BY BooksFacts DEF IInv, Books
<1>2. blocks' = 1
    BY <1>1, NeverEmpty DEF Advance
<1>3. CASE reuse # <<>>
    <2>1. Fresh = Head(reuse) /\ Rest = Tail(reuse) /\ pos' = pos
        BY <1>3 DEF Fresh, Rest, Advance
    <2>2. Fresh \in Freed /\ Lists(Rest, Freed \ {Fresh}, pos - num - 1)
        <3>1. Head(reuse) \in Freed /\ Lists(Tail(reuse), Freed \ {Head(reuse)}, pos - num - 1)
            BY <1>1, <1>3, ListHead
        <3> QED BY <2>1, <3>1
    <2>3. Freed \ {Fresh} = (1 .. pos) \ (tree \cup {Fresh})
        BY DEF Freed
    <2> QED BY <1>1, <1>2, <2>1, <2>2, <2>3, BooksFacts DEF Freed
<1>4. CASE reuse = <<>>
    <2>1. pos = num /\ pos < Items /\ tree = 1 .. pos
        BY <1>4, BooksFacts
    <2>2. Rest = <<>> /\ pos' = pos + 1
        BY <1>4, <2>1, <1>1 DEF Rest, Advance
    <2>3. Fresh = pos + 1
        <3>1. Fresh = Items * (1 - 1) + pos + 1
            BY <1>1, <1>4, <2>1 DEF Fresh
        <3>2. Items * (1 - 1) + pos + 1 = pos + 1
            BY <1>1, Limits
        <3> QED BY <3>1, <3>2
    <2>4. /\ pos + 1 \in 1 .. pos + 1 /\ pos + 1 \notin 1 .. pos /\ 1 .. pos \subseteq 1 .. pos + 1
          /\ pos + 1 \in 0 .. Items /\ 1 .. pos + 1 \subseteq Addresses
          /\ (1 .. pos + 1) \ ((1 .. pos) \cup {pos + 1}) = {}
          /\ (pos + 1) - pos - 1 = 0
        BY <1>1, <2>1, Limits DEF Addresses
    <2> QED BY <1>2, <2>1, <2>2, <2>3, <2>4, ListNone
<1> QED BY <1>3, <1>4

\* The node that is evicted, and what is left of the list and the tree.
LEMMA VictimFacts ==
    ASSUME IInv
    PROVE  \E V \in SUBSET tree, n \in {0, 1} :
             /\ Lists(Victim, V, n) /\ Len(Victim) = n
             /\ KeptTree = tree \ V /\ Lists(Kept, tree \ V, num - n)
             /\ num - n < MaxNodes
<1>1. num \in 0 .. MaxNodes /\ Lists(lru, tree, num)
    BY BooksFacts
<1>2. CASE num >= MaxNodes
    <2> DEFINE v == lru[Len(lru)]
    <2>1. v \in tree /\ Lists(SubSeq(lru, 1, Len(lru) - 1), tree \ {v}, num - 1)
        <3>1. num # 0
            BY <1>1, <1>2, Limits
        <3> QED BY <1>1, <3>1, ListLast
    <2>2. Victim = <<v>> /\ Kept = SubSeq(lru, 1, Len(lru) - 1)
        BY <1>2 DEF Victim, Kept
    <2> HIDE DEF v
    <2>3. v \in Addresses /\ Lists(<<v>>, {v}, 1)
        <3>1. tree \subseteq Addresses
            BY <1>1, ListFacts
        <3> QED BY <2>1, <3>1, ListOne
    <2>4. Lists(Victim, {v}, 1) /\ Len(Victim) = 1 /\ Range(Victim) = {v}
        BY <2>2, <2>3 DEF Lists
    <2>5. KeptTree = tree \ {v} /\ Lists(Kept, tree \ {v}, num - 1)
        BY <2>1, <2>2, <2>4 DEF KeptTree
    <2>6. num - 1 < MaxNodes
        BY <1>1, Limits
    <2> QED BY <2>1, <2>4, <2>5, <2>6
<1>3. CASE ~(num >= MaxNodes)
    <2>1. Victim = <<>> /\ Kept = lru
        BY <1>3 DEF Victim, Kept
    <2>2. Lists(Victim, {}, 0) /\ Len(Victim) = 0 /\ Range(Victim) = {}
        BY <2>1, ListNone DEF Lists
    <2>3. KeptTree = tree \ {} /\ tree \ {} = tree
        BY <2>2 DEF KeptTree
    <2>4. num - 0 = num /\ num < MaxNodes
        BY <1>1, <1>3, Limits
    <2> QED BY <1>1, <2>1, <2>2, <2>3, <2>4
<1> QED BY <1>2, <1>3

-----------------------------------------------------------------------------
(* The actions keep the invariant.                                         *)

LEMMA InitHolds == Init => IInv
<1> SUFFICES ASSUME Init PROVE IInv
    OBVIOUS
<1>1. Lists(lru, tree, num) /\ lru = <<>> /\ reuse = <<>> /\ tree = {} /\ num = 0 /\ pos = 0
    BY ListNone DEF Init
<1>2. 1 .. 0 = {} /\ (1 .. 0) \ {} = {} /\ 0 - 0 = 0 /\ 0 <= MaxNodes /\ 0 \in 0 .. Items
    BY Limits
<1>3. Lists(reuse, Freed, pos - num)
    BY <1>1, <1>2, ListNone DEF Freed
<1>4. TypeOK
    BY <1>1, <1>2 DEF TypeOK, Init, Lists, Unused
<1>5. Books
    BY <1>1, <1>2, <1>3 DEF Books, OnePerUser, Init
<1>6. Coherent
    BY <1>1 DEF Coherent
<1> QED BY <1>4, <1>5, <1>6 DEF IInv

LEMMA RestartKeeps == ASSUME IInv, Restart PROVE IInv'
<1>1. /\ lru' = <<>> /\ reuse' = <<>> /\ tree' = {} /\ num' = 0 /\ pos' = 0
      /\ refs' = 0 /\ blocks' = 1
      /\ user' = Unused(NoUser) /\ stamp' = Unused(NoStamp)
    BY DEF Restart
<1>2. 1 .. 0 = {} /\ (1 .. 0) \ {} = {} /\ 0 - 0 = 0 /\ 0 <= MaxNodes /\ 0 \in 0 .. Items
    BY Limits
<1>3. Lists(lru', tree', num') /\ Lists(reuse', Freed', pos' - num')
    BY <1>1, <1>2, ListNone DEF Freed
<1>4. memory' \in [Users -> Stamps \cup {NoStamp}] /\ disk' \in [Users -> Stamps \cup {NoStamp}]
    BY DEF Restart, IInv, TypeOK
<1>5. TypeOK'
    BY <1>1, <1>2, <1>3, <1>4 DEF TypeOK, Lists, Unused
<1>6. Books'
    BY <1>1, <1>2, <1>3 DEF Books, OnePerUser
<1>7. Coherent'
    BY <1>1 DEF Coherent
<1> QED BY <1>5, <1>6, <1>7 DEF IInv

\* The caller has stored the timestamp that is inserted.
LEMMA InsertKeeps ==
    ASSUME IInv, NEW u \in Users, NEW t \in Stamps, Insert(u, t),
           memory' \in [Users -> Stamps \cup {NoStamp}], memory'[u] = t,
           \A x \in Users : x # u => memory'[x] = memory[x],
           UNCHANGED disk
    PROVE  IInv'
<1>1. /\ ~ PoolEmpty
      /\ IF NodesOf(u, KeptTree) # {}
         THEN \E b \in NodesOf(u, KeptTree) : InsertOld(u, t, b)
         ELSE InsertNew(u, t)
    BY NeverEmpty DEF Insert
<1> DEFINE f == Fresh
<1> DEFINE rest == Rest
<1>2. /\ Advance /\ user' = [user EXCEPT ![f] = u]
    BY <1>1 DEF InsertOld, InsertNew
<1>3. /\ f \in 1 .. pos' /\ f \notin tree /\ tree \subseteq 1 .. pos'
      /\ pos' \in 0 .. Items /\ 1 .. pos' \subseteq Addresses /\ blocks' = 1
      /\ Lists(rest, (1 .. pos') \ (tree \cup {f}), pos' - num - 1)
    BY <1>2, FreshFacts
<1>4. PICK V \in SUBSET tree, n \in {0, 1} :
        /\ Lists(Victim, V, n) /\ Len(Victim) = n
        /\ KeptTree = tree \ V /\ Lists(Kept, tree \ V, num - n)
        /\ num - n < MaxNodes
    BY VictimFacts
<1>5. /\ num \in Nat /\ num <= MaxNodes /\ refs = num /\ MaxNodes \in Nat
      /\ user \in [Addresses -> Users \cup {NoUser}]
      /\ stamp \in [Addresses -> Stamps \cup {NoStamp}]
      /\ \A a, b \in tree : user[a] = user[b] => a = b
      /\ \A a \in tree : stamp[a] = memory[user[a]] /\ user[a] \in Users
      /\ tree \subseteq Addresses /\ f \in Addresses
    <2>1. tree \subseteq Addresses /\ f \in Addresses
        BY <1>3
    <2> QED BY <2>1, BooksFacts, Limits DEF IInv, TypeOK, Books, OnePerUser, Coherent
<1> DEFINE R == (1 .. pos') \ (tree \cup {f})
<1> HIDE DEF f, rest
<1>6. num - n \in Nat
    BY <1>4, ListFacts
<1>7. CASE NodesOf(u, KeptTree) # {}
    <2>1. PICK b \in NodesOf(u, KeptTree) : InsertOld(u, t, b)
        BY <1>1, <1>7
    <2>2. /\ stamp' = [stamp EXCEPT ![f] = t, ![b] = t]
          /\ lru' = <<b>> \o Without(Kept, b) /\ tree' = tree \ V
          /\ num' = num - n /\ reuse' = <<f>> \o Victim \o rest /\ refs' = refs - n
        BY <2>1, <1>4 DEF InsertOld, f, rest
    <2>3. b \in tree \ V /\ user[b] = u /\ b # f
        BY <1>3, <1>4, <1>7 DEF NodesOf
    <2>4. Lists(lru', tree', num')
        BY <1>4, <2>2, <2>3, ListMove
    <2>5. Lists(reuse', Freed', pos' - num')
        <3>1. {f} \cap V = {} /\ ({f} \cup V) \cap R = {}
            BY <1>3, <1>4
        <3>2. Lists(<<f>>, {f}, 1)
            BY <1>5, ListOne
        <3>3. Lists(<<f>> \o Victim, {f} \cup V, 1 + n)
            BY <3>1, <3>2, <1>4, ListConcat
        <3>4. Lists((<<f>> \o Victim) \o rest, ({f} \cup V) \cup R, (1 + n) + (pos' - num - 1))
            <4> HIDE DEF R
            <4>1. Lists(rest, R, pos' - num - 1)
                BY <1>3 DEF R
            <4> QED BY <3>1, <3>3, <4>1, ListConcat
        <3>5. ({f} \cup V) \cup R = Freed'
            BY <1>3, <1>4, <2>2 DEF Freed
        <3>6. (1 + n) + (pos' - num - 1) = pos' - num'
            <4>1. n \in Int /\ num \in Int /\ pos' \in Int
                BY <1>3, <1>5
            <4> QED BY <4>1, <2>2
        <3> QED BY <2>2, <3>4, <3>5, <3>6
    <2>6. /\ user' \in [Addresses -> Users \cup {NoUser}]
          /\ stamp' \in [Addresses -> Stamps \cup {NoStamp}]
          /\ \A a \in tree' : user'[a] = user[a]
          /\ stamp'[b] = t /\ \A a \in tree' : a # b => stamp'[a] = stamp[a]
        BY <1>2, <1>3, <1>5, <2>2, <2>3
    <2>7. TypeOK'
        BY <1>3, <1>6, <2>2, <2>4, <2>5, <2>6, <1>5 DEF TypeOK, IInv, Lists
    <2>8. Books'
        BY <1>3, <1>4, <1>5, <2>2, <2>4, <2>5, <2>6 DEF Books, OnePerUser
    <2>9. Coherent'
        <3> SUFFICES ASSUME NEW a \in tree' PROVE stamp'[a] = memory'[user'[a]]
            BY DEF Coherent
        <3>1. CASE a = b
            BY <3>1, <2>3, <2>6
        <3>2. CASE a # b
            <4>1. a \in tree /\ user'[a] = user[a] /\ stamp'[a] = memory[user[a]] /\ user[a] # u
                BY <3>2, <2>2, <2>3, <2>6, <1>5
            <4>2. user[a] \in Users
                BY <4>1, <1>5
            <4> QED BY <4>1, <4>2
        <3> QED BY <3>1, <3>2
    <2> QED BY <2>7, <2>8, <2>9 DEF IInv
<1>8. CASE NodesOf(u, KeptTree) = {}
    <2>1. InsertNew(u, t)
        BY <1>1, <1>8
    <2>2. /\ stamp' = [stamp EXCEPT ![f] = t]
          /\ lru' = <<f>> \o Kept /\ tree' = (tree \ V) \cup {f}
          /\ num' = num - n + 1 /\ reuse' = Victim \o rest /\ refs' = refs - n + 1
        BY <2>1, <1>4 DEF InsertNew, f, rest
    <2>3. \A a \in tree \ V : user[a] # u /\ a # f
        BY <1>3, <1>4, <1>8 DEF NodesOf
    <2>4. Lists(lru', tree', num')
        <3>1. Lists(<<f>>, {f}, 1) /\ {f} \cap (tree \ V) = {}
            BY <1>5, <2>3, ListOne
        <3>2. Lists(<<f>> \o Kept, {f} \cup (tree \ V), 1 + (num - n))
            BY <3>1, <1>4, ListConcat
        <3>3. 1 + (num - n) = num' /\ {f} \cup (tree \ V) = tree'
            BY <1>6, <2>2
        <3> QED BY <2>2, <3>2, <3>3
    <2>5. Lists(reuse', Freed', pos' - num')
        <3>1. V \cap R = {}
            OBVIOUS
        <3>2. Lists(Victim \o rest, V \cup R, n + (pos' - num - 1))
            <4> HIDE DEF R
            <4>1. Lists(rest, R, pos' - num - 1)
                BY <1>3 DEF R
            <4> QED BY <3>1, <4>1, <1>4, ListConcat
        <3>3. V \cup R = Freed'
            BY <1>3, <1>4, <2>2 DEF Freed
        <3>4. n + (pos' - num - 1) = pos' - num'
            <4>1. n \in Int /\ num \in Int /\ pos' \in Int
                BY <1>3, <1>5
            <4> QED BY <4>1, <2>2
        <3> QED BY <2>2, <3>2, <3>3, <3>4
    <2>6. /\ user' \in [Addresses -> Users \cup {NoUser}]
          /\ stamp' \in [Addresses -> Stamps \cup {NoStamp}]
          /\ user'[f] = u /\ stamp'[f] = t
          /\ \A a \in tree \ V : user'[a] = user[a] /\ stamp'[a] = stamp[a]
        BY <1>2, <1>3, <1>5, <2>2
    <2>7. num' \in Nat /\ num' <= MaxNodes
        BY <1>4, <1>5, <1>6, <2>2
    <2>8. TypeOK'
        BY <1>3, <1>5, <2>2, <2>4, <2>5, <2>6, <2>7 DEF TypeOK, IInv, Lists
    <2>9. OnePerUser'
        BY <1>5, <2>2, <2>3, <2>6 DEF OnePerUser
    <2>10. Books'
        <3>1. refs' = num'
            BY <1>5, <2>2
        <3> QED BY <1>3, <2>2, <2>4, <2>5, <2>7, <2>9, <3>1 DEF Books
    <2>11. Coherent'
        <3> SUFFICES ASSUME NEW a \in tree' PROVE stamp'[a] = memory'[user'[a]]
            BY DEF Coherent
        <3>1. CASE a = f
            BY <3>1, <2>6
        <3>2. CASE a \in tree \ V
            BY <3>2, <2>3, <2>6, <1>5
        <3> QED BY <3>1, <3>2, <2>2
    <2> QED BY <2>8, <2>10, <2>11 DEF IInv
<1> QED BY <1>7, <1>8

\* Nothing of the cache but the order of its list changes.
LEMMA CacheKeeps ==
    ASSUME IInv, Lists(lru', tree, num), UNCHANGED <<user, stamp, tree, num, pool, memory>>,
           disk' \in [Users -> Stamps \cup {NoStamp}]
    PROVE  IInv'
<1>1. TypeOK'
    BY DEF IInv, TypeOK, Lists, pool
<1>2. Books'
    BY DEF IInv, Books, Freed, OnePerUser, pool
<1>3. Coherent'
    BY DEF IInv, Coherent
<1> QED BY <1>1, <1>2, <1>3 DEF IInv

LEMMA SameCacheKeeps ==
    ASSUME IInv, UNCHANGED <<cache, memory>>, disk' \in [Users -> Stamps \cup {NoStamp}]
    PROVE  IInv'
<1>1. Lists(lru', tree, num)
    BY BooksFacts DEF cache
<1> QED BY <1>1, CacheKeeps DEF cache

LEMMA GetKeeps == ASSUME IInv, NEW u \in Users, Get(u) PROVE IInv'
<1>1. UNCHANGED <<memory, disk>> /\ disk' \in [Users -> Stamps \cup {NoStamp}]
    BY DEF Get, IInv, TypeOK
<1>2. CASE NodesOf(u, tree) # {}
    <2>1. PICK a \in NodesOf(u, tree) : Touch(u, a)
        BY <1>2 DEF Get
    <2>2. Lists(lru', tree, num)
        BY <2>1, BooksFacts, ListMove DEF Touch, NodesOf
    <2> QED BY <1>1, <2>1, <2>2, CacheKeeps DEF Touch
<1>3. CASE UNCHANGED cache
    BY <1>1, <1>3, SameCacheKeeps
<1>4. CASE memory[u] # NoStamp /\ Insert(u, memory[u])
    <2>1. memory[u] \in Stamps /\ memory' \in [Users -> Stamps \cup {NoStamp}]
        BY <1>1, <1>4 DEF IInv, TypeOK
    <2> QED BY <1>1, <1>4, <2>1, InsertKeeps
<1> QED BY <1>2, <1>3, <1>4 DEF Get

LEMMA SetKeeps ==
    ASSUME IInv, NEW u \in Users, NEW t \in Stamps, Set(u, t)
    PROVE  IInv'
<1>1. UNCHANGED disk /\ disk' \in [Users -> Stamps \cup {NoStamp}]
    BY DEF Set, IInv, TypeOK
<1>2. CASE UNCHANGED <<cache, memory>>
    BY <1>1, <1>2, SameCacheKeeps
<1>3. CASE memory' = [memory EXCEPT ![u] = t] /\ Insert(u, t)
    <2>1. memory \in [Users -> Stamps \cup {NoStamp}]
        BY DEF IInv, TypeOK
    <2>2. /\ memory' \in [Users -> Stamps \cup {NoStamp}] /\ memory'[u] = t
          /\ \A x \in Users : x # u => memory'[x] = memory[x]
        BY <1>3, <2>1
    <2> QED BY <1>1, <1>3, <2>2, InsertKeeps
<1> QED BY <1>2, <1>3 DEF Set

LEMMA FlushKeeps == ASSUME IInv, NEW u \in Users, Flush(u) PROVE IInv'
<1>1. disk' \in [Users -> Stamps \cup {NoStamp}] /\ UNCHANGED <<cache, memory>>
    BY DEF Flush, IInv, TypeOK
<1> QED BY <1>1, SameCacheKeeps

LEMMA NextKeeps == IInv /\ [Next]_vars => IInv'
<1> SUFFICES ASSUME IInv, [Next]_vars PROVE IInv'
    OBVIOUS
<1>1. ASSUME NEW u \in Users, Get(u) \/ Flush(u) \/ (\E t \in Stamps : Set(u, t))
      PROVE  IInv'
    BY <1>1, GetKeeps, FlushKeeps, SetKeeps
<1>2. CASE Restart
    BY <1>2, RestartKeeps
<1>3. CASE UNCHANGED vars
    <2>1. UNCHANGED <<cache, memory>> /\ disk' \in [Users -> Stamps \cup {NoStamp}]
        BY <1>3 DEF vars, IInv, TypeOK
    <2> QED BY <2>1, SameCacheKeeps
<1> QED BY <1>1, <1>2, <1>3 DEF Next

LEMMA Invariance == Spec => []IInv
BY InitHolds, NextKeeps, PTL DEF Spec

-----------------------------------------------------------------------------
(* The theorems.                                                           *)

\* Nodes, stack, list and tree keep their types, and the pool never has more than its
\* two blocks (mempool.cpp).
THEOREM TypeCorrect == Spec => []TypeOK
<1>1. IInv => TypeOK
    BY DEF IInv
<1> QED BY <1>1, Invariance, PTL

\* However many nodes the cache may have, as long as the pool holds one more: list, tree,
\* counter and pool agree on the nodes in use, no user has two, and no insert ever finds
\* the pool empty (tm_cache_insert, mempool_alloc, mempool_free).
THEOREM CacheAndPoolAgree == Spec => []Structure
<1>1. IInv => Structure
    <2> SUFFICES ASSUME IInv PROVE Structure
        OBVIOUS
    <2>1. /\ IsInjective(lru) /\ Range(lru) = tree /\ num = Len(lru)
          /\ IsInjective(reuse) /\ Range(reuse) = Freed
        BY BooksFacts DEF Lists
    <2>2. /\ num <= MaxNodes /\ refs = num /\ tree \subseteq 1 .. pos /\ blocks = 1
          /\ \A a, b \in tree : user[a] = user[b] => a = b
        BY DEF IInv, Books, OnePerUser
    <2>3. Range(reuse) \cap tree = {} /\ Range(reuse) \cup tree = 1 .. pos
        BY <2>1, <2>2 DEF Freed
    <2> QED BY <2>1, <2>2, <2>3, NeverEmpty DEF Structure
<1> QED BY <1>1, Invariance, PTL

\* What the cache would answer is what the database holds, through evictions, failures,
\* nodes used again and restarts (get_timestamp, set_timestamp).
THEOREM CacheCoherent == Spec => []Coherent
<1>1. IInv => Coherent
    BY DEF IInv
<1> QED BY <1>1, Invariance, PTL

\* Each step is one of UserValues, or changes nothing that it sees.
LEMMA StepMaps ==
    ASSUME IInv, [Next]_vars
    PROVE  Abstract!Next \/ UNCHANGED <<memory, disk, reply>>
<1>1. ASSUME NEW u \in Users, Get(u)
      PROVE  Abstract!Get(u) \/ Abstract!Refuse
    <2>1. UNCHANGED <<memory, disk>>
        BY <1>1 DEF Get
    <2>2. CASE NodesOf(u, tree) # {}
        <3>1. PICK a \in NodesOf(u, tree) : reply' = <<"get", u, stamp[a]>>
            BY <1>1, <2>2 DEF Get
        <3>2. stamp[a] = memory[u]
            BY <3>1 DEF NodesOf, IInv, Coherent
        <3> QED BY <2>1, <3>1, <3>2 DEF Abstract!Get
    <2>3. CASE NodesOf(u, tree) = {}
        <3>1. \/ reply' = <<"get", u, memory[u]>>
              \/ memory[u] = NoStamp /\ reply' = <<"get", u, NoStamp>>
              \/ reply' = <<"error">>
            BY <1>1, <2>3 DEF Get
        <3> QED BY <2>1, <3>1 DEF Abstract!Get, Abstract!Refuse
    <2> QED BY <2>2, <2>3
<1>2. ASSUME NEW u \in Users, NEW t \in Stamps, Set(u, t)
      PROVE  Abstract!Set(u, t) \/ Abstract!Refuse
    BY <1>2 DEF Set, Abstract!Set, Abstract!Refuse
<1>3. ASSUME NEW u \in Users, Flush(u)
      PROVE  Abstract!Save(u)
    BY <1>3 DEF Flush, Abstract!Save
<1>4. CASE Restart
    BY <1>4 DEF Restart, Abstract!Restart, Abstract!Next
<1>5. CASE UNCHANGED vars
    BY <1>5 DEF vars
<1> QED BY <1>1, <1>2, <1>3, <1>4, <1>5 DEF Next, Abstract!Next

\* For every size of cache and pool, the server with its cache answers and stores what
\* the plain values would, and a death takes back at most what was not yet written.
THEOREM ServerIsUserValues == Spec => ImplementsUserValues
<1>1. Init => Abstract!Init
    BY DEF Init, Abstract!Init
<1>2. IInv /\ [Next]_vars => [Abstract!Next]_Abstract!vars
    BY StepMaps DEF Abstract!vars
<1> QED BY <1>1, <1>2, Invariance, PTL DEF Spec, ImplementsUserValues, Abstract!Spec

-----------------------------------------------------------------------------
(* The order of use.  The list of nodes mirrors the front of the history   *)
(* of users; whatever is moved to the front stands at the same place in    *)
(* both, or behind all that the list has.                                  *)

\* The element at place k, or a new one, moves to the front.
Moved(s, x, k, r) ==
    /\ Len(r) = IF k <= Len(s) THEN Len(s) ELSE Len(s) + 1
    /\ r[1] = x
    /\ \A i \in 2 .. Len(r) : r[i] = IF i <= k THEN s[i - 1] ELSE s[i]

Place(s, x, k) ==
    /\ k \in 1 .. Len(s) + 1
    /\ k <= Len(s) => s[k] = x
    /\ k = Len(s) + 1 => x \notin Range(s)

LEMMA PartsOf ==
    ASSUME NEW S, NEW s \in Seq(S), NEW k \in 1 .. Len(s)
    PROVE  /\ SubSeq(s, 1, k - 1) \in Seq(S) /\ Len(SubSeq(s, 1, k - 1)) = k - 1
           /\ \A i \in 1 .. k - 1 : SubSeq(s, 1, k - 1)[i] = s[i]
           /\ SubSeq(s, k + 1, Len(s)) \in Seq(S) /\ Len(SubSeq(s, k + 1, Len(s))) = Len(s) - k
           /\ \A i \in 1 .. Len(s) - k : SubSeq(s, k + 1, Len(s))[i] = s[k + i]
<1> DEFINE n == Len(s)
           a == SubSeq(s, 1, k - 1)
           b == SubSeq(s, k + 1, n)
<1>1. n \in Nat /\ \A i \in 1 .. n : s[i] \in S
    BY LenProperties, ElementOfSeq
<1>2. /\ k - 1 \in Int /\ k + 1 \in Int /\ n \in Int
      /\ \A i \in 1 .. k - 1 : i \in 1 .. n
      /\ \A i \in k + 1 .. n : i \in 1 .. n
    BY <1>1
<1>3. /\ \A i \in 1 .. k - 1 : s[i] \in S
      /\ \A i \in k + 1 .. n : s[i] \in S
    BY <1>1, <1>2
<1>4. /\ a \in Seq(S) /\ Len(a) = k - 1
      /\ \A i \in 1 .. k - 1 : a[i] = s[i]
    BY <1>2, <1>3, SubSeqProperties
<1>5. /\ b \in Seq(S)
      /\ Len(b) = IF k + 1 <= n THEN n - (k + 1) + 1 ELSE 0
      /\ \A i \in 1 .. n - (k + 1) + 1 : b[i] = s[(k + 1) + i - 1]
    BY <1>2, <1>3, SubSeqProperties
<1>6. /\ n - (k + 1) + 1 = n - k
      /\ (IF k + 1 <= n THEN n - (k + 1) + 1 ELSE 0) = n - k
      /\ \A i \in 1 .. n - k : (k + 1) + i - 1 = k + i
    BY <1>1
<1> HIDE DEF a, b
<1>7. Len(b) = n - k /\ \A i \in 1 .. n - k : b[i] = s[k + i]
    BY <1>5, <1>6
<1> QED BY <1>4, <1>5, <1>7 DEF a, b

LEMMA MoveFront ==
    ASSUME NEW S, NEW s \in Seq(S), IsInjective(s), NEW x \in S, NEW k, Place(s, x, k)
    PROVE  <<x>> \o Without(s, x) \in Seq(S) /\ Moved(s, x, k, <<x>> \o Without(s, x))
<1> DEFINE n == Len(s)
           w == Without(s, x)
           o == <<x>>
           r == o \o w
<1>1. /\ n \in Nat /\ DOMAIN s = 1 .. n /\ k \in 1 .. n + 1
      /\ \A i \in 1 .. n : s[i] \in S
      /\ \A i, j \in 1 .. n : s[i] = s[j] => i = j
    BY LenProperties, ElementOfSeq DEF Place, IsInjective
<1>2. /\ w \in Seq(S) /\ Len(w) = IF k <= n THEN n - 1 ELSE n
      /\ \A i \in 1 .. Len(w) : w[i] = IF i < k THEN s[i] ELSE s[i + 1]
    <2>1. CASE k = n + 1
        <3>1. w = s
            BY <2>1 DEF Place, Without
        <3>2. ~ (k <= n) /\ \A i \in 1 .. n : i < k
            BY <1>1, <2>1
        <3> HIDE DEF w
        <3> QED BY <3>1, <3>2, <1>1
    <2>2. CASE k <= n
        <3> DEFINE a == SubSeq(s, 1, k - 1)
                   b == SubSeq(s, k + 1, n)
                   c == CHOOSE i \in DOMAIN s : s[i] = x
        <3>1. k \in 1 .. n /\ s[k] = x /\ x \in Range(s)
            BY <1>1, <2>2 DEF Place, Range
        <3>2. c \in 1 .. n /\ s[c] = x
            BY <1>1, <3>1
        <3>3. c = k
            <4> HIDE DEF c
            <4> QED BY <3>1, <3>2, <1>1
        <3>4. w = a \o b
            <4>1. w = RemoveAt(s, c)
                BY <3>1 DEF Without
            <4> QED BY <3>3, <4>1 DEF RemoveAt
        <3>5. /\ a \in Seq(S) /\ Len(a) = k - 1 /\ \A i \in 1 .. k - 1 : a[i] = s[i]
              /\ b \in Seq(S) /\ Len(b) = n - k /\ \A i \in 1 .. n - k : b[i] = s[k + i]
            BY <3>1, PartsOf
        <3> HIDE DEF a, b, c, w
        <3>6. /\ w \in Seq(S) /\ Len(w) = Len(a) + Len(b)
              /\ \A i \in 1 .. Len(a) + Len(b) :
                   w[i] = IF i <= Len(a) THEN a[i] ELSE b[i - Len(a)]
            <4>1. a \in Seq(S) /\ b \in Seq(S)
                BY <3>5
            <4> QED BY <4>1, <3>4, ConcatProperties
        <3>7. Len(w) = n - 1
            BY <3>1, <3>5, <3>6, <1>1
        <3>8. \A i \in 1 .. n - 1 : w[i] = IF i < k THEN s[i] ELSE s[i + 1]
            <4> SUFFICES ASSUME NEW i \in 1 .. n - 1
                         PROVE  w[i] = IF i < k THEN s[i] ELSE s[i + 1]
                OBVIOUS
            <4>1. i \in 1 .. Len(a) + Len(b)
                BY <3>5, <3>1, <1>1
            <4>2. CASE i < k
                <5>1. i \in 1 .. k - 1 /\ i <= Len(a)
                    BY <4>2, <3>5, <3>1
                <5> QED BY <4>1, <4>2, <5>1, <3>5, <3>6
            <4>3. CASE ~ (i < k)
                <5>1. ~ (i <= Len(a)) /\ i - Len(a) \in 1 .. n - k /\ k + (i - Len(a)) = i + 1
                    BY <4>3, <3>5, <3>1, <1>1
                <5> QED BY <4>1, <4>3, <5>1, <3>5, <3>6
            <4> QED BY <4>2, <4>3
        <3> QED BY <2>2, <3>6, <3>7, <3>8
    <2>3. k = n + 1 \/ k <= n
        BY <1>1
    <2> HIDE DEF w
    <2> QED BY <2>1, <2>2, <2>3
<1>3. o \in Seq(S) /\ Len(o) = 1 /\ o[1] = x
    OBVIOUS
<1> HIDE DEF w, o
<1>4. /\ r \in Seq(S) /\ Len(r) = Len(o) + Len(w)
      /\ \A i \in 1 .. Len(o) + Len(w) : r[i] = IF i <= Len(o) THEN o[i] ELSE w[i - Len(o)]
    <2>1. o \in Seq(S) /\ w \in Seq(S)
        BY <1>2, <1>3
    <2> QED BY <2>1, ConcatProperties
<1> HIDE DEF r
<1>5. Len(w) \in Nat /\ Len(r) = 1 + Len(w)
    <2>1. Len(w) \in Nat
        BY <1>2, LenProperties
    <2> QED BY <2>1, <1>3, <1>4
<1>6. Len(r) = IF k <= n THEN n ELSE n + 1
    <2>1. Len(w) = IF k <= n THEN n - 1 ELSE n
        BY <1>2
    <2> HIDE DEF n
    <2> QED BY <1>1, <2>1, <1>5
<1>7. r[1] = x
    BY <1>3, <1>4, <1>5
<1>8. \A i \in 2 .. Len(r) : r[i] = IF i <= k THEN s[i - 1] ELSE s[i]
    <2> SUFFICES ASSUME NEW i \in 2 .. Len(r) PROVE r[i] = IF i <= k THEN s[i - 1] ELSE s[i]
        OBVIOUS
    <2>1. /\ i \in 1 .. Len(o) + Len(w) /\ ~ (i <= Len(o)) /\ i - Len(o) = i - 1
          /\ i - 1 \in 1 .. Len(w) /\ (i - 1 < k <=> i <= k) /\ (i - 1) + 1 = i
        BY <1>1, <1>3, <1>5
    <2>2. r[i] = w[i - 1]
        BY <1>4, <2>1
    <2>3. w[i - 1] = IF i - 1 < k THEN s[i - 1] ELSE s[(i - 1) + 1]
        BY <1>2, <2>1
    <2> QED BY <2>1, <2>2, <2>3
<1> QED BY <1>4, <1>6, <1>7, <1>8 DEF Moved, r, o, w

LEMMA MovedInjective ==
    ASSUME NEW S, NEW s \in Seq(S), IsInjective(s), NEW x, NEW k, Place(s, x, k),
           NEW r \in Seq(S), Moved(s, x, k, r)
    PROVE  IsInjective(r)
<1>1. /\ Len(s) \in Nat /\ DOMAIN s = 1 .. Len(s) /\ k \in 1 .. Len(s) + 1
      /\ \A i, j \in 1 .. Len(s) : s[i] = s[j] => i = j
      /\ Len(r) \in Nat /\ DOMAIN r = 1 .. Len(r)
    BY LenProperties DEF Place, IsInjective
<1> DEFINE p(i) == IF i <= k THEN i - 1 ELSE i
<1>2. \A i \in 2 .. Len(r) : p(i) \in 1 .. Len(s) /\ p(i) # k /\ r[i] = s[p(i)]
    BY <1>1 DEF Moved
<1>3. \A i \in 2 .. Len(r) : r[i] # x
    <2> SUFFICES ASSUME NEW i \in 2 .. Len(r), s[p(i)] = x PROVE FALSE
        BY <1>2
    <2>1. p(i) \in 1 .. Len(s) /\ p(i) # k
        BY <1>2
    <2> HIDE DEF p
    <2>2. CASE k <= Len(s)
        <3>1. s[k] = x /\ k \in 1 .. Len(s)
            BY <2>2, <1>1 DEF Place
        <3> QED BY <3>1, <2>1, <1>1
    <2>3. CASE ~ (k <= Len(s))
        <3>1. x \notin Range(s)
            BY <2>3, <1>1 DEF Place
        <3> QED BY <3>1, <2>1, <1>1 DEF Range
    <2> QED BY <2>2, <2>3
<1>4. \A i, j \in 2 .. Len(r) : p(i) = p(j) => i = j
    BY <1>1
<1>5. \A i, j \in 2 .. Len(r) : r[i] = r[j] => i = j
    BY <1>1, <1>2, <1>4
<1>6. r[1] = x /\ \A i \in 1 .. Len(r) : i = 1 \/ i \in 2 .. Len(r)
    BY <1>1 DEF Moved
<1>7. \A i, j \in 1 .. Len(r) : r[i] = r[j] => i = j
    BY <1>3, <1>5, <1>6
<1> QED BY <1>1, <1>7 DEF IsInjective

\* Each element has a place.
LEMMA PlaceExists ==
    ASSUME NEW S, NEW s \in Seq(S), NEW x
    PROVE  \E k \in 1 .. Len(s) + 1 : Place(s, x, k)
<1>1. Len(s) \in Nat /\ DOMAIN s = 1 .. Len(s)
    BY LenProperties
<1>2. CASE x \in Range(s)
    <2>1. PICK k \in 1 .. Len(s) : s[k] = x
        BY <1>1, <1>2 DEF Range
    <2>2. k \in 1 .. Len(s) + 1 /\ k # Len(s) + 1
        BY <1>1
    <2> QED BY <2>1, <2>2 DEF Place
<1>3. CASE x \notin Range(s)
    <2>1. Len(s) + 1 \in 1 .. Len(s) + 1 /\ ~ (Len(s) + 1 <= Len(s))
        BY <1>1
    <2> QED BY <1>3, <2>1 DEF Place
<1> QED BY <1>2, <1>3

\* Users that a list of nodes stands for, by what is in the nodes.
Mirrors(s, g, h) == \A i \in 1 .. Len(s) : g[s[i]] = h[i]

Order ==
    /\ recency \in Seq(Users) /\ IsInjective(recency)
    /\ Mirrors(lru, user, recency)
    /\ num <= Len(recency)
    /\ num = Len(recency) \/ num >= MaxNodes - 1

LEMMA MirrorMoves ==
    ASSUME NEW s \in Seq(Addresses), IsInjective(s), NEW h \in Seq(Users), IsInjective(h),
           NEW g, Mirrors(s, g, h), Len(s) <= Len(h),
           NEW a \in Range(s), NEW u \in Users, g[a] = u
    PROVE  /\ Mirrors(<<a>> \o Without(s, a), g, <<u>> \o Without(h, u))
           /\ Len(<<a>> \o Without(s, a)) = Len(s)
           /\ Len(<<u>> \o Without(h, u)) = Len(h)
           /\ <<u>> \o Without(h, u) \in Seq(Users)
           /\ IsInjective(<<u>> \o Without(h, u))
<1> DEFINE r == <<a>> \o Without(s, a)
           q == <<u>> \o Without(h, u)
<1>1. /\ Len(s) \in Nat /\ DOMAIN s = 1 .. Len(s) /\ Len(h) \in Nat /\ DOMAIN h = 1 .. Len(h)
    BY LenProperties
<1>2. PICK k \in 1 .. Len(s) : s[k] = a
    BY <1>1 DEF Range
<1>3. a \in Addresses
    BY <1>2, ElementOfSeq
<1>4. Place(s, a, k) /\ Place(h, u, k)
    <2>1. k \in 1 .. Len(s) + 1 /\ k \in 1 .. Len(h) + 1 /\ k # Len(s) + 1 /\ k # Len(h) + 1
        BY <1>1
    <2>2. h[k] = u
        BY <1>2 DEF Mirrors
    <2> QED BY <1>2, <2>1, <2>2 DEF Place
<1>5. Moved(s, a, k, r) /\ r \in Seq(Addresses)
    BY <1>3, <1>4, MoveFront
<1>6. Moved(h, u, k, q) /\ q \in Seq(Users)
    BY <1>4, MoveFront
<1> HIDE DEF r, q
<1>7. IsInjective(q)
    BY <1>4, <1>6, MovedInjective
<1>8. Len(r) = Len(s) /\ Len(q) = Len(h)
    <2>1. Len(r) = IF k <= Len(s) THEN Len(s) ELSE Len(s) + 1
        BY <1>5 DEF Moved
    <2>2. Len(q) = IF k <= Len(h) THEN Len(h) ELSE Len(h) + 1
        BY <1>6 DEF Moved
    <2>3. k <= Len(s) /\ k <= Len(h)
        BY <1>1
    <2> QED BY <2>1, <2>2, <2>3
<1>9. Mirrors(r, g, q)
    <2> SUFFICES ASSUME NEW i \in 1 .. Len(s) PROVE g[r[i]] = q[i]
        BY <1>8 DEF Mirrors
    <2>1. CASE i = 1
        BY <2>1, <1>5, <1>6 DEF Moved
    <2>2. CASE i # 1
        <3>1. i \in 2 .. Len(r) /\ i \in 2 .. Len(q) /\ i - 1 \in 1 .. Len(s)
            BY <2>2, <1>1, <1>8
        <3>2. /\ r[i] = IF i <= k THEN s[i - 1] ELSE s[i]
              /\ q[i] = IF i <= k THEN h[i - 1] ELSE h[i]
            BY <3>1, <1>5, <1>6 DEF Moved
        <3>3. g[s[i]] = h[i] /\ g[s[i - 1]] = h[i - 1]
            BY <3>1 DEF Mirrors
        <3> QED BY <3>2, <3>3
    <2> QED BY <2>1, <2>2
<1> QED BY <1>6, <1>7, <1>8, <1>9 DEF r, q

\* A node in front of a list that does not have the user.
LEMMA MirrorGrows ==
    ASSUME NEW s \in Seq(Addresses), NEW h \in Seq(Users), IsInjective(h),
           NEW g, Mirrors(s, g, h), Len(s) <= Len(h),
           NEW f \in Addresses, NEW u \in Users, g[f] = u, \A i \in 1 .. Len(s) : g[s[i]] # u
    PROVE  /\ Mirrors(<<f>> \o s, g, <<u>> \o Without(h, u))
           /\ Len(<<f>> \o s) = Len(s) + 1
           /\ Len(<<u>> \o Without(h, u)) \in {Len(h), Len(h) + 1}
           /\ Len(s) + 1 <= Len(<<u>> \o Without(h, u))
           /\ Len(s) = Len(h) => Len(<<u>> \o Without(h, u)) = Len(s) + 1
           /\ <<u>> \o Without(h, u) \in Seq(Users)
           /\ IsInjective(<<u>> \o Without(h, u))
<1> DEFINE r == <<f>> \o s
           q == <<u>> \o Without(h, u)
           o == <<f>>
<1>1. /\ Len(s) \in Nat /\ DOMAIN s = 1 .. Len(s) /\ Len(h) \in Nat /\ DOMAIN h = 1 .. Len(h)
    BY LenProperties
<1>2. PICK k \in 1 .. Len(h) + 1 : Place(h, u, k)
    BY PlaceExists
<1>3. k > Len(s)
    <2> SUFFICES ASSUME k <= Len(s) PROVE FALSE
        BY <1>1
    <2>1. k \in 1 .. Len(s) /\ k <= Len(h)
        BY <1>1
    <2>2. h[k] = u /\ g[s[k]] = h[k]
        BY <2>1, <1>2 DEF Place, Mirrors
    <2> QED BY <2>1, <2>2
<1>4. Moved(h, u, k, q) /\ q \in Seq(Users)
    BY <1>2, MoveFront
<1>5. o \in Seq(Addresses) /\ Len(o) = 1 /\ o[1] = f
    OBVIOUS
<1> HIDE DEF q, o
<1>6. IsInjective(q)
    BY <1>2, <1>4, MovedInjective
<1>7. /\ Len(o \o s) = Len(o) + Len(s)
      /\ \A i \in 1 .. Len(o) + Len(s) :
           (o \o s)[i] = IF i <= Len(o) THEN o[i] ELSE s[i - Len(o)]
    <2>1. o \in Seq(Addresses) /\ s \in Seq(Addresses)
        BY <1>5
    <2> QED BY <2>1, ConcatProperties
<1>8. /\ Len(r) = Len(s) + 1 /\ r[1] = f
      /\ \A i \in 2 .. Len(s) + 1 : r[i] = s[i - 1]
    <2>1. r = o \o s
        BY DEF o
    <2>2. Len(r) = Len(s) + 1
        BY <1>1, <1>5, <1>7, <2>1
    <2>3. r[1] = f
        BY <1>1, <1>5, <1>7, <2>1
    <2>4. ASSUME NEW i \in 2 .. Len(s) + 1 PROVE r[i] = s[i - 1]
        <3>1. i \in 1 .. Len(o) + Len(s) /\ ~ (i <= Len(o)) /\ i - Len(o) = i - 1
            BY <1>1, <1>5
        <3> QED BY <3>1, <1>7, <2>1
    <2> QED BY <2>2, <2>3, <2>4
<1> HIDE DEF r
<1>9. /\ Len(q) = IF k <= Len(h) THEN Len(h) ELSE Len(h) + 1
      /\ q[1] = u /\ \A i \in 2 .. Len(q) : q[i] = IF i <= k THEN h[i - 1] ELSE h[i]
    BY <1>4 DEF Moved
<1> DEFINE ls == Len(s)
           lh == Len(h)
           lq == Len(q)
<1>10. ls \in Nat /\ lh \in Nat /\ k \in Nat /\ k > ls /\ ls <= lh
    BY <1>1, <1>3
<1> HIDE DEF ls, lh, lq
<1>11. /\ lq \in {lh, lh + 1} /\ lq \in Nat
       /\ ls + 1 <= lq /\ (ls = lh => lq = ls + 1)
    <2>1. lq = IF k <= lh THEN lh ELSE lh + 1
        BY <1>9 DEF lq, lh
    <2> QED BY <2>1, <1>10
<1>12. Mirrors(r, g, q)
    <2> SUFFICES ASSUME NEW i \in 1 .. Len(s) + 1 PROVE g[r[i]] = q[i]
        BY <1>8 DEF Mirrors
    <2>1. CASE i = 1
        BY <2>1, <1>8, <1>9
    <2>2. CASE i # 1
        <3>1. i \in 2 .. Len(s) + 1 /\ i \in 2 .. Len(q) /\ i <= k /\ i - 1 \in 1 .. Len(s)
            <4> HIDE DEF Mirrors
            <4>1. i \in 2 .. ls + 1 /\ i \in 2 .. lq /\ i <= k /\ i - 1 \in 1 .. ls
                <5>1. i \in 1 .. ls + 1
                    BY DEF ls
                <5> QED BY <5>1, <2>2, <1>10, <1>11
            <4> QED BY <4>1 DEF ls, lq
        <3>2. r[i] = s[i - 1] /\ q[i] = h[i - 1]
            BY <3>1, <1>8, <1>9
        <3> QED BY <3>1, <3>2 DEF Mirrors
    <2> QED BY <2>1, <2>2
<1> QED BY <1>4, <1>6, <1>8, <1>11, <1>12 DEF r, q, ls, lh, lq

\* What is kept of the list is its front.
LEMMA KeptIsFront ==
    ASSUME IInv
    PROVE  /\ Kept \in Seq(Addresses) /\ IsInjective(Kept) /\ Range(Kept) = KeptTree
           /\ KeptTree \subseteq tree
           /\ Len(Kept) = num - Len(Victim) /\ Len(Victim) \in {0, 1}
           /\ num >= MaxNodes <=> Len(Victim) = 1
           /\ \A i \in 1 .. Len(Kept) : Kept[i] = lru[i]
<1>1. /\ num \in 0 .. MaxNodes /\ lru \in Seq(Addresses) /\ Len(lru) = num /\ num \in Nat
    BY BooksFacts, ListFacts
<1>2. PICK V \in SUBSET tree, n \in {0, 1} :
        /\ Len(Victim) = n /\ KeptTree = tree \ V /\ Lists(Kept, tree \ V, num - n)
    BY VictimFacts
<1>3. /\ Kept \in Seq(Addresses) /\ IsInjective(Kept) /\ Range(Kept) = KeptTree
      /\ Len(Kept) = num - Len(Victim)
    BY <1>2 DEF Lists
<1>4. CASE num >= MaxNodes
    <2>1. num \in 1 .. num /\ MaxNodes \in Nat \ {0}
        BY <1>1, <1>4, Limits
    <2>2. Kept = SubSeq(lru, 1, num - 1)
        BY <1>1, <1>4 DEF Kept
    <2>3. /\ Len(SubSeq(lru, 1, num - 1)) = num - 1
          /\ \A i \in 1 .. num - 1 : SubSeq(lru, 1, num - 1)[i] = lru[i]
        BY <1>1, <2>1, PartsOf
    <2>4. Len(Kept) = num - 1 /\ \A i \in 1 .. num - 1 : Kept[i] = lru[i]
        BY <2>2, <2>3
    <2>5. Len(Victim) = 1
        BY <1>1, <1>2, <1>3, <2>4
    <2> QED BY <1>2, <1>3, <1>4, <2>4, <2>5
<1>5. CASE ~ (num >= MaxNodes)
    <2>1. Kept = lru
        BY <1>5 DEF Kept
    <2>2. Len(Victim) = 0
        BY <1>1, <1>2, <1>3, <2>1
    <2> QED BY <1>2, <1>3, <1>5, <2>1, <2>2
<1> QED BY <1>4, <1>5

LEMMA InsertOrder ==
    ASSUME IInv, Order, NEW u \in Users, NEW t, Insert(u, t)
    PROVE  Order'
<1> DEFINE f == Fresh
<1>1. /\ Used(u)
      /\ IF NodesOf(u, KeptTree) # {}
         THEN \E b \in NodesOf(u, KeptTree) : InsertOld(u, t, b)
         ELSE InsertNew(u, t)
    BY NeverEmpty DEF Insert
<1>2. /\ Advance /\ user' = [user EXCEPT ![f] = u]
    BY <1>1 DEF InsertOld, InsertNew
<1>3. f \in Addresses /\ f \notin tree
    BY <1>2, FreshFacts
<1>4. /\ Kept \in Seq(Addresses) /\ IsInjective(Kept) /\ Range(Kept) = KeptTree
      /\ KeptTree \subseteq tree
      /\ Len(Kept) = num - Len(Victim) /\ Len(Victim) \in {0, 1}
      /\ num >= MaxNodes <=> Len(Victim) = 1
      /\ \A i \in 1 .. Len(Kept) : Kept[i] = lru[i]
    BY KeptIsFront
<1>5. /\ num \in 0 .. MaxNodes /\ num \in Nat /\ Len(lru) = num /\ MaxNodes \in Nat \ {0}
      /\ user \in [Addresses -> Users \cup {NoUser}]
    BY BooksFacts, ListFacts, Limits DEF IInv, TypeOK
<1>6. /\ recency \in Seq(Users) /\ IsInjective(recency) /\ Len(recency) \in Nat
      /\ recency' = <<u>> \o Without(recency, u)
      /\ num <= Len(recency) /\ (num = Len(recency) \/ num >= MaxNodes - 1)
    BY <1>1, LenProperties DEF Order, Used
<1> HIDE DEF f
<1>7. /\ DOMAIN Kept = 1 .. Len(Kept) /\ \A i \in 1 .. Len(Kept) : Kept[i] \in KeptTree
      /\ \A a \in tree : user'[a] = user[a] /\ user'[f] = u
    <2>1. DOMAIN Kept = 1 .. Len(Kept)
        BY <1>4, LenProperties
    <2>2. tree \subseteq Addresses
        BY BooksFacts
    <2> QED BY <2>1, <2>2, <1>2, <1>3, <1>4, <1>5 DEF Range
<1>8. Mirrors(Kept, user', recency) /\ Len(Kept) <= Len(recency)
    <2>1. \A i \in 1 .. Len(Kept) : i \in 1 .. Len(lru)
        BY <1>4, <1>5
    <2> QED BY <2>1, <1>4, <1>5, <1>6, <1>7 DEF Mirrors, Order
<1>9. CASE NodesOf(u, KeptTree) # {}
    <2>1. PICK b \in NodesOf(u, KeptTree) : InsertOld(u, t, b)
        BY <1>1, <1>9
    <2>2. b \in Range(Kept) /\ user'[b] = u
        BY <1>4, <1>7 DEF NodesOf
    <2>3. lru' = <<b>> \o Without(Kept, b) /\ num' = num - Len(Victim)
        BY <2>1 DEF InsertOld
    <2>4. /\ Mirrors(lru', user', recency') /\ Len(recency') = Len(recency)
          /\ recency' \in Seq(Users) /\ IsInjective(recency')
        <3>1. /\ Mirrors(<<b>> \o Without(Kept, b), user', <<u>> \o Without(recency, u))
              /\ Len(<<u>> \o Without(recency, u)) = Len(recency)
              /\ <<u>> \o Without(recency, u) \in Seq(Users)
              /\ IsInjective(<<u>> \o Without(recency, u))
            BY <1>4, <1>6, <1>8, <2>2, MirrorMoves
        <3> QED BY <1>6, <2>3, <3>1
    <2>5. num' <= Len(recency) /\ (num' = Len(recency) \/ num' >= MaxNodes - 1)
        <3>1. CASE Len(Victim) = 1
            <4>1. num = MaxNodes /\ num' = num - 1
                BY <1>4, <1>5, <2>3, <3>1
            <4> QED BY <4>1, <1>5, <1>6
        <3>2. CASE Len(Victim) = 0
            <4>1. num' = num
                BY <1>5, <2>3, <3>2
            <4> QED BY <4>1, <1>6
        <3> QED BY <3>1, <3>2, <1>4
    <2> QED BY <2>4, <2>5 DEF Order
<1>10. CASE NodesOf(u, KeptTree) = {}
    <2>1. InsertNew(u, t)
        BY <1>1, <1>10
    <2>2. lru' = <<f>> \o Kept /\ num' = num - Len(Victim) + 1
        BY <2>1 DEF InsertNew, f
    <2>3. \A i \in 1 .. Len(Kept) : user'[Kept[i]] # u
        BY <1>4, <1>7, <1>10 DEF NodesOf
    <2>4. /\ Mirrors(lru', user', recency') /\ Len(recency') \in {Len(recency), Len(recency) + 1}
          /\ Len(Kept) + 1 <= Len(recency')
          /\ Len(Kept) = Len(recency) => Len(recency') = Len(Kept) + 1
          /\ recency' \in Seq(Users) /\ IsInjective(recency')
        <3>1. /\ Mirrors(<<f>> \o Kept, user', <<u>> \o Without(recency, u))
              /\ Len(<<u>> \o Without(recency, u)) \in {Len(recency), Len(recency) + 1}
              /\ Len(Kept) + 1 <= Len(<<u>> \o Without(recency, u))
              /\ Len(Kept) = Len(recency) => Len(<<u>> \o Without(recency, u)) = Len(Kept) + 1
              /\ <<u>> \o Without(recency, u) \in Seq(Users)
              /\ IsInjective(<<u>> \o Without(recency, u))
            <4>1. user'[f] = u
                BY <1>2, <1>3, <1>5
            <4> QED BY <4>1, <1>3, <1>4, <1>6, <1>8, <2>3, MirrorGrows
        <3> QED BY <1>6, <2>2, <3>1
    <2>5. num' = Len(Kept) + 1 /\ (num' = Len(recency') \/ num' >= MaxNodes - 1)
        <3>1. CASE Len(Victim) = 1
            <4>1. num = MaxNodes /\ num' = num /\ Len(Kept) = num - 1
                BY <1>4, <1>5, <2>2, <3>1
            <4> QED BY <4>1, <1>5
        <3>2. CASE Len(Victim) = 0
            <4>1. num' = num + 1 /\ Len(Kept) = num
                BY <1>4, <1>5, <2>2, <3>2
            <4>2. CASE num = Len(recency)
                BY <4>1, <4>2, <2>4
            <4>3. CASE num >= MaxNodes - 1
                BY <4>1, <4>3, <1>5
            <4> QED BY <4>2, <4>3, <1>6
        <3> QED BY <3>1, <3>2, <1>4
    <2> QED BY <2>4, <2>5 DEF Order
<1> QED BY <1>9, <1>10

LEMMA TouchOrder ==
    ASSUME IInv, Order, NEW u \in Users, NEW a \in NodesOf(u, tree), Touch(u, a)
    PROVE  Order'
<1>1. /\ lru \in Seq(Addresses) /\ IsInjective(lru) /\ Range(lru) = tree /\ Len(lru) = num
    BY BooksFacts DEF Lists
<1>2. a \in Range(lru) /\ user[a] = u
    BY <1>1 DEF NodesOf
<1>3. /\ lru' = <<a>> \o Without(lru, a) /\ recency' = <<u>> \o Without(recency, u)
      /\ UNCHANGED <<user, num>>
    BY DEF Touch, Used
<1>4. /\ recency \in Seq(Users) /\ IsInjective(recency)
      /\ Mirrors(lru, user, recency) /\ num <= Len(recency)
    BY DEF Order
<1>5. /\ Mirrors(lru', user, recency') /\ Len(recency') = Len(recency)
      /\ recency' \in Seq(Users) /\ IsInjective(recency')
    <2>1. Len(lru) <= Len(recency)
        BY <1>1, <1>4
    <2>2. /\ Mirrors(<<a>> \o Without(lru, a), user, <<u>> \o Without(recency, u))
          /\ Len(<<u>> \o Without(recency, u)) = Len(recency)
          /\ <<u>> \o Without(recency, u) \in Seq(Users)
          /\ IsInjective(<<u>> \o Without(recency, u))
        BY <2>1, <1>1, <1>2, <1>4, MirrorMoves
    <2> QED BY <1>3, <2>2
<1> QED BY <1>3, <1>5 DEF Order

LEMMA OrderIsKept == IInv /\ Order /\ [Next]_vars => Order'
<1> SUFFICES ASSUME IInv, Order, [Next]_vars PROVE Order'
    OBVIOUS
<1>1. CASE UNCHANGED cache
    BY <1>1 DEF Order, cache
<1>2. ASSUME NEW u \in Users, Get(u) PROVE Order'
    <2>1. CASE NodesOf(u, tree) # {}
        BY <1>2, <2>1, TouchOrder DEF Get
    <2>2. CASE NodesOf(u, tree) = {}
        BY <1>1, <1>2, <2>2, InsertOrder DEF Get
    <2> QED BY <2>1, <2>2
<1>3. ASSUME NEW u \in Users, NEW t \in Stamps, Set(u, t) PROVE Order'
    BY <1>1, <1>3, InsertOrder DEF Set
<1>4. ASSUME NEW u \in Users, Flush(u) PROVE Order'
    BY <1>1, <1>4 DEF Flush
<1>5. CASE Restart
    <2>1. recency' = <<>> /\ lru' = <<>> /\ num' = 0
        BY <1>5 DEF Restart
    <2>2. <<>> \in Seq(Users) /\ Len(<<>>) = 0 /\ DOMAIN <<>> = {} /\ 1 .. 0 = {}
        BY EmptySeq
    <2> QED BY <2>1, <2>2 DEF Order, Mirrors, IsInjective
<1>6. CASE UNCHANGED vars
    BY <1>1, <1>6 DEF vars
<1> QED BY <1>2, <1>3, <1>4, <1>5, <1>6 DEF Next

\* For every size of the cache: it holds the users used last, in the order of their use,
\* and never fewer than one below its limit while there are that many (tm_cache_insert,
\* tm_cache_search, list_move).
THEOREM CacheIsRecent == Spec => []Recent
<1>1. Init => Order
    <2>1. <<>> \in Seq(Users) /\ Len(<<>>) = 0 /\ DOMAIN <<>> = {} /\ 1 .. 0 = {}
        BY EmptySeq
    <2> QED BY <2>1 DEF Init, Order, Mirrors, IsInjective
<1>2. IInv /\ Order => Recent
    <2> SUFFICES ASSUME IInv, Order PROVE Recent
        OBVIOUS
    <2>1. /\ lru \in Seq(Addresses) /\ Len(lru) = num /\ DOMAIN lru = 1 .. num /\ num \in Nat
          /\ recency \in Seq(Users) /\ num <= Len(recency) /\ Len(recency) \in Nat
        BY BooksFacts, LenProperties DEF Lists, Order
    <2> DEFINE r == SubSeq(recency, 1, num)
    <2>2. \A i \in 1 .. num : recency[i] \in Users
        <3>1. \A i \in 1 .. num : i \in 1 .. Len(recency)
            BY <2>1
        <3> QED BY <2>1, <3>1, ElementOfSeq
    <2>3. r = [i \in 1 .. num |-> recency[i]]
        BY <2>1
    <2>4. [i \in DOMAIN lru |-> user[lru[i]]] = r
        BY <2>1, <2>3 DEF Order, Mirrors
    <2>5. Len(lru) >= Min({Len(recency), MaxNodes - 1})
        <3> DEFINE m == Min({Len(recency), MaxNodes - 1})
        <3>1. m \in {Len(recency), MaxNodes - 1} /\ m <= Len(recency) /\ m <= MaxNodes - 1
            <4>1. Len(recency) \in Int /\ MaxNodes - 1 \in Int
                BY <2>1, Limits
            <4>2. \E x \in {Len(recency), MaxNodes - 1} :
                    \A y \in {Len(recency), MaxNodes - 1} : x <= y
                BY <4>1
            <4>3. m = CHOOSE x \in {Len(recency), MaxNodes - 1} :
                         \A y \in {Len(recency), MaxNodes - 1} : x <= y
                BY DEF Min
            <4> HIDE DEF m
            <4> QED BY <4>2, <4>3
        <3> HIDE DEF m
        <3>2. num = Len(recency) \/ num >= MaxNodes - 1
            BY DEF Order
        <3> QED BY <2>1, <3>1, <3>2, Limits DEF m
    <2> QED BY <2>1, <2>4, <2>5 DEF Recent
<1> QED BY <1>1, <1>2, OrderIsKept, Invariance, PTL DEF Spec

=============================================================================
