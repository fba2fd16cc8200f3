-------------------------- MODULE FeedStore_proofs --------------------------
(***************************************************************************)
(* Proofs about FeedStore for every number of workers, feeds, requests and *)
(* faults.                                                                 *)
(*                                                                         *)
(* Two requests that overlap on a feed, one of them a change, have torn    *)
(* all their feeds (Apart).  So a change whose feeds are not torn has them *)
(* to itself, and what it finds of them at its first call stays as it is:  *)
(* at every call it is in one of the states of Right, from each of which   *)
(* the calls it has left make memcached show the rows again.               *)
(***************************************************************************)
EXTENDS FeedStore, SequenceTheorems, FiniteSetTheorems, TLAPS

-----------------------------------------------------------------------------
(* Calls.                                                                  *)

Inserting(F) == {<<"insert", f, d>> : f \in F, d \in Data}
Updating(F) == {<<"update", f, g, d>> : f \in F, g \in F, d \in Data}
Removing(F) == {<<"remove", S>> : S \in SUBSET F}
Storing(F) == {<<k, f, d>> : k \in {"set", "add", "replace"}, f \in F, d \in Data}
Asking(F) == {<<k, f>> : k \in {"delete", "hit", "fetch"}, f \in F}
CallsOf(F) == Inserting(F) \cup Updating(F) \cup Removing(F) \cup Storing(F) \cup Asking(F)

LEMMA CallIs ==
    ASSUME NEW F, NEW c \in CallsOf(F)
    PROVE  \/ c[1] = "insert" /\ c[2] \in F /\ c[3] \in Data
           \/ c[1] = "update" /\ c[2] \in F /\ c[3] \in F /\ c[4] \in Data
           \/ c[1] = "remove" /\ c[2] \subseteq F
           \/ c[1] \in {"set", "add", "replace"} /\ c[2] \in F /\ c[3] \in Data
           \/ c[1] \in {"delete", "hit", "fetch"} /\ c[2] \in F
<1>1. CASE c \in Inserting(F)
    BY <1>1 DEF Inserting
<1>2. CASE c \in Updating(F)
    BY <1>2 DEF Updating
<1>3. CASE c \in Removing(F)
    BY <1>3 DEF Removing
<1>4. CASE c \in Storing(F)
    BY <1>4 DEF Storing
<1>5. CASE c \in Asking(F)
    BY <1>5 DEF Asking
<1> QED BY <1>1, <1>2, <1>3, <1>4, <1>5 DEF CallsOf

LEMMA TailIs ==
    ASSUME NEW S, NEW s \in Seq(S), s # <<>>
    PROVE  /\ Head(s) = s[1] /\ s[1] \in S /\ 1 \in DOMAIN s
           /\ Len(s) \in Nat \ {0} /\ DOMAIN s = 1 .. Len(s)
           /\ Tail(s) \in Seq(S) /\ DOMAIN Tail(s) = 1 .. Len(s) - 1
           /\ \A i \in 1 .. Len(s) - 1 : Tail(s)[i] = s[i + 1] /\ i + 1 \in DOMAIN s
<1> DEFINE n == Len(s)
           t == Tail(s)
<1>1. n \in Nat /\ n # 0 /\ DOMAIN s = 1 .. n
    BY LenProperties, EmptySeq
<1>2. t \in Seq(S) /\ Len(t) = n - 1 /\ \A i \in 1 .. n - 1 : t[i] = s[i + 1]
    <2>1. t \in Seq(S) /\ Len(t) = Len(s) - 1 /\ \A i \in 1 .. Len(t) : t[i] = s[i + 1]
        BY HeadTailProperties
    <2> QED BY <2>1
<1>3. DOMAIN t = 1 .. n - 1
    BY <1>2, LenProperties
<1>4. Head(s) = s[1] /\ s[1] \in S
    <2>1. 1 \in 1 .. Len(s)
        BY <1>1
    <2>2. s[1] \in S
        BY <2>1, ElementOfSeq
    <2>3. Head(s) = s[1]
        OBVIOUS
    <2> QED BY <2>2, <2>3
<1> HIDE DEF n, t
<1>5. 1 \in 1 .. n /\ \A i \in 1 .. n - 1 : i + 1 \in 1 .. n
    BY <1>1
<1> QED BY <1>1, <1>2, <1>3, <1>4, <1>5 DEF n, t

LEMMA Pairs == \A a, b, c, d :
    /\ Tail(<<a>>) = <<>> /\ Tail(<<a, b>>) = <<b>> /\ Tail(<<a, b, c>>) = <<b, c>>
    /\ Tail(<<a, b, c, d>>) = <<b, c, d>>
    /\ DOMAIN <<>> = {} /\ DOMAIN <<a>> = {1} /\ DOMAIN <<a, b>> = {1, 2}
    /\ DOMAIN <<a, b, c>> = {1, 2, 3}
    /\ <<a>> # <<>> /\ <<a, b>> # <<>> /\ <<a, b, c>> # <<>> /\ <<a, b, c, d>> # <<>>
OBVIOUS

-----------------------------------------------------------------------------
(* Where a change stands.                                                  *)

Tables == [Feeds -> SUBSET Data]
Entries == [Feeds -> Data \cup {NoFeed}]

(* With the rows D and the entries M, memcached shows of a feed a row or nothing. *)
Coh(f, D, M) == M[f] = NoFeed \/ M[f] \in D[f]

(* What is left is to take entries away, and the rows whose entries are gone. *)
Removes(cs, F, D, M) ==
    /\ \A f \in F : Coh(f, D, M)
    /\ \A i \in DOMAIN cs : cs[i][1] \in {"delete", "remove"}
    /\ \A i \in DOMAIN cs : cs[i][1] = "remove" =>
         \A f \in cs[i][2] : M[f] = NoFeed \/ \E j \in 1 .. i - 1 : cs[j] = <<"delete", f>>

(* The rows are done, and what is left brings memcached in line.           *)
Fixes(cs, F, D, M) ==
    /\ \A i \in DOMAIN cs : cs[i][1] \in {"delete", "set", "add"}
    /\ \A i \in DOMAIN cs : cs[i][1] # "delete" => cs[i][3] \in D[cs[i][2]]
    /\ \A f \in F : Coh(f, D, M) \/ \E i \in DOMAIN cs : cs[i][2] = f /\ cs[i][1] # "add"

(* An update: its row is changed, or there was none.                       *)
Replaces(cs, F, D, M) ==
    \E f \in F, d \in Data :
      /\ cs = <<<<"replace", f, d>>>> /\ (M[f] = NoFeed \/ d \in D[f])
      /\ \A h \in F \ {f} : Coh(h, D, M)

(* update2: the old feed has an entry only if it had a row to change.      *)
Hits(cs, F, D, M) ==
    \E f, g \in F, d \in Data :
      /\ cs = <<<<"hit", f>>, <<"delete", f>>, <<"add", g, d>>>>
      /\ M[f] = NoFeed \/ d \in D[g]
      /\ \A h \in F \ {f} : Coh(h, D, M)

(* The query of a change comes first.                                      *)
Queried(cs, F, D) ==
    \E f, g \in F, d \in Data :
      \/ cs = <<<<"insert", g, d>>>>
      \/ cs = <<<<"insert", g, d>>, <<"set", g, d>>>>
      \/ cs = <<<<"update", f, f, d>>, <<"replace", f, d>>>>
      \/ cs = <<<<"update", f, g, d>>, <<"hit", f>>, <<"delete", f>>, <<"add", g, d>>>>
      \/ cs = <<<<"update", f, f, d>>, <<"set", f, d>>>> /\ D[f] # {}
      \/ /\ cs = <<<<"update", f, g, d>>, <<"delete", f>>, <<"add", g, d>>>>
         /\ f # g /\ D[f] # {}
      \/ cs = <<<<"remove", {f}>>, <<"delete", f>>>>
Begins(cs, F, D, M) == Queried(cs, F, D) /\ \A f \in F : Coh(f, D, M)

Right(cs, F, D, M) ==
    \/ Removes(cs, F, D, M) \/ Fixes(cs, F, D, M) \/ Replaces(cs, F, D, M)
    \/ Hits(cs, F, D, M) \/ Begins(cs, F, D, M)

LEMMA NothingLeft ==
    ASSUME NEW F, NEW D, NEW M
    PROVE  Removes(<<>>, F, D, M) <=> \A f \in F : Coh(f, D, M)
BY Pairs DEF Removes

(* Others leave the feeds alone, and memcached forgets.                    *)
LEMMA RemovesStay ==
    ASSUME NEW F, NEW cs \in Seq(CallsOf(F)), NEW D, NEW M, NEW E, NEW N,
           \A f \in F : E[f] = D[f] /\ N[f] \in {NoFeed, M[f]},
           Removes(cs, F, D, M)
    PROVE  Removes(cs, F, E, N)
<1>1. \A f \in F : Coh(f, E, N)
    BY DEF Removes, Coh
<1>2. \A i \in DOMAIN cs : cs[i][1] \in {"delete", "remove"}
    BY DEF Removes
<1>3. ASSUME NEW i \in DOMAIN cs, cs[i][1] = "remove", NEW f \in cs[i][2]
      PROVE  N[f] = NoFeed \/ \E j \in 1 .. i - 1 : cs[j] = <<"delete", f>>
    <2>1. cs[i] \in CallsOf(F)
        BY LenProperties, ElementOfSeq
    <2>2. f \in F
        BY <1>3, <2>1, CallIs
    <2>3. M[f] = NoFeed \/ \E j \in 1 .. i - 1 : cs[j] = <<"delete", f>>
        BY <1>3 DEF Removes
    <2> QED BY <2>2, <2>3
<1> QED BY <1>1, <1>2, <1>3 DEF Removes

LEMMA RightStays ==
    ASSUME NEW F, NEW cs \in Seq(CallsOf(F)), NEW D, NEW M, NEW E, NEW N,
           \A f \in F : E[f] = D[f] /\ N[f] \in {NoFeed, M[f]},
           Right(cs, F, D, M)
    PROVE  Right(cs, F, E, N)
<1>1. \A f \in F : Coh(f, D, M) => Coh(f, E, N)
    BY DEF Coh
<1>2. CASE Removes(cs, F, D, M)
    BY <1>2, RemovesStay DEF Right
<1>3. CASE Fixes(cs, F, D, M)
    <2>1. ASSUME NEW i \in DOMAIN cs, cs[i][1] # "delete" PROVE cs[i][3] \in E[cs[i][2]]
        <3>1. cs[i] \in CallsOf(F) /\ cs[i][1] \in {"set", "add"}
            BY <1>3, <2>1, LenProperties, ElementOfSeq DEF Fixes
        <3>2. cs[i][2] \in F
            BY <3>1, CallIs
        <3> QED BY <1>3, <2>1, <3>2 DEF Fixes
    <2>2. Fixes(cs, F, E, N)
        BY <1>1, <1>3, <2>1 DEF Fixes
    <2> QED BY <2>2 DEF Right
<1>4. CASE Replaces(cs, F, D, M)
    <2>1. Replaces(cs, F, E, N)
        BY <1>1, <1>4 DEF Replaces
    <2> QED BY <2>1 DEF Right
<1>5. CASE Hits(cs, F, D, M)
    <2>1. Hits(cs, F, E, N)
        BY <1>1, <1>5 DEF Hits
    <2> QED BY <2>1 DEF Right
<1>6. CASE Begins(cs, F, D, M)
    <2>1. Queried(cs, F, E)
        BY <1>6 DEF Begins, Queried
    <2>2. Begins(cs, F, E, N)
        BY <1>1, <1>6, <2>1 DEF Begins
    <2> QED BY <2>2 DEF Right
<1> QED BY <1>2, <1>3, <1>4, <1>5, <1>6 DEF Right

(* A call of a change that takes entries or rows away.                     *)
LEMMA RemovesGoOn ==
    ASSUME NEW F, NEW cs \in Seq(CallsOf(F)), cs # <<>>, NEW D, NEW M, NEW E, NEW N,
           Removes(cs, F, D, M), \A f \in F : Coh(f, E, N) /\ (M[f] = NoFeed => N[f] = NoFeed),
           \A f \in F : cs[1] = <<"delete", f>> => N[f] = NoFeed
    PROVE  Removes(Tail(cs), F, E, N)
<1> DEFINE n == Len(cs)
           t == Tail(cs)
<1>1. /\ DOMAIN cs = 1 .. n /\ n \in Nat /\ DOMAIN t = 1 .. n - 1
      /\ \A i \in 1 .. n - 1 : t[i] = cs[i + 1] /\ i + 1 \in DOMAIN cs
    BY TailIs
<1> HIDE DEF n, t
<1>2. \A i \in DOMAIN t : t[i][1] \in {"delete", "remove"}
    BY <1>1 DEF Removes
<1>3. ASSUME NEW i \in DOMAIN t, t[i][1] = "remove", NEW f \in t[i][2]
      PROVE  N[f] = NoFeed \/ \E j \in 1 .. i - 1 : t[j] = <<"delete", f>>
    <2>1. t[i] = cs[i + 1] /\ i + 1 \in DOMAIN cs /\ i \in 1 .. n - 1
        BY <1>1
    <2>2. cs[i + 1] \in CallsOf(F)
        BY <2>1, LenProperties, ElementOfSeq
    <2>3. f \in F
        BY <1>3, <2>1, <2>2, CallIs
    <2>4. M[f] = NoFeed \/ \E j \in 1 .. (i + 1) - 1 : cs[j] = <<"delete", f>>
        BY <1>3, <2>1 DEF Removes
    <2>5. CASE M[f] = NoFeed
        BY <2>3, <2>5
    <2>6. CASE \E j \in 1 .. (i + 1) - 1 : cs[j] = <<"delete", f>>
        <3>1. PICK j \in 1 .. (i + 1) - 1 : cs[j] = <<"delete", f>>
            BY <2>6
        <3>2. CASE j = 1
            BY <2>3, <3>1, <3>2
        <3>3. CASE j # 1
            <4>1. j - 1 \in 1 .. i - 1 /\ j - 1 \in 1 .. n - 1 /\ (j - 1) + 1 = j
                BY <1>1, <2>1, <3>1, <3>3
            <4>2. t[j - 1] = <<"delete", f>>
                BY <1>1, <3>1, <4>1
            <4> QED BY <4>1, <4>2
        <3> QED BY <3>2, <3>3
    <2> QED BY <2>4, <2>5, <2>6
<1>4. Removes(t, F, E, N)
    BY <1>2, <1>3 DEF Removes
<1> QED BY <1>4 DEF t

(* A query.                                                                *)
LEMMA Beginning ==
    ASSUME NEW F, NEW cs \in Seq(CallsOf(F)), cs # <<>>, NEW D, NEW M, Right(cs, F, D, M),
           cs[1][1] \in Queries
    PROVE  (\A f \in F : Coh(f, D, M)) /\ (Removes(cs, F, D, M) \/ Begins(cs, F, D, M))
<1>1. ~ Replaces(cs, F, D, M) /\ ~ Hits(cs, F, D, M)
    BY DEF Replaces, Hits, Queries
<1>2. CASE Fixes(cs, F, D, M)
    <2>1. 1 \in DOMAIN cs
        BY TailIs
    <2>2. cs[1][1] \in {"delete", "set", "add"}
        BY <1>2, <2>1 DEF Fixes
    <2> QED BY <2>2 DEF Queries
<1> QED BY <1>1, <1>2 DEF Right, Removes, Begins

LEMMA RowsAre ==
    ASSUME NEW F \in SUBSET Feeds, NEW c \in CallsOf(F), db \in Tables, c[1] \in Queries
    PROVE  /\ Rows(c) \in Tables /\ \A h \in Feeds \ F : Rows(c)[h] = db[h]
           /\ c[1] = "insert" => /\ Rows(c)[c[2]] = db[c[2]] \cup {c[3]}
                                 /\ \A h \in Feeds : h # c[2] => Rows(c)[h] = db[h]
           /\ c[1] = "remove" =>
                \A h \in Feeds : Rows(c)[h] = IF h \in c[2] THEN {} ELSE db[h]
           /\ c[1] = "update" /\ db[c[2]] = {} => Rows(c) = db
           /\ c[1] = "update" /\ db[c[2]] # {} =>
                /\ c[4] \in Rows(c)[c[3]]
                /\ \A h \in Feeds : h # c[2] => db[h] \subseteq Rows(c)[h]
<1>1. CASE c[1] = "insert"
    <2>1. c[2] \in F /\ c[3] \in Data
        BY <1>1, CallIs
    <2>2. Rows(c) = [db EXCEPT ![c[2]] = @ \cup {c[3]}]
        BY <1>1 DEF Rows
    <2> QED BY <1>1, <2>1, <2>2 DEF Tables
<1>2. CASE c[1] = "remove"
    <2>1. c[2] \subseteq F
        BY <1>2, CallIs
    <2>2. Rows(c) = [f \in Feeds |-> IF f \in c[2] THEN {} ELSE db[f]]
        BY <1>2 DEF Rows
    <2> QED BY <1>2, <2>1, <2>2 DEF Tables
<1>3. CASE c[1] = "update"
    <2>1. c[2] \in F /\ c[3] \in F /\ c[4] \in Data
        BY <1>3, CallIs
    <2>2. CASE db[c[2]] = {}
        <3>1. Rows(c) = db
            BY <1>3, <2>2 DEF Rows, Has
        <3> QED BY <1>3, <2>2, <3>1
    <2>3. CASE db[c[2]] # {}
        <3> DEFINE gone == [db EXCEPT ![c[2]] = {}]
        <3>1. Rows(c) = [gone EXCEPT ![c[3]] = @ \cup {c[4]}]
            BY <1>3, <2>3 DEF Rows, Has
        <3>2. gone \in Tables /\ \A h \in Feeds : h # c[2] => gone[h] = db[h]
            BY <2>1 DEF Tables
        <3> HIDE DEF gone
        <3>3. /\ Rows(c) \in Tables /\ c[4] \in Rows(c)[c[3]]
              /\ \A h \in Feeds : gone[h] \subseteq Rows(c)[h]
              /\ \A h \in Feeds : h # c[3] => Rows(c)[h] = gone[h]
            BY <2>1, <3>1, <3>2 DEF Tables
        <3> QED BY <1>3, <2>1, <2>3, <3>2, <3>3
    <2> QED BY <2>2, <2>3
<1> QED BY <1>1, <1>2, <1>3 DEF Queries

LEMMA RowsRemoved ==
    ASSUME NEW F \in SUBSET Feeds, NEW cs \in Seq(CallsOf(F)), cs # <<>>, NEW M,
           db \in Tables, cs[1][1] \in Queries, Removes(cs, F, db, M)
    PROVE  Removes(Tail(cs), F, Rows(cs[1]), M)
<1> DEFINE E == Rows(cs[1])
<1>1. cs[1] \in CallsOf(F) /\ 1 \in DOMAIN cs
    BY TailIs
<1>2. cs[1][1] = "remove"
    BY <1>1 DEF Removes, Queries
<1>3. \A h \in Feeds : E[h] = IF h \in cs[1][2] THEN {} ELSE db[h]
    BY <1>1, <1>2, RowsAre
<1>4. \A f \in cs[1][2] : M[f] = NoFeed
    BY <1>1, <1>2 DEF Removes
<1> HIDE DEF E
<1>5. \A f \in F : Coh(f, E, M)
    BY <1>3, <1>4 DEF Removes, Coh
<1>6. \A f \in F : cs[1] # <<"delete", f>>
    BY <1>2
<1>7. Removes(Tail(cs), F, E, M)
    BY <1>5, <1>6, RemovesGoOn
<1> QED BY <1>7 DEF E

LEMMA RowsRight ==
    ASSUME NEW F \in SUBSET Feeds, NEW cs \in Seq(CallsOf(F)), cs # <<>>, NEW M,
           db \in Tables, cs[1][1] \in Queries, Right(cs, F, db, M)
    PROVE  Right(Tail(cs), F, Rows(cs[1]), M)
<1> DEFINE E == Rows(cs[1])
           Goal == Right(Tail(cs), F, E, M)
<1>1. cs[1] \in CallsOf(F) /\ 1 \in DOMAIN cs
    BY TailIs
<1>2. CASE Removes(cs, F, db, M)
    BY <1>2, RowsRemoved DEF Right
<1>3. CASE Begins(cs, F, db, M)
    <2> DEFINE c == cs[1]
    <2>1. \A h \in F : Coh(h, db, M)
        BY <1>3 DEF Begins
    <2>2. PICK f \in F, g \in F, d \in Data :
          \/ cs = <<<<"insert", g, d>>>>
          \/ cs = <<<<"insert", g, d>>, <<"set", g, d>>>>
          \/ cs = <<<<"update", f, f, d>>, <<"replace", f, d>>>>
          \/ cs = <<<<"update", f, g, d>>, <<"hit", f>>, <<"delete", f>>, <<"add", g, d>>>>
          \/ cs = <<<<"update", f, f, d>>, <<"set", f, d>>>> /\ db[f] # {}
          \/ /\ cs = <<<<"update", f, g, d>>, <<"delete", f>>, <<"add", g, d>>>>
             /\ f # g /\ db[f] # {}
          \/ cs = <<<<"remove", {f}>>, <<"delete", f>>>>
        BY <1>3 DEF Begins, Queried
    <2>3. /\ c[1] = "insert" => /\ E[c[2]] = db[c[2]] \cup {c[3]}
                                /\ \A h \in Feeds : h # c[2] => E[h] = db[h]
          /\ c[1] = "remove" => \A h \in Feeds : E[h] = IF h \in c[2] THEN {} ELSE db[h]
          /\ c[1] = "update" /\ db[c[2]] = {} => E = db
          /\ c[1] = "update" /\ db[c[2]] # {} =>
                c[4] \in E[c[3]] /\ \A h \in Feeds : h # c[2] => db[h] \subseteq E[h]
        BY <1>1, RowsAre
    <2> HIDE DEF E
    <2>4. ASSUME c = <<"insert", g, d>> PROVE d \in E[g] /\ \A h \in F : Coh(h, E, M)
        <3>1. E[g] = db[g] \cup {d} /\ \A h \in Feeds : h # g => E[h] = db[h]
            BY <2>3, <2>4
        <3> QED BY <2>1, <3>1 DEF Coh
    <2>5. ASSUME c = <<"update", f, g, d>>
          PROVE  /\ M[f] = NoFeed \/ (db[f] # {} /\ d \in E[g])
                 /\ db[f] # {} => d \in E[g]
                 /\ \A h \in F \ {f} : Coh(h, E, M)
        <3>1. CASE db[f] = {}
            <4>1. E = db
                BY <2>3, <2>5, <3>1
            <4> QED BY <2>1, <3>1, <4>1 DEF Coh
        <3>2. CASE db[f] # {}
            <4>1. d \in E[g] /\ \A h \in Feeds : h # f => db[h] \subseteq E[h]
                BY <2>3, <2>5, <3>2
            <4> QED BY <2>1, <3>2, <4>1 DEF Coh
        <3> QED BY <3>1, <3>2
    <2>6. CASE cs = <<<<"insert", g, d>>>>
        <3>1. Tail(cs) = <<>> /\ c = <<"insert", g, d>>
            BY <2>6, Pairs
        <3>2. Removes(<<>>, F, E, M)
            BY <2>4, <3>1, NothingLeft
        <3> QED BY <3>1, <3>2 DEF Right, E
    <2>7. CASE cs = <<<<"insert", g, d>>, <<"set", g, d>>>>
        <3> DEFINE t == <<<<"set", g, d>>>>
        <3>1. Tail(cs) = t /\ c = <<"insert", g, d>>
            BY <2>7, Pairs
        <3>2. DOMAIN t = {1} /\ t[1] = <<"set", g, d>>
            OBVIOUS
        <3> HIDE DEF t
        <3>3. Fixes(t, F, E, M)
            BY <2>4, <3>1, <3>2 DEF Fixes
        <3> QED BY <3>1, <3>3 DEF Right, E
    <2>8. CASE cs = <<<<"update", f, f, d>>, <<"replace", f, d>>>>
        <3>1. Tail(cs) = <<<<"replace", f, d>>>> /\ c = <<"update", f, f, d>>
            BY <2>8, Pairs
        <3>2. M[f] = NoFeed \/ d \in E[f]
            <4>1. CASE db[f] = {}
                BY <2>1, <4>1 DEF Coh
            <4>2. CASE db[f] # {}
                BY <2>3, <3>1, <4>2
            <4> QED BY <4>1, <4>2
        <3>3. \A h \in F \ {f} : Coh(h, E, M)
            BY <3>1, <2>3, <2>1 DEF Coh
        <3>4. Replaces(<<<<"replace", f, d>>>>, F, E, M)
            BY <3>2, <3>3 DEF Replaces
        <3> QED BY <3>1, <3>4 DEF Right, E
    <2>9. CASE cs = <<<<"update", f, g, d>>, <<"hit", f>>, <<"delete", f>>, <<"add", g, d>>>>
        <3>1. /\ Tail(cs) = <<<<"hit", f>>, <<"delete", f>>, <<"add", g, d>>>>
              /\ c = <<"update", f, g, d>>
            BY <2>9, Pairs
        <3>2. Hits(<<<<"hit", f>>, <<"delete", f>>, <<"add", g, d>>>>, F, E, M)
            BY <2>5, <3>1 DEF Hits
        <3> QED BY <3>1, <3>2 DEF Right, E
    <2>10. CASE cs = <<<<"update", f, f, d>>, <<"set", f, d>>>> /\ db[f] # {}
        <3> DEFINE t == <<<<"set", f, d>>>>
        <3>1. Tail(cs) = t /\ c = <<"update", f, f, d>>
            BY <2>10, Pairs
        <3>2. DOMAIN t = {1} /\ t[1] = <<"set", f, d>>
            OBVIOUS
        <3> HIDE DEF t
        <3>3. d \in E[f]
            BY <2>3, <2>10, <3>1
        <3>4. \A h \in F \ {f} : Coh(h, E, M)
            BY <2>1, <2>3, <2>10, <3>1 DEF Coh
        <3>5. Fixes(t, F, E, M)
            BY <3>2, <3>3, <3>4 DEF Fixes
        <3> QED BY <3>1, <3>5 DEF Right, E
    <2>11. CASE /\ cs = <<<<"update", f, g, d>>, <<"delete", f>>, <<"add", g, d>>>>
                /\ f # g /\ db[f] # {}
        <3> DEFINE t == <<<<"delete", f>>, <<"add", g, d>>>>
        <3>1. Tail(cs) = t /\ c = <<"update", f, g, d>>
            BY <2>11, Pairs
        <3>2. DOMAIN t = {1, 2} /\ t[1] = <<"delete", f>> /\ t[2] = <<"add", g, d>>
            OBVIOUS
        <3> HIDE DEF t
        <3>3. d \in E[g] /\ \A h \in F \ {f} : Coh(h, E, M)
            BY <2>5, <2>11, <3>1
        <3>4. Fixes(t, F, E, M)
            BY <3>2, <3>3 DEF Fixes
        <3> QED BY <3>1, <3>4 DEF Right, E
    <2>12. CASE cs = <<<<"remove", {f}>>, <<"delete", f>>>>
        <3> DEFINE t == <<<<"delete", f>>>>
        <3>1. Tail(cs) = t /\ c = <<"remove", {f}>>
            BY <2>12, Pairs
        <3>2. DOMAIN t = {1} /\ t[1] = <<"delete", f>>
            OBVIOUS
        <3> HIDE DEF t
        <3>3. \A h \in F \ {f} : Coh(h, E, M)
            <4>1. \A h \in F \ {f} : E[h] = db[h]
                BY <2>3, <3>1
            <4> QED BY <2>1, <4>1 DEF Coh
        <3>4. Fixes(t, F, E, M)
            BY <3>2, <3>3 DEF Fixes
        <3> QED BY <3>1, <3>4 DEF Right, E
    <2> QED BY <2>2, <2>6, <2>7, <2>8, <2>9, <2>10, <2>11, <2>12
<1> QED BY <1>2, <1>3, Beginning

(* A call of memcached.                                                    *)
Entering == {"set", "add", "replace", "delete"}
Puts(c, M, N) ==
    /\ \A h \in Feeds : h # c[2] => N[h] = M[h]
    /\ c[1] = "delete" => N[c[2]] = NoFeed
    /\ c[1] = "set" => N[c[2]] = c[3]
    /\ c[1] = "add" => N[c[2]] = IF M[c[2]] = NoFeed THEN c[3] ELSE M[c[2]]
    /\ c[1] = "replace" => N[c[2]] = IF M[c[2]] = NoFeed THEN NoFeed ELSE c[3]

LEMMA RemovesPut ==
    ASSUME NEW F \in SUBSET Feeds, NEW cs \in Seq(CallsOf(F)), cs # <<>>, NEW D, NEW M, NEW N,
           cs[1][1] \in Entering, Puts(cs[1], M, N), Removes(cs, F, D, M)
    PROVE  Removes(Tail(cs), F, D, N)
<1>1. cs[1] \in CallsOf(F) /\ 1 \in DOMAIN cs
    BY TailIs
<1>2. cs[1][1] = "delete"
    BY <1>1 DEF Removes, Entering
<1>3. N[cs[1][2]] = NoFeed /\ \A h \in Feeds : h # cs[1][2] => N[h] = M[h]
    BY <1>2 DEF Puts
<1>4. \A f \in F : Coh(f, D, N) /\ (M[f] = NoFeed => N[f] = NoFeed)
    BY <1>3 DEF Removes, Coh
<1>5. \A f \in F : cs[1] = <<"delete", f>> => N[f] = NoFeed
    BY <1>3
<1> QED BY <1>4, <1>5, RemovesGoOn

LEMMA FixesPut ==
    ASSUME NEW F \in SUBSET Feeds, NEW cs \in Seq(CallsOf(F)), cs # <<>>, NEW D, NEW M, NEW N,
           Puts(cs[1], M, N), Fixes(cs, F, D, M)
    PROVE  Fixes(Tail(cs), F, D, N)
<1> DEFINE n == Len(cs)
           t == Tail(cs)
<1>1. /\ DOMAIN cs = 1 .. n /\ n \in Nat \ {0} /\ DOMAIN t = 1 .. n - 1 /\ 1 \in DOMAIN cs
      /\ \A i \in 1 .. n - 1 : t[i] = cs[i + 1] /\ i + 1 \in DOMAIN cs
    BY TailIs
<1> HIDE DEF n, t
<1>2. \A i \in DOMAIN t : t[i][1] \in {"delete", "set", "add"}
    BY <1>1 DEF Fixes
<1>3. \A i \in DOMAIN t : t[i][1] # "delete" => t[i][3] \in D[t[i][2]]
    BY <1>1 DEF Fixes
<1>4. ASSUME NEW f \in F
      PROVE  Coh(f, D, N) \/ \E i \in DOMAIN t : t[i][2] = f /\ t[i][1] # "add"
    <2> DEFINE c == cs[1]
    <2>1. c[1] \in {"delete", "set", "add"} /\ (c[1] # "delete" => c[3] \in D[c[2]])
        BY <1>1 DEF Fixes
    <2>2. Coh(f, D, M) \/ \E i \in DOMAIN cs : cs[i][2] = f /\ cs[i][1] # "add"
        BY DEF Fixes
    <2>3. ASSUME NEW i \in DOMAIN cs, cs[i][2] = f, cs[i][1] # "add", i # 1
          PROVE  \E j \in DOMAIN t : t[j][2] = f /\ t[j][1] # "add"
        <3>1. i - 1 \in 1 .. n - 1 /\ (i - 1) + 1 = i
            BY <1>1, <2>3
        <3>2. t[i - 1] = cs[i]
            BY <1>1, <3>1
        <3> QED BY <1>1, <2>3, <3>1, <3>2
    <2>4. CASE c[2] # f
        <3>1. N[f] = M[f]
            BY <2>4 DEF Puts
        <3> QED BY <2>2, <2>3, <2>4, <3>1 DEF Coh
    <2>5. CASE c[2] = f /\ c[1] = "delete"
        BY <2>5 DEF Puts, Coh
    <2>6. CASE c[2] = f /\ c[1] = "set"
        BY <2>1, <2>6 DEF Puts, Coh
    <2>7. CASE c[2] = f /\ c[1] = "add"
        <3>1. N[f] = IF M[f] = NoFeed THEN c[3] ELSE M[f]
            BY <2>7 DEF Puts
        <3> QED BY <2>1, <2>2, <2>3, <2>7, <3>1 DEF Coh
    <2> QED BY <2>1, <2>4, <2>5, <2>6, <2>7
<1>5. Fixes(t, F, D, N)
    BY <1>2, <1>3, <1>4 DEF Fixes
<1> QED BY <1>5 DEF t

LEMMA RightPut ==
    ASSUME NEW F \in SUBSET Feeds, NEW cs \in Seq(CallsOf(F)), cs # <<>>, NEW D, NEW M, NEW N,
           cs[1][1] \in Entering, Puts(cs[1], M, N), Right(cs, F, D, M)
    PROVE  Right(Tail(cs), F, D, N)
<1>1. CASE Removes(cs, F, D, M)
    BY <1>1, RemovesPut DEF Right
<1>2. CASE Fixes(cs, F, D, M)
    BY <1>2, FixesPut DEF Right
<1>3. CASE Replaces(cs, F, D, M)
    <2>1. PICK f \in F, d \in Data :
            /\ cs = <<<<"replace", f, d>>>> /\ (M[f] = NoFeed \/ d \in D[f])
            /\ \A h \in F \ {f} : Coh(h, D, M)
        BY <1>3 DEF Replaces
    <2>2. Tail(cs) = <<>> /\ cs[1] = <<"replace", f, d>>
        BY <2>1, Pairs
    <2>3. /\ N[f] = IF M[f] = NoFeed THEN NoFeed ELSE d
          /\ \A h \in Feeds : h # f => N[h] = M[h]
        BY <2>2 DEF Puts
    <2>4. \A h \in F : Coh(h, D, N)
        BY <2>1, <2>3 DEF Coh
    <2>5. Removes(<<>>, F, D, N)
        BY <2>4, NothingLeft
    <2> QED BY <2>2, <2>5 DEF Right
<1>4. ~ Hits(cs, F, D, M)
    BY DEF Hits, Entering
<1>5. ~ Begins(cs, F, D, M)
    BY DEF Begins, Queried, Entering
<1> QED BY <1>1, <1>2, <1>3, <1>4, <1>5 DEF Right

LEMMA RightHit ==
    ASSUME NEW F \in SUBSET Feeds, NEW cs \in Seq(CallsOf(F)), cs # <<>>, NEW D, NEW M,
           cs[1][1] = "hit", Right(cs, F, D, M)
    PROVE  /\ M[cs[1][2]] = NoFeed => Right(<<>>, F, D, M)
           /\ M[cs[1][2]] # NoFeed => Right(Tail(cs), F, D, M)
           /\ ~ Removes(cs, F, D, M)
<1>1. 1 \in DOMAIN cs
    BY TailIs
<1>2. ~ Removes(cs, F, D, M) /\ ~ Fixes(cs, F, D, M)
    BY <1>1 DEF Removes, Fixes
<1>3. ~ Replaces(cs, F, D, M) /\ ~ Begins(cs, F, D, M)
    BY DEF Replaces, Begins, Queried
<1>4. PICK f \in F, g \in F, d \in Data :
        /\ cs = <<<<"hit", f>>, <<"delete", f>>, <<"add", g, d>>>>
        /\ M[f] = NoFeed \/ d \in D[g]
        /\ \A h \in F \ {f} : Coh(h, D, M)
    BY <1>2, <1>3 DEF Right, Hits
<1> DEFINE t == <<<<"delete", f>>, <<"add", g, d>>>>
<1>5. Tail(cs) = t /\ cs[1][2] = f
    BY <1>4, Pairs
<1>6. DOMAIN t = {1, 2} /\ t[1] = <<"delete", f>> /\ t[2] = <<"add", g, d>>
    OBVIOUS
<1> HIDE DEF t
<1>7. ASSUME M[f] = NoFeed PROVE Right(<<>>, F, D, M)
    <2>1. \A h \in F : Coh(h, D, M)
        BY <1>4, <1>7 DEF Coh
    <2> QED BY <2>1, NothingLeft DEF Right
<1>8. ASSUME M[f] # NoFeed PROVE Right(Tail(cs), F, D, M)
    <2>1. Fixes(t, F, D, M)
        BY <1>4, <1>6, <1>8 DEF Fixes
    <2> QED BY <1>5, <2>1 DEF Right
<1> QED BY <1>2, <1>5, <1>7, <1>8

LEMMA Ends ==
    ASSUME NEW F, NEW D, NEW M, Right(<<>>, F, D, M)
    PROVE  \A f \in F : Coh(f, D, M)
BY Pairs DEF Right, Removes, Fixes, Replaces, Hits, Begins, Queried

(* A change whose feeds are its own fetches nothing.                       *)
LEMMA NoFetch ==
    ASSUME NEW F, NEW cs \in Seq(CallsOf(F)), cs # <<>>, NEW D, NEW M, Right(cs, F, D, M)
    PROVE  cs[1][1] # "fetch"
<1>1. 1 \in DOMAIN cs
    BY TailIs
<1> QED BY <1>1 DEF Right, Removes, Fixes, Replaces, Hits, Begins, Queried

-----------------------------------------------------------------------------
(* A set in the order of a sequence.                                       *)

LEMMA OrderIs ==
    ASSUME NEW S, IsFiniteSet(S)
    PROVE  /\ SetToSeq(S) \in Seq(S) /\ Len(SetToSeq(S)) \in Nat
           /\ DOMAIN SetToSeq(S) = 1 .. Len(SetToSeq(S))
           /\ \A x \in S : \E i \in DOMAIN SetToSeq(S) : SetToSeq(S)[i] = x
<1> DEFINE n == Cardinality(S)
<1>1. n \in Nat /\ ExistsBijection(1 .. n, S)
    BY FS_CardinalityType
<1>2. \E f \in [1 .. n -> S] : IsInjective(f)
    BY <1>1 DEF ExistsBijection, Bijection, Injection, IsInjective
<1>3. SetToSeq(S) \in [1 .. n -> S] /\ IsInjective(SetToSeq(S))
    BY <1>2 DEF SetToSeq
<1> DEFINE s == SetToSeq(S)
<1> HIDE DEF n, s
<1>4. s \in [1 .. n -> S] /\ s \in Injection(1 .. n, S)
    BY <1>3 DEF s, Injection, IsInjective
<1>5. IsFiniteSet(1 .. n) /\ Cardinality(1 .. n) = n
    BY <1>1, FS_Interval
<1>6. s \in Surjection(1 .. n, S)
    BY <1>4, <1>5, FS_Injection DEF n
<1>7. s \in Seq(S) /\ Len(s) = n /\ DOMAIN s = 1 .. n
    BY <1>1, <1>4
<1> QED BY <1>1, <1>6, <1>7 DEF s, Surjection

-----------------------------------------------------------------------------
(* The invariant.                                                          *)

Requests == Reads \cup {"none", "insert", "update", "update_p", "update2", "set", "del",
                        "del_p", "del2"}
Answers == {"none", "ok", "dup", "feedid", "error"}

Fits(r) ==
    /\ r \in [request : Requests, calls : Seq(CallsOf(r.feeds)), feeds : SUBSET Feeds,
              aim : SUBSET (Feeds \X Data), answer : Answers]
    /\ r.feeds \subseteq Active \/ r.feeds \subseteq Passive
    /\ r.calls = <<>> => r.feeds = {} /\ r.request = "none"
Counts ==
    /\ forever \subseteq Feeds /\ torn \subseteq Feeds
    /\ requests \in 0 .. MaxRequests /\ faults \in 0 .. MaxFaults
Typed ==
    /\ db \in Tables /\ memc \in Entries /\ Counts
    /\ worker = [w \in Workers |-> worker[w]] /\ \A w \in Workers : Fits(worker[w])

(* Two requests that meet, one of them a change, have torn their feeds.    *)
Meet(q, r) == q.feeds \cap r.feeds # {} /\ ~ {q.request, r.request} \subseteq Reads
Apart == \A v \in Workers, w \in Workers :
    v # w /\ Meet(worker[v], worker[w]) => worker[v].feeds \cup worker[w].feeds \subseteq torn

(* With torn feeds T: all feeds of a change are torn, or none.             *)
Entire(r, T) == r.request \notin Reads => r.feeds \subseteq T \/ r.feeds \cap T = {}

(* A read stores rows.                                                     *)
Stores(c, D, T) == c[1] = "fetch" \/ (c[1] = "set" /\ (c[2] \in T \/ c[3] \in D[c[2]]))
Reading(r, D, T) == r.request \in Reads => \A i \in DOMAIN r.calls : Stores(r.calls[i], D, T)

(* A change that has its feeds to itself is on its way.                    *)
Moving(request, cs, F, D, M) ==
    Right(cs, F, D, M) /\ (request = "del" => Removes(cs, F, D, M))
Changing(r, D, M, T) ==
    r.request \notin Reads /\ r.feeds \cap T = {} => Moving(r.request, r.calls, r.feeds, D, M)

Fine(r, D, M, T) == Entire(r, T) /\ Reading(r, D, T) /\ Changing(r, D, M, T)

(* A feed that no change holds is shown.                                   *)
Held(f) == \E w \in Workers : worker[w].request \notin Reads /\ f \in worker[w].feeds
Shows == \A f \in Feeds \ torn : ~ Held(f) => Coh(f, db, memc)

IInv == Typed /\ Apart /\ (\A w \in Workers : Fine(worker[w], db, memc, torn)) /\ Shows

-----------------------------------------------------------------------------
(* Steps of the requests under way.                                        *)

LEMMA Others ==
    ASSUME NEW w \in Workers, NEW r, worker = [v \in Workers |-> worker[v]],
           worker' = [worker EXCEPT ![w] = r]
    PROVE  /\ worker' = [v \in Workers |-> worker'[v]] /\ worker'[w] = r
           /\ \A v \in Workers : v # w => worker'[v] = worker[v]
OBVIOUS

(* Another request keeps what it knows of its feeds.                       *)
LEMMA OtherFine ==
    ASSUME NEW q, NEW r, Fits(q), Fits(r), Meet(q, r) => q.feeds \cup r.feeds \subseteq torn,
           NEW D \in Tables, NEW M \in Entries, NEW N \in Entries, NEW E \in Tables, NEW T,
           Fine(q, D, M, torn),
           \A f \in Feeds \ r.feeds : E[f] = D[f] /\ N[f] = M[f],
           r.request \in Reads => E = D,
           torn \subseteq Feeds,
           T = torn \/ (r.request \notin Reads /\ T = torn \cup r.feeds)
    PROVE  Fine(q, E, N, T)
<1>1. q.calls \in Seq(CallsOf(q.feeds)) /\ q.feeds \subseteq Feeds
    BY DEF Fits
<1>2. torn \subseteq T
    OBVIOUS
<1>3. Entire(q, T)
    BY <1>2 DEF Fine, Entire, Meet
<1>4. ASSUME q.request \in Reads PROVE Reading(q, E, T)
    <2>1. ASSUME NEW i \in DOMAIN q.calls PROVE Stores(q.calls[i], E, T)
        <3>1. Stores(q.calls[i], D, torn)
            BY <1>4 DEF Fine, Reading
        <3> DEFINE c == q.calls[i]
        <3>2. c \in CallsOf(q.feeds)
            BY <1>1
        <3> HIDE DEF c
        <3>3. CASE c[1] = "fetch"
            BY <3>3 DEF Stores, c
        <3>4. CASE c[1] = "set" /\ c[2] \in torn
            BY <1>2, <3>4 DEF Stores, c
        <3>5. CASE c[1] = "set" /\ c[2] \notin torn /\ c[3] \in D[c[2]]
            <4>1. c[2] \in q.feeds
                BY <3>2, <3>5, CallIs
            <4>2. E[c[2]] = D[c[2]]
                BY <4>1, <1>1, <3>5 DEF Meet
            <4> QED BY <4>2, <3>5 DEF Stores, c
        <3> QED BY <3>1, <3>3, <3>4, <3>5 DEF Stores, c
    <2> QED BY <2>1 DEF Reading
<1>5. ASSUME q.request \notin Reads, q.feeds \cap T = {}
      PROVE  Moving(q.request, q.calls, q.feeds, E, N)
    <2>1. q.feeds \cap torn = {}
        BY <1>2, <1>5
    <2>2. q.feeds \cap r.feeds = {}
        BY <2>1, <1>5 DEF Meet
    <2>3. \A f \in q.feeds : E[f] = D[f] /\ N[f] \in {NoFeed, M[f]}
        BY <2>2, <1>1
    <2>4. Moving(q.request, q.calls, q.feeds, D, M)
        BY <2>1, <1>5 DEF Fine, Changing
    <2> QED BY <1>1, <2>3, <2>4, RightStays, RemovesStay DEF Moving
<1> QED BY <1>3, <1>4, <1>5 DEF Fine, Reading, Changing

(* A request goes on with its feeds, or ends and leaves them.              *)
LEMMA StepKeeps ==
    ASSUME IInv, NEW w \in Workers, NEW r, Fits(r), worker' = [worker EXCEPT ![w] = r],
           \/ r.feeds = worker[w].feeds /\ r.request = worker[w].request
           \/ r.feeds = {} /\ r.request = "none",
           db' \in Tables, memc' \in Entries, Counts',
           \A f \in Feeds \ worker[w].feeds : db'[f] = db[f] /\ memc'[f] = memc[f],
           worker[w].request \in Reads => db' = db,
           \/ torn' = torn
           \/ worker[w].request \notin Reads /\ torn' = torn \cup worker[w].feeds,
           Reading(r, db', torn'), Changing(r, db', memc', torn'),
           \A f \in worker[w].feeds \ torn' :
               \/ Coh(f, db', memc')
               \/ worker[w].request \in Reads /\ ~ Coh(f, db, memc)
               \/ r.request \notin Reads /\ f \in r.feeds
    PROVE  IInv'
<1> DEFINE q == worker[w]
<1>0. /\ Fits(q) /\ torn \subseteq Feeds /\ torn \subseteq torn'
      /\ db \in Tables /\ memc \in Entries /\ "none" \notin Reads
    BY DEF IInv, Typed, Counts, Reads
<1>1. /\ worker' = [v \in Workers |-> worker'[v]] /\ worker'[w] = r
      /\ \A v \in Workers : v # w => worker'[v] = worker[v]
    BY Others DEF IInv, Typed
<1>2. Typed'
    <2>1. \A v \in Workers : Fits(worker'[v])
        BY <1>1 DEF IInv, Typed
    <2> QED BY <1>1, <2>1 DEF Typed, Tables, Entries, Feeds
<1>3. \A v \in Workers : v # w /\ Meet(worker[v], r) => Meet(worker[v], q)
    BY DEF Meet
<1>4. Apart'
    <2>1. ASSUME NEW v \in Workers, NEW u \in Workers, v # u, Meet(worker'[v], worker'[u])
          PROVE  worker'[v].feeds \cup worker'[u].feeds \subseteq torn'
        <3>1. CASE v # w /\ u # w
            BY <1>0, <1>1, <2>1, <3>1 DEF IInv, Apart
        <3>2. CASE u = w
            <4>1. Meet(worker[v], q) /\ r.feeds \subseteq q.feeds
                BY <1>1, <1>3, <2>1, <3>2
            <4> QED BY <1>0, <1>1, <2>1, <3>2, <4>1 DEF IInv, Apart
        <3>3. CASE v = w
            <4>1. Meet(worker[u], q) /\ r.feeds \subseteq q.feeds
                BY <1>1, <1>3, <2>1, <3>3 DEF Meet
            <4> QED BY <1>0, <1>1, <2>1, <3>3, <4>1 DEF IInv, Apart
        <3> QED BY <3>1, <3>2, <3>3
    <2> QED BY <2>1 DEF Apart
<1>5. \A v \in Workers : Fine(worker'[v], db', memc', torn')
    <2>1. ASSUME NEW v \in Workers, v # w PROVE Fine(worker'[v], db', memc', torn')
        <3> DEFINE p == worker[v]
        <3>1. Fits(p) /\ Fine(p, db, memc, torn)
            BY DEF IInv, Typed
        <3>2. Meet(p, q) => p.feeds \cup q.feeds \subseteq torn
            BY <2>1 DEF IInv, Apart
        <3>3. /\ \A f \in Feeds \ q.feeds : db'[f] = db[f] /\ memc'[f] = memc[f]
              /\ q.request \in Reads => db' = db
              /\ torn' = torn \/ (q.request \notin Reads /\ torn' = torn \cup q.feeds)
            OBVIOUS
        <3> HIDE DEF p, q
        <3>4. Fine(p, db', memc', torn')
            BY <1>0, <3>1, <3>2, <3>3, OtherFine
        <3> QED BY <3>4, <1>1, <2>1 DEF p
    <2>2. Entire(r, torn')
        <3>1. Entire(q, torn)
            BY DEF IInv, Fine
        <3> QED BY <3>1 DEF Entire
    <2>3. Fine(r, db', memc', torn')
        BY <2>2 DEF Fine
    <2> QED BY <1>1, <2>1, <2>3
<1>6. Shows'
    <2>1. ASSUME NEW f \in Feeds \ torn', ~ Held(f)' PROVE Coh(f, db', memc')
        <3>1. f \in Feeds /\ f \notin torn /\ f \notin torn'
            BY <1>0, <2>1
        <3>2. \A v \in Workers : worker'[v].request \notin Reads => f \notin worker'[v].feeds
            BY <2>1 DEF Held
        <3>3. ASSUME f \notin q.feeds \/ q.request \in Reads PROVE ~ Held(f)
            BY <3>2, <3>3, <1>1 DEF Held
        <3>4. CASE f \notin q.feeds
            <4>1. Coh(f, db, memc)
                BY <3>1, <3>3, <3>4 DEF IInv, Shows
            <4> QED BY <3>1, <3>4, <4>1 DEF Coh
        <3>5. CASE f \in q.feeds /\ q.request \in Reads
            <4>1. Coh(f, db, memc)
                BY <3>1, <3>3, <3>5 DEF IInv, Shows
            <4>2. ~ (r.request \notin Reads /\ f \in r.feeds)
                BY <3>2, <1>1
            <4> QED BY <3>1, <3>5, <4>1, <4>2
        <3>6. CASE f \in q.feeds /\ q.request \notin Reads
            <4>1. ~ (r.request \notin Reads /\ f \in r.feeds)
                BY <3>2, <1>1
            <4> QED BY <3>1, <3>6, <4>1
        <3> QED BY <3>4, <3>5, <3>6
    <2> QED BY <2>1 DEF Shows, Coh, Feeds
<1> QED BY <1>2, <1>4, <1>5, <1>6 DEF IInv, Fine, Entire, Reading, Changing

Answered(q, cs, a) ==
    IF cs = <<>> THEN [Idle EXCEPT !.answer = a] ELSE [q EXCEPT !.calls = cs, !.answer = a]

Becomes(r, q, cs) ==
    /\ Fits(r) /\ r.calls = cs
    /\ cs = <<>> => r.feeds = {} /\ r.request = "none"
    /\ cs # <<>> => r.feeds = q.feeds /\ r.request = q.request

LEMMA AnsweredFits ==
    ASSUME NEW q, Fits(q), NEW cs \in Seq(CallsOf(q.feeds)), NEW a \in Answers
    PROVE  Becomes(Answered(q, cs, a), q, cs)
<1> DEFINE Records(F) == [request : Requests, calls : Seq(CallsOf(F)), feeds : SUBSET Feeds,
                          aim : SUBSET (Feeds \X Data), answer : Answers]
<1>1. CASE cs = <<>>
    <2> DEFINE r == [request |-> "none", calls |-> <<>>, feeds |-> {}, aim |-> {}, answer |-> a]
    <2>1. Answered(q, cs, a) = r
        BY <1>1 DEF Answered, Idle
    <2>2. <<>> \in Seq(CallsOf({})) /\ "none" \in Requests /\ {} \in SUBSET Feeds
          /\ {} \in SUBSET (Feeds \X Data)
        BY DEF Requests
    <2>3. r \in Records({}) /\ r.feeds = {} /\ r.calls = <<>> /\ r.request = "none"
        BY <2>2
    <2>4. Fits(r)
        BY <2>3 DEF Fits
    <2> QED BY <1>1, <2>1, <2>3, <2>4 DEF Becomes
<1>2. CASE cs # <<>>
    <2> DEFINE r == [q EXCEPT !.calls = cs, !.answer = a]
    <2>1. Answered(q, cs, a) = r
        BY <1>2 DEF Answered
    <2>2. q \in Records(q.feeds)
        BY DEF Fits
    <2>3. r \in Records(q.feeds) /\ r.feeds = q.feeds /\ r.calls = cs /\ r.request = q.request
        BY <2>2
    <2> HIDE DEF r
    <2>4. Fits(r)
        BY <1>2, <2>3 DEF Fits
    <2> QED BY <1>2, <2>1, <2>3, <2>4 DEF Becomes
<1> QED BY <1>1, <1>2

LEMMA AnsweringIs ==
    ASSUME NEW w \in Workers, worker = [v \in Workers |-> worker[v]], NEW cs, NEW a,
           Answering(w, cs, a)
    PROVE  worker' = [worker EXCEPT ![w] = Answered(worker[w], cs, a)]
BY DEF Answering, Answered

LEMMA ChangeKeeps ==
    ASSUME IInv, NEW w \in Workers, worker[w].request \notin Reads,
           NEW cs \in Seq(CallsOf(worker[w].feeds)), NEW a \in Answers, Answering(w, cs, a),
           db' \in Tables, memc' \in Entries, Counts',
           \A f \in Feeds \ worker[w].feeds : db'[f] = db[f] /\ memc'[f] = memc[f],
           torn' = torn \/ torn' = torn \cup worker[w].feeds,
           worker[w].feeds \cap torn' = {} =>
               Moving(worker[w].request, cs, worker[w].feeds, db', memc')
    PROVE  IInv'
<1> DEFINE q == worker[w]
           r == Answered(q, cs, a)
<1>1. Fits(q) /\ Entire(q, torn)
    BY DEF IInv, Typed, Fine
<1>2. /\ Fits(r) /\ r.calls = cs
      /\ cs = <<>> => r.feeds = {} /\ r.request = "none"
      /\ cs # <<>> => r.feeds = q.feeds /\ r.request = q.request
    <2>1. cs \in Seq(CallsOf(q.feeds))
        OBVIOUS
    <2> HIDE DEF q, r
    <2>2. a \in Answers
        OBVIOUS
    <2>3. Becomes(Answered(q, cs, a), q, cs)
        BY <1>1, <2>1, <2>2, AnsweredFits
    <2> QED BY <2>3 DEF r, Becomes
<1>3. worker' = [worker EXCEPT ![w] = r]
    BY AnsweringIs DEF IInv, Typed
<1> HIDE DEF r
<1>4. r.request \notin Reads
    BY <1>2 DEF Reads
<1>5. Reading(r, db', torn')
    BY <1>4 DEF Reading
<1>6. Changing(r, db', memc', torn')
    <2>1. CASE cs = <<>>
        <3>1. Removes(r.calls, r.feeds, db', memc')
            BY <1>2, <2>1, NothingLeft
        <3> QED BY <3>1 DEF Changing, Moving, Right
    <2>2. CASE cs # <<>>
        BY <1>2, <2>2 DEF Changing
    <2> QED BY <2>1, <2>2
<1>7. ASSUME NEW f \in q.feeds \ torn' PROVE Coh(f, db', memc') \/ f \in r.feeds
    <2>1. CASE cs # <<>>
        BY <1>2, <2>1
    <2>2. CASE cs = <<>>
        <3>1. q.feeds \cap torn' = {}
            BY <1>1 DEF Entire
        <3>2. Right(<<>>, q.feeds, db', memc')
            BY <2>2, <3>1 DEF Moving
        <3> QED BY <3>2, Ends
    <2> QED BY <2>1, <2>2
<1> QED BY <1>2, <1>3, <1>4, <1>5, <1>6, <1>7, StepKeeps

LEMMA ReadKeeps ==
    ASSUME IInv, NEW w \in Workers, worker[w].request \in Reads,
           NEW cs \in Seq(CallsOf(worker[w].feeds)), NEW a \in Answers, Answering(w, cs, a),
           db' = db, torn' = torn, memc' \in Entries, Counts',
           \A f \in Feeds \ worker[w].feeds : memc'[f] = memc[f],
           \A f \in worker[w].feeds \ torn : memc'[f] \in {NoFeed, memc[f]} \cup db[f],
           \A i \in DOMAIN cs : Stores(cs[i], db, torn)
    PROVE  IInv'
<1> DEFINE q == worker[w]
           r == Answered(q, cs, a)
<1>1. Fits(q) /\ db \in Tables
    BY DEF IInv, Typed
<1>2. /\ Fits(r) /\ r.calls = cs
      /\ cs = <<>> => r.feeds = {} /\ r.request = "none"
      /\ cs # <<>> => r.feeds = q.feeds /\ r.request = q.request
    <2>1. cs \in Seq(CallsOf(q.feeds))
        OBVIOUS
    <2> HIDE DEF q, r
    <2>2. a \in Answers
        OBVIOUS
    <2>3. Becomes(Answered(q, cs, a), q, cs)
        BY <1>1, <2>1, <2>2, AnsweredFits
    <2> QED BY <2>3 DEF r, Becomes
<1>3. worker' = [worker EXCEPT ![w] = r]
    BY AnsweringIs DEF IInv, Typed
<1> HIDE DEF r
<1>5. Reading(r, db', torn')
    BY <1>2 DEF Reading
<1>6. Changing(r, db', memc', torn')
    <2>1. CASE cs = <<>>
        <3>1. Removes(r.calls, r.feeds, db', memc')
            BY <1>2, <2>1, NothingLeft
        <3> QED BY <3>1 DEF Changing, Moving, Right
    <2>2. CASE cs # <<>>
        BY <1>2, <2>2 DEF Changing
    <2> QED BY <2>1, <2>2
<1>7. ASSUME NEW f \in q.feeds \ torn' PROVE Coh(f, db', memc') \/ ~ Coh(f, db, memc)
    BY DEF Coh
<1> QED BY <1>1, <1>2, <1>3, <1>5, <1>6, <1>7, StepKeeps

LEMMA Working ==
    ASSUME IInv, NEW w \in Workers, Busy(w)
    PROVE  /\ worker[w].calls \in Seq(CallsOf(worker[w].feeds)) /\ worker[w].calls # <<>>
           /\ Call(w) = worker[w].calls[1] /\ Call(w) \in CallsOf(worker[w].feeds)
           /\ Tail(worker[w].calls) \in Seq(CallsOf(worker[w].feeds))
           /\ worker[w].feeds \subseteq Feeds /\ worker[w].answer \in Answers
           /\ db \in Tables /\ memc \in Entries /\ Counts
           /\ worker[w].request \notin Reads /\ worker[w].feeds \cap torn = {} =>
                Moving(worker[w].request, worker[w].calls, worker[w].feeds, db, memc)
           /\ worker[w].request \in Reads =>
                /\ \A i \in DOMAIN worker[w].calls : Stores(worker[w].calls[i], db, torn)
                /\ Stores(Call(w), db, torn)
                /\ \A i \in DOMAIN Tail(worker[w].calls) :
                     Stores(Tail(worker[w].calls)[i], db, torn)
<1> DEFINE q == worker[w]
           cs == q.calls
<1>1. Fits(q) /\ Fine(q, db, memc, torn) /\ db \in Tables /\ memc \in Entries /\ Counts
    BY DEF IInv, Typed
<1>2. cs \in Seq(CallsOf(q.feeds)) /\ cs # <<>> /\ q.feeds \subseteq Feeds
      /\ q.answer \in Answers
    BY <1>1 DEF Fits, Busy
<1>3. q.request \notin Reads /\ q.feeds \cap torn = {} =>
        Moving(q.request, cs, q.feeds, db, memc)
    BY <1>1 DEF Fine, Changing
<1>4. q.request \in Reads => \A i \in DOMAIN cs : Stores(cs[i], db, torn)
    BY <1>1 DEF Fine, Reading
<1>5. Call(w) = Head(cs)
    BY DEF Call
<1> HIDE DEF q, cs
<1>6. /\ Head(cs) = cs[1] /\ cs[1] \in CallsOf(q.feeds) /\ Tail(cs) \in Seq(CallsOf(q.feeds))
      /\ 1 \in DOMAIN cs
      /\ \A i \in DOMAIN Tail(cs) : Tail(cs)[i] = cs[i + 1] /\ i + 1 \in DOMAIN cs
    BY <1>2, TailIs
<1>7. q.request \in Reads => /\ Stores(cs[1], db, torn)
                             /\ \A i \in DOMAIN Tail(cs) : Stores(Tail(cs)[i], db, torn)
    BY <1>4, <1>6
<1> QED BY <1>1, <1>2, <1>3, <1>4, <1>5, <1>6, <1>7 DEF q, cs

LEMMA EndsMoving ==
    ASSUME NEW request, NEW F, NEW D, NEW M, \A f \in F : Coh(f, D, M)
    PROVE  Moving(request, <<>>, F, D, M)
BY NothingLeft DEF Moving, Right

LEMMA DbCallKeeps ==
    ASSUME IInv, NEW w \in Workers, DbCall(w)
    PROVE  IInv'
<1> DEFINE F == worker[w].feeds
           cs == worker[w].calls
           request == worker[w].request
<1>1. /\ Busy(w) /\ Call(w)[1] \in Queries
      /\ UNCHANGED <<memc, forever, torn, requests, faults>>
      /\ db' = Rows(Call(w)) /\ Answering(w, Tail(cs), worker[w].answer)
    BY DEF DbCall, Is, GoOn, Going
<1>2. /\ cs \in Seq(CallsOf(F)) /\ cs # <<>> /\ Call(w) = cs[1] /\ cs[1] \in CallsOf(F)
      /\ Tail(cs) \in Seq(CallsOf(F)) /\ F \subseteq Feeds /\ worker[w].answer \in Answers
      /\ db \in Tables /\ memc \in Entries /\ Counts
      /\ request \notin Reads /\ F \cap torn = {} => Moving(request, cs, F, db, memc)
    BY <1>1, Working
<1>3. request \notin Reads
    <2>1. request \in Reads => Stores(Call(w), db, torn)
        BY <1>1, Working
    <2> QED BY <2>1, <1>1 DEF Stores, Queries
<1>4. Counts' /\ torn' = torn /\ memc' = memc
    BY <1>1, <1>2 DEF Counts, Feeds
<1>5. /\ Rows(cs[1]) \in Tables /\ \A f \in Feeds \ F : Rows(cs[1])[f] = db[f]
    BY <1>1, <1>2, RowsAre
<1>6. ASSUME F \cap torn' = {} PROVE Moving(request, Tail(cs), F, db', memc')
    <2>1. Moving(request, cs, F, db, memc)
        BY <1>2, <1>3, <1>4, <1>6
    <2>2. Right(Tail(cs), F, Rows(cs[1]), memc)
        BY <1>1, <1>2, <2>1, RowsRight DEF Moving
    <2>3. request = "del" => Removes(Tail(cs), F, Rows(cs[1]), memc)
        BY <1>1, <1>2, <2>1, RowsRemoved DEF Moving
    <2> QED BY <1>1, <1>2, <1>4, <2>2, <2>3 DEF Moving
<1>7. db' \in Tables /\ memc' \in Entries
      /\ \A f \in Feeds \ F : db'[f] = db[f] /\ memc'[f] = memc[f]
    BY <1>1, <1>2, <1>4, <1>5
<1> QED BY <1>1, <1>2, <1>3, <1>4, <1>6, <1>7, ChangeKeeps

LEMMA SetsAre ==
    ASSUME NEW F \in SUBSET Feeds, NEW rows, DOMAIN rows \subseteq F, db \in Tables,
           \A f \in DOMAIN rows : rows[f] \in db[f]
    PROVE  /\ Sets(rows) \in Seq(CallsOf(F))
           /\ \A i \in DOMAIN Sets(rows) : Stores(Sets(rows)[i], db, torn)
<1> DEFINE there == DOMAIN rows
           order == SetToSeq(there)
<1>1. IsFiniteSet(there)
    BY StoreAssumption, FS_Subset
<1>2. order \in Seq(there) /\ Len(order) \in Nat /\ DOMAIN order = 1 .. Len(order)
    BY <1>1, OrderIs
<1>3. Sets(rows) = [i \in DOMAIN order |-> <<"set", order[i], rows[order[i]]>>]
    BY DEF Sets
<1>4. ASSUME NEW i \in DOMAIN order
      PROVE  /\ <<"set", order[i], rows[order[i]]>> \in CallsOf(F)
             /\ Stores(<<"set", order[i], rows[order[i]]>>, db, torn)
    <2>1. order[i] \in there
        BY <1>2
    <2> DEFINE f == order[i]
               d == rows[f]
    <2>2. f \in F /\ f \in Feeds /\ d \in db[f]
        BY <2>1
    <2> HIDE DEF f, d, order, there
    <2>3. d \in Data
        BY <2>2 DEF Tables
    <2>4. <<"set", f, d>> \in Storing(F)
        BY <2>2, <2>3 DEF Storing
    <2>5. Stores(<<"set", f, d>>, db, torn)
        BY <2>2 DEF Stores
    <2> QED BY <2>4, <2>5 DEF CallsOf, f, d
<1> HIDE DEF order
<1>5. Sets(rows) \in Seq(CallsOf(F)) /\ DOMAIN Sets(rows) = DOMAIN order
    BY <1>2, <1>3, <1>4
<1> QED BY <1>3, <1>4, <1>5

LEMMA JoinedStores ==
    ASSUME NEW C, NEW s \in Seq(C), NEW t \in Seq(C), NEW D, NEW T,
           \A i \in DOMAIN s : Stores(s[i], D, T), \A i \in DOMAIN t : Stores(t[i], D, T)
    PROVE  s \o t \in Seq(C) /\ \A i \in DOMAIN (s \o t) : Stores((s \o t)[i], D, T)
<1>1. s \in Seq(C) /\ t \in Seq(C)
    OBVIOUS
<1>2. /\ s \o t \in Seq(C) /\ Len(s \o t) = Len(s) + Len(t)
      /\ \A i \in 1 .. Len(s) + Len(t) :
           (s \o t)[i] = IF i <= Len(s) THEN s[i] ELSE t[i - Len(s)]
    BY <1>1, ConcatProperties
<1>3. Len(s) \in Nat /\ Len(t) \in Nat /\ DOMAIN s = 1 .. Len(s) /\ DOMAIN t = 1 .. Len(t)
      /\ DOMAIN (s \o t) = 1 .. Len(s) + Len(t)
    BY <1>2, LenProperties
<1>4. ASSUME NEW i \in DOMAIN (s \o t) PROVE Stores((s \o t)[i], D, T)
    <2>1. i \in 1 .. Len(s) + Len(t)
        BY <1>3
    <2>2. CASE i <= Len(s)
        <3>1. i \in DOMAIN s /\ (s \o t)[i] = s[i]
            BY <1>2, <1>3, <2>1, <2>2
        <3> QED BY <3>1
    <2>3. CASE ~ i <= Len(s)
        <3>1. i - Len(s) \in DOMAIN t /\ (s \o t)[i] = t[i - Len(s)]
            BY <1>2, <1>3, <2>1, <2>3
        <3> QED BY <3>1
    <2> QED BY <2>2, <2>3
<1> QED BY <1>2, <1>4

LEMMA FoundStores ==
    ASSUME NEW F \in SUBSET Feeds, NEW f \in F, db \in Tables, NEW found \in Found(f)
    PROVE  found \in Seq(CallsOf(F)) /\ \A i \in DOMAIN found : Stores(found[i], db, torn)
<1>1. CASE Has(f)
    <2>1. PICK d \in db[f] : found = <<<<"set", f, d>>>>
        BY <1>1 DEF Found
    <2>2. d \in Data
        BY DEF Tables
    <2>3. <<"set", f, d>> \in CallsOf(F)
        BY <2>2 DEF Storing, CallsOf
    <2>4. Stores(<<"set", f, d>>, db, torn)
        BY DEF Stores
    <2>5. DOMAIN <<<<"set", f, d>>>> = {1} /\ <<<<"set", f, d>>>>[1] = <<"set", f, d>>
        OBVIOUS
    <2> QED BY <2>1, <2>3, <2>4, <2>5
<1>2. CASE ~ Has(f)
    <2>1. found = <<>>
        BY <1>2 DEF Found
    <2> QED BY <2>1, Pairs
<1> QED BY <1>1, <1>2

LEMMA FetchKeeps ==
    ASSUME IInv, NEW w \in Workers, Fetch(w)
    PROVE  IInv'
<1> DEFINE F == worker[w].feeds
           cs == worker[w].calls
           request == worker[w].request
           rest == Tail(cs)
<1>1. /\ Busy(w) /\ Call(w)[1] = "fetch"
      /\ UNCHANGED <<db, memc, forever, torn, requests, faults>>
    BY DEF Fetch, Is
<1>2. /\ cs \in Seq(CallsOf(F)) /\ cs # <<>> /\ Call(w) = cs[1] /\ cs[1] \in CallsOf(F)
      /\ rest \in Seq(CallsOf(F)) /\ F \subseteq Feeds /\ worker[w].answer \in Answers
      /\ db \in Tables /\ memc \in Entries /\ Counts
      /\ request \notin Reads /\ F \cap torn = {} => Moving(request, cs, F, db, memc)
      /\ request \in Reads => \A i \in DOMAIN rest : Stores(rest[i], db, torn)
    BY <1>1, Working
<1>3. Counts' /\ torn' = torn /\ memc' = memc /\ db' = db
    BY <1>1, <1>2 DEF Counts, Feeds
<1>4. PICK found \in Found(Call(w)[2]) :
          Answering(w, IF request = "get" THEN found \o rest ELSE rest \o found, worker[w].answer)
    BY DEF Fetch, Going
<1> DEFINE more == IF request = "get" THEN found \o rest ELSE rest \o found
<1>5. /\ found \in Seq(CallsOf(F))
      /\ \A i \in DOMAIN found : Stores(found[i], db, torn)
    <2>1. Call(w)[2] \in F
        BY <1>1, <1>2, CallIs
    <2> QED BY <1>2, <2>1, FoundStores
<1> HIDE DEF rest
<1>6. more \in Seq(CallsOf(F))
    <2>1. found \o rest \in Seq(CallsOf(F)) /\ rest \o found \in Seq(CallsOf(F))
        BY <1>2, <1>5, ConcatProperties
    <2> QED BY <2>1
<1>7. CASE request \in Reads
    <2>1. /\ \A i \in DOMAIN (found \o rest) : Stores((found \o rest)[i], db, torn)
          /\ \A i \in DOMAIN (rest \o found) : Stores((rest \o found)[i], db, torn)
        BY <1>2, <1>5, <1>7, JoinedStores
    <2>2. \A i \in DOMAIN more : Stores(more[i], db, torn)
        BY <2>1
    <2> HIDE DEF more
    <2> QED BY <1>1, <1>2, <1>3, <1>4, <1>6, <1>7, <2>2, ReadKeeps DEF more
<1>8. CASE request \notin Reads
    <2>1. F \cap torn' # {}
        BY <1>1, <1>2, <1>3, <1>8, NoFetch DEF Moving
    <2> HIDE DEF more
    <2> QED BY <1>1, <1>2, <1>3, <1>4, <1>6, <1>8, <2>1, ChangeKeeps DEF more
<1> QED BY <1>7, <1>8

LEMMA McPuts ==
    ASSUME NEW w \in Workers, McCall(w), memc \in Entries, NEW F \in SUBSET Feeds,
           Call(w) \in CallsOf(F)
    PROVE  /\ memc' \in Entries /\ Puts(Call(w), memc, memc') /\ Call(w)[2] \in F
           /\ forever \subseteq Feeds => forever' \subseteq Feeds
<1> DEFINE c == Call(w)
<1>1. /\ c[1] \in Entering
      /\ memc' = CASE c[1] = "delete" -> [memc EXCEPT ![c[2]] = NoFeed]
                   [] c[1] # "delete" /\ Stored(c) -> [memc EXCEPT ![c[2]] = c[3]]
                   [] OTHER -> memc
      /\ forever' = IF c[1] = "delete" \/ ~ Stored(c) THEN forever
                    ELSE IF Expires(c) THEN forever \ {c[2]} ELSE forever \cup {c[2]}
    BY DEF McCall, Is, Entering
<1> HIDE DEF c
<1>2. c[2] \in F /\ (c[1] # "delete" => c[3] \in Data)
    BY <1>1, CallIs DEF Entering, c
<1>3. CASE c[1] = "delete"
    BY <1>1, <1>2, <1>3 DEF Puts, Entries, c
<1>4. CASE c[1] # "delete" /\ Stored(c)
    <2>1. memc' = [memc EXCEPT ![c[2]] = c[3]]
        BY <1>1, <1>4
    <2> QED BY <1>1, <1>2, <1>4, <2>1 DEF Puts, Entries, Stored, Entering, c
<1>5. CASE c[1] # "delete" /\ ~ Stored(c)
    <2>1. memc' = memc
        BY <1>1, <1>5
    <2> QED BY <1>1, <1>2, <1>5, <2>1 DEF Puts, Entries, Stored, Entering, c
<1> QED BY <1>3, <1>4, <1>5

LEMMA McCallKeeps ==
    ASSUME IInv, NEW w \in Workers, McCall(w)
    PROVE  IInv'
<1> DEFINE F == worker[w].feeds
           cs == worker[w].calls
           request == worker[w].request
<1>1. /\ Busy(w) /\ Call(w)[1] \in Entering
      /\ UNCHANGED <<db, torn, requests, faults>>
      /\ Answering(w, Tail(cs), worker[w].answer)
    BY DEF McCall, Is, GoOn, Going, Entering
<1>2. /\ cs \in Seq(CallsOf(F)) /\ cs # <<>> /\ Call(w) = cs[1] /\ cs[1] \in CallsOf(F)
      /\ Tail(cs) \in Seq(CallsOf(F)) /\ F \subseteq Feeds /\ worker[w].answer \in Answers
      /\ db \in Tables /\ memc \in Entries /\ Counts
      /\ request \notin Reads /\ F \cap torn = {} => Moving(request, cs, F, db, memc)
      /\ request \in Reads => /\ Stores(Call(w), db, torn)
                              /\ \A i \in DOMAIN Tail(cs) : Stores(Tail(cs)[i], db, torn)
    BY <1>1, Working
<1>3. /\ memc' \in Entries /\ Puts(Call(w), memc, memc') /\ Call(w)[2] \in F
      /\ forever' \subseteq Feeds
    BY <1>2, McPuts DEF Counts
<1>4. Counts' /\ torn' = torn /\ db' = db
    BY <1>1, <1>2, <1>3 DEF Counts, Feeds
<1>5. \A f \in Feeds \ F : db'[f] = db[f] /\ memc'[f] = memc[f]
    BY <1>3, <1>4 DEF Puts
<1>6. CASE request \in Reads
    <2>1. Call(w)[1] = "set" /\ (Call(w)[2] \in torn \/ Call(w)[3] \in db[Call(w)[2]])
        BY <1>1, <1>2, <1>6 DEF Stores, Entering
    <2>2. \A f \in F \ torn : memc'[f] \in {NoFeed, memc[f]} \cup db[f]
        BY <1>2, <1>3, <2>1 DEF Puts
    <2> QED BY <1>1, <1>2, <1>3, <1>4, <1>5, <1>6, <2>2, ReadKeeps
<1>7. CASE request \notin Reads
    <2>1. ASSUME F \cap torn' = {} PROVE Moving(request, Tail(cs), F, db', memc')
        <3>1. Moving(request, cs, F, db, memc)
            BY <1>2, <1>4, <1>7, <2>1
        <3>2. Right(Tail(cs), F, db, memc')
            BY <1>1, <1>2, <1>3, <3>1, RightPut DEF Moving
        <3>3. request = "del" => Removes(Tail(cs), F, db, memc')
            BY <1>1, <1>2, <1>3, <3>1, RemovesPut DEF Moving
        <3> QED BY <3>2, <3>3, <1>4 DEF Moving
    <2> QED BY <1>1, <1>2, <1>3, <1>4, <1>5, <1>7, <2>1, ChangeKeeps
<1> QED BY <1>6, <1>7

LEMMA McHitKeeps ==
    ASSUME IInv, NEW w \in Workers, McHit(w)
    PROVE  IInv'
<1> DEFINE F == worker[w].feeds
           cs == worker[w].calls
           request == worker[w].request
           more == IF memc[Call(w)[2]] = NoFeed THEN <<>> ELSE Tail(cs)
<1>1. /\ Busy(w) /\ Call(w)[1] = "hit"
      /\ UNCHANGED <<db, memc, forever, torn, requests, faults>>
      /\ Answering(w, more, worker[w].answer)
    BY DEF McHit, Is, Going
<1>2. /\ cs \in Seq(CallsOf(F)) /\ cs # <<>> /\ Call(w) = cs[1] /\ cs[1] \in CallsOf(F)
      /\ Tail(cs) \in Seq(CallsOf(F)) /\ F \subseteq Feeds /\ worker[w].answer \in Answers
      /\ db \in Tables /\ memc \in Entries /\ Counts
      /\ request \notin Reads /\ F \cap torn = {} => Moving(request, cs, F, db, memc)
      /\ request \in Reads => Stores(Call(w), db, torn)
    BY <1>1, Working
<1>3. Counts' /\ torn' = torn /\ db' = db /\ memc' = memc
    BY <1>1, <1>2 DEF Counts, Feeds
<1>4. request \notin Reads
    BY <1>1, <1>2 DEF Stores
<1>5. more \in Seq(CallsOf(F))
    <2>1. <<>> \in Seq(CallsOf(F)) /\ Tail(cs) \in Seq(CallsOf(F))
        BY <1>2
    <2> QED BY <2>1
<1>6. ASSUME F \cap torn' = {} PROVE Moving(request, more, F, db', memc')
    <2>1. Moving(request, cs, F, db, memc)
        BY <1>2, <1>3, <1>4, <1>6
    <2>2. /\ memc[Call(w)[2]] = NoFeed => Right(<<>>, F, db, memc)
          /\ memc[Call(w)[2]] # NoFeed => Right(Tail(cs), F, db, memc)
          /\ request # "del"
        BY <1>1, <1>2, <2>1, RightHit DEF Moving
    <2>3. Right(more, F, db, memc)
        BY <2>2
    <2> QED BY <2>2, <2>3, <1>3 DEF Moving
<1> HIDE DEF more
<1> QED BY <1>1, <1>2, <1>3, <1>4, <1>5, <1>6, ChangeKeeps

-----------------------------------------------------------------------------
(* Faults.                                                                 *)

LEMMA FaultCounts ==
    ASSUME Counts, Fault, forever' = forever, requests' = requests, torn' \subseteq Feeds
    PROVE  Counts'
BY StoreAssumption DEF Counts, Fault, Feeds

LEMMA McFailsKeeps ==
    ASSUME IInv, NEW w \in Workers, McFails(w)
    PROVE  IInv'
<1> DEFINE F == worker[w].feeds
           cs == worker[w].calls
           request == worker[w].request
           more == IF Call(w)[1] = "hit" THEN <<>> ELSE Tail(cs)
<1>1. /\ Busy(w) /\ Call(w)[1] \in {"set", "add", "replace", "delete", "hit"} /\ Fault
      /\ torn' = Tear(w) /\ UNCHANGED <<db, memc, forever, requests>>
      /\ Answering(w, more, worker[w].answer)
    BY DEF McFails, Is, Going
<1>2. /\ cs \in Seq(CallsOf(F)) /\ cs # <<>> /\ Call(w) = cs[1] /\ cs[1] \in CallsOf(F)
      /\ Tail(cs) \in Seq(CallsOf(F)) /\ F \subseteq Feeds /\ worker[w].answer \in Answers
      /\ db \in Tables /\ memc \in Entries /\ Counts
      /\ request \in Reads => /\ Stores(Call(w), db, torn)
                              /\ \A i \in DOMAIN Tail(cs) : Stores(Tail(cs)[i], db, torn)
    BY <1>1, Working
<1>3. torn' = IF request \in Reads THEN torn ELSE torn \cup F
    BY <1>1 DEF Tear
<1>4. Counts'
    <2>1. torn' \subseteq Feeds
        BY <1>2, <1>3 DEF Counts
    <2> QED BY <1>1, <1>2, <2>1, FaultCounts
<1>5. more \in Seq(CallsOf(F))
    <2>1. <<>> \in Seq(CallsOf(F)) /\ Tail(cs) \in Seq(CallsOf(F))
        BY <1>2
    <2> QED BY <2>1
<1>6. db' = db /\ memc' = memc
    BY <1>1
<1>7. CASE request \in Reads
    <2>1. more = Tail(cs)
        BY <1>2, <1>7 DEF Stores
    <2> HIDE DEF more
    <2>2. \A i \in DOMAIN more : Stores(more[i], db, torn)
        BY <1>2, <1>7, <2>1
    <2> QED BY <1>1, <1>2, <1>3, <1>4, <1>5, <1>6, <1>7, <2>2, ReadKeeps
<1>8. CASE request \notin Reads
    <2>1. Call(w)[2] \in F
        BY <1>1, <1>2, CallIs
    <2>2. torn' = torn \cup F /\ F \cap torn' # {}
        BY <1>3, <1>8, <2>1
    <2> HIDE DEF more
    <2> QED BY <1>1, <1>2, <1>4, <1>5, <1>6, <1>8, <2>2, ChangeKeeps
<1> QED BY <1>7, <1>8

(* The last calls of a read.                                               *)
LEMMA LastStores ==
    ASSUME NEW C, NEW s \in Seq(C), NEW n \in DOMAIN s, NEW D, NEW T,
           \A i \in DOMAIN s : Stores(s[i], D, T)
    PROVE  /\ SubSeq(s, n + 1, Len(s)) \in Seq(C)
           /\ \A i \in DOMAIN SubSeq(s, n + 1, Len(s)) : Stores(SubSeq(s, n + 1, Len(s))[i], D, T)
<1> DEFINE m == Len(s)
           t == SubSeq(s, n + 1, m)
<1>1. m \in Nat /\ n \in 1 .. m /\ DOMAIN s = 1 .. m
    BY LenProperties
<1>2. /\ t \in Seq(C) /\ Len(t) = m - n /\ DOMAIN t = 1 .. m - n
      /\ \A i \in 1 .. m - n : t[i] = s[n + i]
    <2>1. /\ Len(t) = IF n + 1 <= m THEN m - (n + 1) + 1 ELSE 0
          /\ \A i \in 1 .. m - (n + 1) + 1 : t[i] = s[n + 1 + i - 1]
        BY <1>1, SubSeqProperties
    <2>2. t \in Seq(C)
        BY <1>1, SubSeqProperties
    <2> HIDE DEF t, m
    <2>3. Len(t) = m - n /\ m - (n + 1) + 1 = m - n
        BY <1>1, <2>1
    <2>4. \A i \in 1 .. m - n : n + 1 + i - 1 = n + i
        BY <1>1
    <2> QED BY <2>1, <2>2, <2>3, <2>4, LenProperties
<1> HIDE DEF t, m
<1>3. ASSUME NEW i \in DOMAIN t PROVE Stores(t[i], D, T)
    <2>1. n + i \in DOMAIN s /\ t[i] = s[n + i]
        BY <1>1, <1>2
    <2> QED BY <2>1
<1> QED BY <1>2, <1>3 DEF t, m

LEMMA FetchFailsKeeps ==
    ASSUME IInv, NEW w \in Workers, FetchFails(w)
    PROVE  IInv'
<1> DEFINE F == worker[w].feeds
           cs == worker[w].calls
           request == worker[w].request
           Later(n) == SubSeq(cs, n + 1, Len(cs))
<1>1. /\ Busy(w) /\ Call(w)[1] = "fetch" /\ Fault
      /\ UNCHANGED <<db, memc, forever, torn, requests>>
      /\ \/ Answering(w, Tail(cs), worker[w].answer)
         \/ request = "get_p" /\ Answering(w, <<>>, "error")
         \/ /\ request = "get_keys"
            /\ \E n \in DOMAIN cs : Answering(w, Later(n), worker[w].answer)
    BY DEF FetchFails, Is, GoOn, Going, Quit
<1>2. /\ cs \in Seq(CallsOf(F)) /\ cs # <<>> /\ Call(w) = cs[1] /\ cs[1] \in CallsOf(F)
      /\ Tail(cs) \in Seq(CallsOf(F)) /\ F \subseteq Feeds /\ worker[w].answer \in Answers
      /\ db \in Tables /\ memc \in Entries /\ Counts
      /\ request \notin Reads /\ F \cap torn = {} => Moving(request, cs, F, db, memc)
      /\ request \in Reads => /\ \A i \in DOMAIN cs : Stores(cs[i], db, torn)
                              /\ \A i \in DOMAIN Tail(cs) : Stores(Tail(cs)[i], db, torn)
    BY <1>1, Working
<1>3. Counts' /\ torn' = torn /\ memc' = memc /\ db' = db
    <2>1. torn' \subseteq Feeds
        BY <1>1, <1>2 DEF Counts
    <2> QED BY <1>1, <1>2, <2>1, FaultCounts
<1>4. "get_p" \in Reads /\ "get_keys" \in Reads /\ "error" \in Answers
    BY DEF Reads, Answers
<1>5. CASE request \in Reads
    <2>1. ASSUME NEW more \in Seq(CallsOf(F)), NEW a \in Answers, Answering(w, more, a),
                 \A i \in DOMAIN more : Stores(more[i], db, torn)
          PROVE  IInv'
        BY <1>2, <1>3, <1>5, <2>1, ReadKeeps
    <2>2. CASE Answering(w, Tail(cs), worker[w].answer)
        BY <1>2, <1>5, <2>1, <2>2
    <2>3. CASE Answering(w, <<>>, "error")
        <3>1. <<>> \in Seq(CallsOf(F)) /\ DOMAIN <<>> = {}
            BY Pairs
        <3> QED BY <1>4, <2>1, <2>3, <3>1
    <2>4. CASE \E n \in DOMAIN cs : Answering(w, Later(n), worker[w].answer)
        <3>1. PICK n \in DOMAIN cs : Answering(w, Later(n), worker[w].answer)
            BY <2>4
        <3>2. Later(n) \in Seq(CallsOf(F)) /\ \A i \in DOMAIN Later(n) : Stores(Later(n)[i], db, torn)
            BY <1>2, <1>5, LastStores
        <3> HIDE DEF Later
        <3> QED BY <1>2, <2>1, <3>1, <3>2
    <2> QED BY <1>1, <2>2, <2>3, <2>4
<1>6. CASE request \notin Reads
    <2>1. F \cap torn' # {}
        BY <1>1, <1>2, <1>3, <1>6, NoFetch DEF Moving
    <2>2. Answering(w, Tail(cs), worker[w].answer)
        BY <1>1, <1>4, <1>6
    <2> QED BY <1>2, <1>3, <1>6, <2>1, <2>2, ChangeKeeps
<1> QED BY <1>5, <1>6

LEMMA DbFailsKeeps ==
    ASSUME IInv, NEW w \in Workers, DbFails(w)
    PROVE  IInv'
<1> DEFINE F == worker[w].feeds
           cs == worker[w].calls
           request == worker[w].request
           more == IF request = "del" THEN Tail(cs) ELSE <<>>
<1>1. /\ Busy(w) /\ Call(w)[1] \in Queries /\ Fault
      /\ UNCHANGED <<memc, forever, requests>> /\ Answering(w, more, "error")
      /\ \/ db' = db /\ torn' = torn
         \/ db' = Rows(Call(w)) /\ torn' = Tear(w)
    BY DEF DbFails, Is
<1>2. /\ cs \in Seq(CallsOf(F)) /\ cs # <<>> /\ Call(w) = cs[1] /\ cs[1] \in CallsOf(F)
      /\ Tail(cs) \in Seq(CallsOf(F)) /\ F \subseteq Feeds
      /\ db \in Tables /\ memc \in Entries /\ Counts
      /\ request \notin Reads /\ F \cap torn = {} => Moving(request, cs, F, db, memc)
      /\ request \in Reads => Stores(Call(w), db, torn)
    BY <1>1, Working
<1>3. request \notin Reads
    BY <1>1, <1>2 DEF Stores, Queries
<1>4. (torn' = torn /\ db' = db) \/ torn' = torn \cup F
    BY <1>1, <1>3 DEF Tear
<1>5. Counts' /\ memc' = memc
    <2>1. torn' \subseteq Feeds
        BY <1>2, <1>4 DEF Counts
    <2> QED BY <1>1, <1>2, <2>1, FaultCounts
<1>6. more \in Seq(CallsOf(F)) /\ "error" \in Answers
    <2>1. <<>> \in Seq(CallsOf(F)) /\ Tail(cs) \in Seq(CallsOf(F))
        BY <1>2
    <2> QED BY <2>1 DEF Answers
<1>7. db' \in Tables /\ \A f \in Feeds \ F : db'[f] = db[f] /\ memc'[f] = memc[f]
    <2>1. Rows(Call(w)) \in Tables /\ \A f \in Feeds \ F : Rows(Call(w))[f] = db[f]
        BY <1>1, <1>2, RowsAre
    <2> QED BY <1>1, <1>2, <1>5, <2>1
<1>8. ASSUME F \cap torn' = {} PROVE Moving(request, more, F, db', memc')
    <2>1. Moving(request, cs, F, db, memc)
        BY <1>2, <1>3, <1>4, <1>8
    <2>2. \A f \in F : Coh(f, db, memc)
        BY <1>1, <1>2, <2>1, Beginning DEF Moving
    <2>3. CASE request = "del"
        <3>1. Removes(cs, F, db, memc)
            BY <2>1, <2>3 DEF Moving
        <3>2. \A f \in F : cs[1] # <<"delete", f>>
            BY <1>1, <1>2 DEF Queries
        <3>3. Removes(Tail(cs), F, db, memc)
            BY <1>2, <2>2, <3>1, <3>2, RemovesGoOn
        <3>4. Removes(Tail(cs), F, Rows(cs[1]), memc)
            BY <1>1, <1>2, <3>1, RowsRemoved
        <3>5. Removes(Tail(cs), F, db', memc')
            BY <1>1, <1>2, <3>3, <3>4
        <3> QED BY <2>3, <3>5 DEF Moving, Right
    <2>4. CASE request # "del"
        <3>1. db' = db \/ F = {}
            BY <1>1, <1>4, <1>8
        <3>2. \A f \in F : Coh(f, db', memc')
            BY <1>1, <2>2, <3>1
        <3> QED BY <2>4, <3>2, EndsMoving
    <2> QED BY <2>3, <2>4
<1> HIDE DEF more
<1> QED BY <1>1, <1>2, <1>3, <1>4, <1>5, <1>6, <1>7, <1>8, ChangeKeeps

LEMMA DieKeeps ==
    ASSUME IInv, NEW w \in Workers, Die(w)
    PROVE  IInv'
<1> DEFINE F == worker[w].feeds
           request == worker[w].request
<1>1. /\ Busy(w) /\ Fault /\ worker' = [worker EXCEPT ![w] = Idle]
      /\ torn' = Tear(w) /\ UNCHANGED <<db, memc, forever, requests>>
    BY DEF Die
<1>2. /\ F \subseteq Feeds /\ db \in Tables /\ memc \in Entries /\ Counts
    BY <1>1, Working
<1>3. torn' = IF request \in Reads THEN torn ELSE torn \cup F
    BY <1>1 DEF Tear
<1>4. Counts' /\ db' = db /\ memc' = memc
    <2>1. torn' \subseteq Feeds
        BY <1>2, <1>3 DEF Counts
    <2> QED BY <1>1, <1>2, <2>1, FaultCounts
<1>5. Answering(w, <<>>, "none")
    <2>1. [Idle EXCEPT !.answer = "none"] = Idle
        BY DEF Idle
    <2> QED BY <1>1, <2>1 DEF Answering
<1>6. <<>> \in Seq(CallsOf(F)) /\ "none" \in Answers
    BY DEF Answers
<1>7. CASE request \in Reads
    <2>1. \A i \in DOMAIN <<>> : Stores(<<>>[i], db, torn)
        BY Pairs
    <2> QED BY <1>2, <1>3, <1>4, <1>5, <1>6, <1>7, <2>1, ReadKeeps
<1>8. CASE request \notin Reads
    <2>1. ASSUME F \cap torn' = {} PROVE Moving(request, <<>>, F, db', memc')
        <3>1. F = {}
            BY <1>3, <1>8, <2>1
        <3> QED BY <3>1, EndsMoving
    <2> QED BY <1>2, <1>3, <1>4, <1>5, <1>6, <1>8, <2>1, ChangeKeeps
<1> QED BY <1>7, <1>8

LEMMA ForgetKeeps ==
    ASSUME IInv, NEW f \in Feeds, Forget(f)
    PROVE  IInv'
<1>1. /\ memc' = [memc EXCEPT ![f] = NoFeed] /\ db' = db /\ worker' = worker /\ torn' = torn
      /\ UNCHANGED <<forever, requests, faults>>
    BY DEF Forget
<1>2. db \in Tables /\ memc \in Entries /\ memc' \in Entries
      /\ \A g \in Feeds : memc'[g] \in {NoFeed, memc[g]}
    BY <1>1 DEF IInv, Typed, Entries
<1>3. Typed' /\ Apart'
    BY <1>1, <1>2 DEF IInv, Typed, Counts, Apart, Meet, Tables, Entries, Feeds
<1>4. ASSUME NEW w \in Workers PROVE Fine(worker[w], db, memc', torn)
    <2> DEFINE q == worker[w]
    <2>1. Fits(q) /\ Fine(q, db, memc, torn)
        BY DEF IInv, Typed
    <2> HIDE DEF q
    <2>2. q.calls \in Seq(CallsOf(q.feeds)) /\ q.feeds \subseteq Feeds
        BY <2>1 DEF Fits
    <2>3. ASSUME q.request \notin Reads, q.feeds \cap torn = {}
          PROVE  Moving(q.request, q.calls, q.feeds, db, memc')
        <3>1. Moving(q.request, q.calls, q.feeds, db, memc)
            BY <2>1, <2>3 DEF Fine, Changing
        <3>2. \A g \in q.feeds : db[g] = db[g] /\ memc'[g] \in {NoFeed, memc[g]}
            BY <1>2, <2>2
        <3> QED BY <2>2, <3>1, <3>2, RightStays, RemovesStay DEF Moving
    <2> QED BY <2>1, <2>3 DEF Fine, Changing, q
<1>5. \A w \in Workers : Fine(worker'[w], db', memc', torn')
    BY <1>1, <1>4
<1>6. Shows'
    <2>1. ASSUME NEW g \in Feeds \ torn', ~ Held(g)' PROVE Coh(g, db', memc')
        <3>1. Coh(g, db, memc)
            BY <1>1, <2>1 DEF IInv, Shows, Held
        <3> QED BY <1>1, <1>2, <3>1 DEF Coh
    <2> QED BY <2>1 DEF Shows, Coh, Feeds
<1> QED BY <1>3, <1>5, <1>6 DEF IInv, Fine, Entire, Reading, Changing

-----------------------------------------------------------------------------
(* Requests that are taken.                                                *)

LEMMA BeginKeeps ==
    ASSUME IInv, NEW w \in Workers, ~ Busy(w), NEW r, Fits(r),
           worker' = [worker EXCEPT ![w] = r], db' = db, memc' = memc, Counts', torn \subseteq torn',
           \A v \in Workers : v # w =>
               /\ Entire(worker[v], torn')
               /\ Meet(worker[v], r) => worker[v].feeds \cup r.feeds \subseteq torn',
           Entire(r, torn'), Reading(r, db, torn'),
           /\ r.request \notin Reads /\ r.feeds \cap torn' = {}
           /\ \A f \in r.feeds : Coh(f, db, memc)
           => Moving(r.request, r.calls, r.feeds, db, memc)
    PROVE  IInv'
<1>1. /\ worker' = [v \in Workers |-> worker'[v]] /\ worker'[w] = r
      /\ \A v \in Workers : v # w => worker'[v] = worker[v]
    BY Others DEF IInv, Typed
<1>2. worker[w].feeds = {} /\ r.feeds \subseteq Feeds
    BY DEF IInv, Typed, Fits, Busy
<1>3. Typed'
    <2>1. \A v \in Workers : Fits(worker'[v])
        BY <1>1 DEF IInv, Typed
    <2>2. db' \in Tables /\ memc' \in Entries
        BY DEF IInv, Typed
    <2> QED BY <1>1, <2>1, <2>2 DEF Typed, Tables, Entries, Feeds
<1>4. Apart'
    <2>1. ASSUME NEW v \in Workers, NEW u \in Workers, v # u, Meet(worker'[v], worker'[u])
          PROVE  worker'[v].feeds \cup worker'[u].feeds \subseteq torn'
        <3>1. CASE v # w /\ u # w
            BY <1>1, <2>1, <3>1 DEF IInv, Apart
        <3>2. CASE u = w
            BY <1>1, <2>1, <3>2
        <3>3. CASE v = w
            <4>1. Meet(worker[u], r)
                BY <1>1, <2>1, <3>3 DEF Meet
            <4> QED BY <1>1, <2>1, <3>3, <4>1
        <3> QED BY <3>1, <3>2, <3>3
    <2> QED BY <2>1 DEF Apart
<1>5. ASSUME NEW v \in Workers, v # w PROVE Fine(worker'[v], db, memc, torn')
    <2> DEFINE q == worker[v]
    <2>1. Fine(q, db, memc, torn) /\ Entire(q, torn')
        BY <1>5 DEF IInv
    <2> HIDE DEF q
    <2>2. Reading(q, db, torn') /\ Changing(q, db, memc, torn')
        BY <2>1 DEF Fine, Reading, Stores, Changing
    <2> QED BY <1>1, <1>5, <2>1, <2>2 DEF Fine, q
<1>6. Changing(r, db, memc, torn')
    <2>1. ASSUME r.request \notin Reads, r.feeds \cap torn' = {}, NEW f \in r.feeds
          PROVE  Coh(f, db, memc)
        <3>1. f \in Feeds \ torn
            BY <1>2, <2>1
        <3>2. ~ Held(f)
            <4>1. ASSUME NEW v \in Workers, worker[v].request \notin Reads, f \in worker[v].feeds
                  PROVE  FALSE
                <5>1. v # w
                    BY <1>2, <4>1
                <5>2. Meet(worker[v], r)
                    BY <2>1, <4>1 DEF Meet
                <5> QED BY <2>1, <5>1, <5>2
            <4> QED BY <4>1 DEF Held
        <3> QED BY <3>1, <3>2 DEF IInv, Shows
    <2> QED BY <2>1 DEF Changing
<1>7. \A v \in Workers : Fine(worker'[v], db', memc', torn')
    BY <1>1, <1>5, <1>6 DEF Fine
<1>8. Shows'
    <2>1. ASSUME NEW f \in Feeds \ torn', ~ Held(f)' PROVE Coh(f, db', memc')
        <3>1. \A v \in Workers : worker'[v].request \notin Reads => f \notin worker'[v].feeds
            BY <2>1 DEF Held
        <3>2. ~ Held(f)
            BY <3>1, <1>1, <1>2 DEF Held
        <3> QED BY <2>1, <3>2 DEF IInv, Shows
    <2> QED BY <2>1 DEF Shows, Coh, Feeds
<1> QED BY <1>3, <1>4, <1>7, <1>8 DEF IInv, Fine, Entire, Reading, Changing

(* What a request tears.                                                   *)
Tears(w, request, F, T) ==
    /\ T \subseteq Feeds /\ torn \subseteq T
    /\ request \notin Reads => F \subseteq T \/ F \cap T = {}
    /\ \A v \in Workers : v # w =>
         /\ Entire(worker[v], T)
         /\ worker[v].feeds \cap F # {} /\ ~ {worker[v].request, request} \subseteq Reads
            => worker[v].feeds \cup F \subseteq T

LEMMA TornIs ==
    ASSUME IInv, NEW w \in Workers, NEW request, NEW F \in SUBSET Feeds
    PROVE  Tears(w, request, F, torn \cup Torn(w, request, F))
<1> DEFINE T == torn \cup Torn(w, request, F)
<1> DEFINE others == {v \in Workers \ {w} : /\ Busy(v) /\ worker[v].feeds \cap F # {}
                                         /\ ~ {request, worker[v].request} \subseteq Reads}
           more == IF request \notin Reads /\ F \cap torn # {} THEN F ELSE {}
<1>1. T = torn \cup (UNION {worker[v].feeds \cup F : v \in others}) \cup more
    BY DEF Torn
<1> HIDE DEF T
<1>2. \A v \in Workers : Fits(worker[v]) /\ Entire(worker[v], torn)
    BY DEF IInv, Typed, Fine
<1>3. torn \subseteq Feeds /\ \A v \in Workers : worker[v].feeds \subseteq Feeds
    BY <1>2 DEF IInv, Typed, Counts, Fits
<1> HIDE DEF more, others
<1>4. \A x : x \in T <=> \/ x \in torn \/ x \in more
                         \/ \E v \in others : x \in worker[v].feeds \/ x \in F
    BY <1>1
<1> USE DEF others
<1>5. ASSUME NEW v \in Workers, v # w, worker[v].feeds \cap F # {},
             ~ {worker[v].request, request} \subseteq Reads
      PROVE  v \in others
    <2>1. Busy(v)
        BY <1>2, <1>5 DEF Fits, Busy
    <2> QED BY <1>5, <2>1
<1>6. \A v \in others : v \in Workers /\ v # w /\ worker[v].feeds \cup F \subseteq T
    BY <1>4
<1>7. T \subseteq Feeds /\ torn \subseteq T
    BY <1>3, <1>4, <1>6 DEF more
<1>8. ASSUME request \notin Reads, NEW x \in F, x \in T PROVE F \subseteq T
    BY <1>4, <1>6, <1>8 DEF more
<1>9. ASSUME NEW v \in Workers, v # w, worker[v].request \notin Reads,
             NEW x \in worker[v].feeds, x \in T
      PROVE  worker[v].feeds \subseteq T
    <2>1. CASE x \in torn
        BY <1>2, <1>7, <1>9, <2>1 DEF Entire
    <2>2. CASE x \in F
        <3>1. v \in others
            BY <1>5, <1>9, <2>2
        <3> QED BY <1>6, <3>1
    <2>3. ASSUME NEW u \in others, x \in worker[u].feeds PROVE worker[v].feeds \subseteq T
        <3>1. CASE u = v
            BY <1>6, <2>3, <3>1
        <3>2. CASE u # v
            <4>1. Meet(worker[v], worker[u]) /\ u \in Workers
                BY <1>9, <2>3 DEF Meet
            <4> QED BY <1>7, <3>2, <4>1 DEF IInv, Apart
        <3> QED BY <3>1, <3>2
    <2> QED BY <1>4, <1>9, <2>1, <2>2, <2>3 DEF more
<1> HIDE DEF others
<1>10. ASSUME NEW v \in Workers, v # w PROVE Entire(worker[v], T)
    BY <1>9, <1>10 DEF Entire
<1>11. ASSUME NEW v \in Workers, v # w, worker[v].feeds \cap F # {},
              ~ {worker[v].request, request} \subseteq Reads
       PROVE  worker[v].feeds \cup F \subseteq T
    BY <1>5, <1>6, <1>11
<1>12. Tears(w, request, F, T)
    BY <1>7, <1>8, <1>10, <1>11 DEF Tears
<1> QED BY <1>12 DEF T

LEMMA TakeKeeps ==
    ASSUME IInv, NEW w \in Workers, NEW request \in Requests, NEW F \in SUBSET Feeds,
           F \subseteq Active \/ F \subseteq Passive, NEW cs \in Seq(CallsOf(F)),
           NEW aim \in SUBSET (Feeds \X Data), NEW a \in Answers,
           Take(w, request, F, cs, aim, a),
           request \in Reads => \A i \in DOMAIN cs : Stores(cs[i], db, torn),
           /\ request \notin Reads /\ cs # <<>> /\ \A f \in F : Coh(f, db, memc)
           => Moving(request, cs, F, db, memc)
    PROVE  IInv'
<1>1. ~ Busy(w) /\ requests < MaxRequests /\ requests' = requests + 1
      /\ UNCHANGED <<db, memc, forever, faults>>
    BY DEF Take
<1>2. Counts /\ \A v \in Workers : Fits(worker[v]) /\ Entire(worker[v], torn)
    BY DEF IInv, Typed, Fine
<1>3. ASSUME torn' \subseteq Feeds PROVE Counts'
    BY <1>1, <1>2, <1>3, StoreAssumption DEF Counts, Feeds
<1>4. CASE cs = <<>>
    <2> DEFINE r == Answered(worker[w], <<>>, a)
    <2>1. worker' = [worker EXCEPT ![w] = r] /\ torn' = torn
        BY <1>4 DEF Take, Answered
    <2>2. Becomes(r, worker[w], <<>>)
        <3>1. <<>> \in Seq(CallsOf(worker[w].feeds))
            OBVIOUS
        <3> QED BY <1>2, <3>1, AnsweredFits
    <2> HIDE DEF r
    <2>3. Fits(r) /\ r.calls = <<>> /\ r.feeds = {} /\ r.request = "none"
        BY <2>2 DEF Becomes
    <2>4. Counts'
        BY <1>2, <1>3, <2>1 DEF Counts
    <2>5. Entire(r, torn') /\ Reading(r, db, torn') /\ \A v \in Workers : ~ Meet(worker[v], r)
        BY <2>3 DEF Entire, Reading, Reads, Meet
    <2>6. Moving(r.request, r.calls, r.feeds, db, memc)
        BY <2>3, EndsMoving
    <2> QED BY <1>1, <1>2, <2>1, <2>3, <2>4, <2>5, <2>6, BeginKeeps
<1>5. CASE cs # <<>>
    <2> DEFINE r == [request |-> request, calls |-> cs, feeds |-> F, aim |-> aim, answer |-> a]
    <2>1. worker' = [worker EXCEPT ![w] = r] /\ torn' = torn \cup Torn(w, request, F)
        BY <1>5 DEF Take
    <2>2. Fits(r) /\ r.request = request /\ r.calls = cs /\ r.feeds = F
        BY <1>5 DEF Fits
    <2> HIDE DEF r
    <2>3. /\ torn' \subseteq Feeds /\ torn \subseteq torn'
          /\ request \notin Reads => F \subseteq torn' \/ F \cap torn' = {}
          /\ \A v \in Workers : v # w =>
               /\ Entire(worker[v], torn')
               /\ worker[v].feeds \cap F # {} /\ ~ {worker[v].request, request} \subseteq Reads
                  => worker[v].feeds \cup F \subseteq torn'
        <3>1. Tears(w, request, F, torn')
            BY <2>1, TornIs
        <3> QED BY <3>1 DEF Tears
    <2>4. Counts'
        BY <1>3, <2>3
    <2>5. Entire(r, torn') /\ Reading(r, db, torn')
        BY <2>2, <2>3 DEF Entire, Reading, Stores
    <2>6. \A v \in Workers : v # w =>
            /\ Entire(worker[v], torn')
            /\ Meet(worker[v], r) => worker[v].feeds \cup r.feeds \subseteq torn'
        BY <2>2, <2>3 DEF Meet
    <2>7. /\ r.request \notin Reads /\ r.feeds \cap torn' = {}
          /\ \A f \in r.feeds : Coh(f, db, memc)
          => Moving(r.request, r.calls, r.feeds, db, memc)
        BY <1>5, <2>2
    <2> QED BY <1>1, <2>1, <2>2, <2>3, <2>4, <2>5, <2>6, <2>7, BeginKeeps
<1> QED BY <1>4, <1>5

LEMMA BlindKeeps ==
    ASSUME IInv, NEW w \in Workers, Del2Blind(w)
    PROVE  IInv'
<1> DEFINE cs == <<<<"remove", Active>>>>
           r == [request |-> "del2", calls |-> cs, feeds |-> Active, aim |-> {}, answer |-> "ok"]
<1>1. /\ ~ Busy(w) /\ requests < MaxRequests /\ requests' = requests + 1 /\ Fault
      /\ worker' = [worker EXCEPT ![w] = r] /\ torn' = torn \cup Active
      /\ UNCHANGED <<db, memc, forever>>
    BY DEF Del2Blind
<1>2. Counts /\ torn' \subseteq Feeds /\ Active \subseteq Feeds
      /\ \A v \in Workers : Fits(worker[v]) /\ Entire(worker[v], torn)
    BY <1>1 DEF IInv, Typed, Fine, Counts, Feeds
<1>3. Counts'
    BY <1>1, <1>2, StoreAssumption DEF Counts, Fault, Feeds
<1>4. Fits(r)
    <2>1. <<"remove", Active>> \in CallsOf(Active)
        BY DEF CallsOf, Removing
    <2>2. cs \in Seq(CallsOf(Active)) /\ cs # <<>>
        BY <2>1
    <2>3. {} \in SUBSET (Feeds \X Data)
        OBVIOUS
    <2> HIDE DEF cs
    <2> QED BY <1>2, <2>2, <2>3 DEF Fits, Requests, Answers
<1>5. r.request = "del2" /\ r.feeds = Active /\ r.calls = <<<<"remove", Active>>>>
    OBVIOUS
<1> HIDE DEF r
<1>6. Entire(r, torn') /\ Reading(r, db, torn')
    BY <1>1, <1>5 DEF Entire, Reading, Reads
<1>7. ASSUME NEW v \in Workers, v # w
      PROVE  /\ Entire(worker[v], torn')
             /\ Meet(worker[v], r) => worker[v].feeds \cup r.feeds \subseteq torn'
    <2> DEFINE q == worker[v]
    <2>1. Fits(q) /\ Entire(q, torn)
        BY <1>2
    <2> HIDE DEF q
    <2>2. q.feeds \subseteq Active \/ q.feeds \cap Active = {}
        BY <2>1, StoreAssumption DEF Fits
    <2>3. Entire(q, torn')
        BY <1>1, <2>1, <2>2 DEF Entire
    <2>4. Meet(q, r) => q.feeds \cup r.feeds \subseteq torn'
        BY <1>1, <1>5, <2>2 DEF Meet
    <2> QED BY <2>3, <2>4 DEF q
<1>8. ASSUME r.feeds \cap torn' = {} PROVE Moving(r.request, r.calls, r.feeds, db, memc)
    <2>1. Active = {}
        BY <1>1, <1>5, <1>8
    <2>2. DOMAIN r.calls = {1} /\ r.calls[1] = <<"remove", {}>>
        BY <1>5, <2>1
    <2>3. Removes(r.calls, r.feeds, db, memc)
        BY <1>5, <2>1, <2>2 DEF Removes
    <2> QED BY <2>3 DEF Moving, Right
<1> QED BY <1>1, <1>3, <1>4, <1>6, <1>7, <1>8, BeginKeeps

LEMMA IsCall ==
    ASSUME NEW F
    PROVE  /\ \A f \in F : /\ <<"delete", f>> \in CallsOf(F) /\ <<"hit", f>> \in CallsOf(F)
                          /\ <<"fetch", f>> \in CallsOf(F)
           /\ \A f \in F, d \in Data :
                /\ <<"insert", f, d>> \in CallsOf(F) /\ <<"set", f, d>> \in CallsOf(F)
                /\ <<"add", f, d>> \in CallsOf(F) /\ <<"replace", f, d>> \in CallsOf(F)
           /\ \A f \in F, g \in F, d \in Data : <<"update", f, g, d>> \in CallsOf(F)
           /\ \A S \in SUBSET F : <<"remove", S>> \in CallsOf(F)
<1>1. \A f \in F : /\ <<"delete", f>> \in Asking(F) /\ <<"hit", f>> \in Asking(F)
                   /\ <<"fetch", f>> \in Asking(F)
    BY DEF Asking
<1>2. \A f \in F, d \in Data : <<"insert", f, d>> \in Inserting(F)
    BY DEF Inserting
<1>3. \A f \in F, d \in Data : /\ <<"set", f, d>> \in Storing(F) /\ <<"add", f, d>> \in Storing(F)
                               /\ <<"replace", f, d>> \in Storing(F)
    BY DEF Storing
<1>4. \A f \in F, g \in F, d \in Data : <<"update", f, g, d>> \in Updating(F)
    BY DEF Updating
<1>5. \A S \in SUBSET F : <<"remove", S>> \in Removing(F)
    BY DEF Removing
<1> QED BY <1>1, <1>2, <1>3, <1>4, <1>5 DEF CallsOf

LEMMA BeginsMoving ==
    ASSUME NEW request, request # "del", NEW cs, NEW F, NEW D, NEW M, Queried(cs, F, D),
           \A f \in F : Coh(f, D, M)
    PROVE  Moving(request, cs, F, D, M)
BY DEF Moving, Right, Begins

LEMMA InsertKeeps ==
    ASSUME IInv, NEW w \in Workers, NEW f \in Feeds, NEW d \in Data, Insert(w, f, d)
    PROVE  IInv'
<1>1. {f} \subseteq Feeds /\ ({f} \subseteq Active \/ {f} \subseteq Passive)
    BY DEF Feeds
<1>2. "insert" \in Requests /\ "insert" \notin Reads /\ {"dup", "ok"} \subseteq Answers
    BY DEF Requests, Reads, Answers
<1>3. CASE Has(f)
    <2>1. Take(w, "insert", {f}, <<>>, {}, "dup")
        BY <1>3 DEF Insert
    <2>2. <<>> \in Seq(CallsOf({f})) /\ {} \in SUBSET (Feeds \X Data)
        OBVIOUS
    <2> QED BY <1>1, <1>2, <2>1, <2>2, TakeKeeps
<1>4. CASE ~ Has(f)
    <2> DEFINE cs == <<<<"insert", f, d>>>>
               aim == {<<f, d>>}
    <2>1. Take(w, "insert", {f}, cs, aim, "ok")
        BY <1>4 DEF Insert
    <2>2. cs \in Seq(CallsOf({f})) /\ aim \in SUBSET (Feeds \X Data)
        <3>1. <<"insert", f, d>> \in CallsOf({f})
            BY IsCall
        <3>2. aim \in SUBSET (Feeds \X Data)
            OBVIOUS
        <3> QED BY <3>1, <3>2
    <2>3. Queried(cs, {f}, db)
        BY DEF Queried
    <2> HIDE DEF cs, aim
    <2>4. (\A g \in {f} : Coh(g, db, memc)) => Moving("insert", cs, {f}, db, memc)
        BY <2>3, BeginsMoving
    <2> QED BY <1>1, <1>2, <2>1, <2>2, <2>4, TakeKeeps
<1> QED BY <1>3, <1>4

LEMMA UpdateKeeps ==
    ASSUME IInv, NEW w \in Workers, NEW f \in Feeds, NEW d \in Data,
           Update(w, f, d) \/ UpdateP(w, f, d)
    PROVE  IInv'
<1>1. {f} \subseteq Feeds /\ ({f} \subseteq Active \/ {f} \subseteq Passive)
    BY DEF Feeds
<1>2. {"update", "update_p"} \subseteq Requests /\ "update" \notin Reads /\ "update_p" \notin Reads
      /\ {"feedid", "ok"} \subseteq Answers
    BY DEF Requests, Reads, Answers
<1> DEFINE cs == <<<<"update", f, f, d>>, <<"replace", f, d>>>>
           aim == {<<f, d>>}
<1>3. cs \in Seq(CallsOf({f})) /\ aim \in SUBSET (Feeds \X Data)
    <2>1. f \in {f}
        OBVIOUS
    <2>2. <<"update", f, f, d>> \in CallsOf({f}) /\ <<"replace", f, d>> \in CallsOf({f})
        BY <2>1, IsCall
    <2>3. aim \in SUBSET (Feeds \X Data)
        OBVIOUS
    <2> QED BY <2>2, <2>3
<1>4. Queried(cs, {f}, db)
    BY DEF Queried
<1>5. <<>> \in Seq(CallsOf({f})) /\ {} \in SUBSET (Feeds \X Data)
    OBVIOUS
<1>6. \/ Take(w, "update", {f}, <<>>, {}, "feedid") \/ Take(w, "update", {f}, cs, aim, "ok")
      \/ Take(w, "update_p", {f}, cs, aim, "ok")
    BY DEF Update, UpdateP
<1> HIDE DEF cs, aim
<1>7. ASSUME NEW request \in {"update", "update_p"}, \A g \in {f} : Coh(g, db, memc)
      PROVE  Moving(request, cs, {f}, db, memc)
    BY <1>4, <1>7, BeginsMoving
<1>8. CASE Take(w, "update", {f}, <<>>, {}, "feedid")
    BY <1>1, <1>2, <1>5, <1>8, TakeKeeps
<1>9. CASE Take(w, "update", {f}, cs, aim, "ok")
    BY <1>1, <1>2, <1>3, <1>7, <1>9, TakeKeeps
<1>10. CASE Take(w, "update_p", {f}, cs, aim, "ok")
    BY <1>1, <1>2, <1>3, <1>7, <1>10, TakeKeeps
<1> QED BY <1>6, <1>8, <1>9, <1>10

LEMMA Update2Keeps ==
    ASSUME IInv, NEW w \in Workers, NEW f \in Active, NEW g \in Active, NEW d \in Data,
           Update2(w, f, g, d)
    PROVE  IInv'
<1> DEFINE F == {f, g}
           cs == <<<<"update", f, g, d>>, <<"hit", f>>, <<"delete", f>>, <<"add", g, d>>>>
           aim == {<<g, d>>}
<1>1. F \subseteq Feeds /\ F \subseteq Active /\ f \in F /\ g \in F /\ g \in Feeds
    BY DEF Feeds
<1>2. "update2" \in Requests /\ "update2" \notin Reads /\ {"dup", "ok"} \subseteq Answers
    BY DEF Requests, Reads, Answers
<1>3. Take(w, "update2", F, <<>>, {}, "dup") \/ Take(w, "update2", F, cs, aim, "ok")
    BY DEF Update2
<1>4. Queried(cs, F, db)
    BY <1>1 DEF Queried
<1>5. aim \in SUBSET (Feeds \X Data)
    BY <1>1
<1>6. <<>> \in Seq(CallsOf(F)) /\ {} \in SUBSET (Feeds \X Data)
    OBVIOUS
<1> HIDE DEF F, aim
<1>7. cs \in Seq(CallsOf(F))
    <2>1. /\ <<"update", f, g, d>> \in CallsOf(F) /\ <<"hit", f>> \in CallsOf(F)
          /\ <<"delete", f>> \in CallsOf(F) /\ <<"add", g, d>> \in CallsOf(F)
        BY <1>1, IsCall
    <2> QED BY <2>1
<1> HIDE DEF cs
<1>8. (\A h \in F : Coh(h, db, memc)) => Moving("update2", cs, F, db, memc)
    BY <1>4, BeginsMoving
<1>9. CASE Take(w, "update2", F, <<>>, {}, "dup")
    BY <1>1, <1>2, <1>6, <1>9, TakeKeeps
<1>10. CASE Take(w, "update2", F, cs, aim, "ok")
    BY <1>1, <1>2, <1>5, <1>7, <1>8, <1>10, TakeKeeps
<1> QED BY <1>3, <1>9, <1>10

LEMMA Joins == \A a, b, c : <<a>> \o <<b>> = <<a, b>> /\ <<a>> \o <<b, c>> = <<a, b, c>>
<1> TAKE a, b, c
<1> DEFINE C == {a, b, c}
           s == <<a>> \o <<b>>
           t == <<a>> \o <<b, c>>
           u == <<a, b>>
           v == <<a, b, c>>
<1>1. s \in Seq(C) /\ Len(s) = 2 /\ s[1] = a /\ s[2] = b
    OBVIOUS
<1>2. t \in Seq(C) /\ Len(t) = 3 /\ t[1] = a /\ t[2] = b /\ t[3] = c
    OBVIOUS
<1>3. u \in Seq(C) /\ Len(u) = 2 /\ u[1] = a /\ u[2] = b
    OBVIOUS
<1>4. v \in Seq(C) /\ Len(v) = 3 /\ v[1] = a /\ v[2] = b /\ v[3] = c
    OBVIOUS
<1> HIDE DEF C, s, t, u, v
<1>5. (\A i \in 1 .. Len(s) : s[i] = u[i]) /\ (\A i \in 1 .. Len(t) : t[i] = v[i])
    BY <1>1, <1>2, <1>3, <1>4
<1>6. s = u /\ t = v
    BY <1>1, <1>2, <1>3, <1>4, <1>5, SeqEqual
<1> QED BY <1>6 DEF s, t, u, v

LEMMA SetKeeps ==
    ASSUME IInv, NEW w \in Workers, NEW f \in Active, NEW g \in Active, NEW d \in Data,
           Set(w, f, g, d)
    PROVE  IInv'
<1> DEFINE F == {f, g}
           cs == SetCalls(f, g, d)
           aim == {<<g, d>>}
<1>1. F \subseteq Feeds /\ F \subseteq Active /\ f \in F /\ g \in F /\ g \in Feeds
    BY DEF Feeds
<1>2. "set" \in Requests /\ "set" \notin Reads /\ "ok" \in Answers
    BY DEF Requests, Reads, Answers
<1>3. Take(w, "set", F, cs, aim, "ok")
    BY DEF Set
<1>4. \/ cs = <<<<"insert", g, d>>, <<"set", g, d>>>>
      \/ cs = <<<<"update", f, g, d>>, <<"set", g, d>>>> /\ f = g /\ db[f] # {}
      \/ cs = <<<<"update", f, g, d>>, <<"delete", f>>, <<"add", g, d>>>> /\ f # g /\ db[f] # {}
    <2>1. CASE ~ Has(f)
        BY <2>1 DEF SetCalls
    <2>2. CASE Has(f) /\ f = g
        <3>1. cs = <<<<"update", f, g, d>>>> \o <<<<"set", g, d>>>>
            BY <2>2 DEF SetCalls
        <3> QED BY <2>2, <3>1, Joins DEF Has
    <2>3. CASE Has(f) /\ f # g
        <3>1. cs = <<<<"update", f, g, d>>>> \o <<<<"delete", f>>, <<"add", g, d>>>>
            BY <2>3 DEF SetCalls
        <3> QED BY <2>3, <3>1, Joins DEF Has
    <2> QED BY <2>1, <2>2, <2>3
<1>5. aim \in SUBSET (Feeds \X Data)
    BY <1>1
<1> HIDE DEF F, aim, cs
<1>6. Queried(cs, F, db)
    BY <1>1, <1>4 DEF Queried
<1>7. cs \in Seq(CallsOf(F))
    <2>1. /\ <<"update", f, g, d>> \in CallsOf(F) /\ <<"insert", g, d>> \in CallsOf(F)
          /\ <<"delete", f>> \in CallsOf(F) /\ <<"add", g, d>> \in CallsOf(F)
          /\ <<"set", g, d>> \in CallsOf(F)
        BY <1>1, IsCall
    <2>2. CASE cs = <<<<"insert", g, d>>, <<"set", g, d>>>>
        BY <2>1, <2>2
    <2>3. CASE cs = <<<<"update", f, g, d>>, <<"set", g, d>>>>
        BY <2>1, <2>3
    <2>4. CASE cs = <<<<"update", f, g, d>>, <<"delete", f>>, <<"add", g, d>>>>
        BY <2>1, <2>4
    <2> QED BY <1>4, <2>2, <2>3, <2>4
<1>8. (\A h \in F : Coh(h, db, memc)) => Moving("set", cs, F, db, memc)
    BY <1>6, BeginsMoving
<1> QED BY <1>1, <1>2, <1>3, <1>5, <1>7, <1>8, TakeKeeps

LEMMA DelPKeeps ==
    ASSUME IInv, NEW w \in Workers, NEW f \in Passive, DelP(w, f)
    PROVE  IInv'
<1> DEFINE F == {f}
           cs == <<<<"remove", {f}>>, <<"delete", f>>>>
<1>1. F \subseteq Feeds /\ F \subseteq Passive /\ f \in F /\ f \in Feeds
    BY DEF Feeds
<1>2. "del_p" \in Requests /\ "del_p" \notin Reads /\ "ok" \in Answers
    BY DEF Requests, Reads, Answers
<1>3. Take(w, "del_p", F, cs, {}, "ok")
    BY DEF DelP
<1>4. Queried(cs, F, db)
    BY <1>1, StoreAssumption DEF Queried
<1>5. {} \in SUBSET (Feeds \X Data)
    OBVIOUS
<1>6. {f} \in SUBSET F
    OBVIOUS
<1> HIDE DEF F
<1>7. cs \in Seq(CallsOf(F))
    <2>1. <<"remove", {f}>> \in CallsOf(F) /\ <<"delete", f>> \in CallsOf(F)
        BY <1>1, <1>6, IsCall
    <2> QED BY <2>1
<1> HIDE DEF cs
<1>8. (\A h \in F : Coh(h, db, memc)) => Moving("del_p", cs, F, db, memc)
    BY <1>4, BeginsMoving
<1> QED BY <1>1, <1>2, <1>3, <1>5, <1>7, <1>8, TakeKeeps

LEMMA Halves ==
    ASSUME NEW n \in Nat, NEW k \in 1 .. 2 * n
    PROVE  /\ (k + 1) \div 2 \in 1 .. n /\ k % 2 \in {0, 1}
           /\ k % 2 = 0 => /\ k - 1 \in 1 .. 2 * n /\ (k - 1) % 2 = 1
                           /\ ((k - 1) + 1) \div 2 = (k + 1) \div 2
OBVIOUS

LEMMA DelCallsAre ==
    ASSUME NEW F, NEW order \in Seq(F), NEW D, NEW M, \A f \in F : Coh(f, D, M)
    PROVE  DelCalls(order) \in Seq(CallsOf(F)) /\ Removes(DelCalls(order), F, D, M)
<1> DEFINE n == Len(order)
           c(k) == LET f == order[(k + 1) \div 2]
                   IN IF k % 2 = 1 THEN <<"delete", f>> ELSE <<"remove", {f}>>
           cs == DelCalls(order)
<1>1. n \in Nat /\ DOMAIN order = 1 .. n
    OBVIOUS
<1>2. cs = [k \in 1 .. 2 * n |-> c(k)]
    BY DEF DelCalls
<1> HIDE DEF n, cs
<1>3. \A k \in 1 .. 2 * n : order[(k + 1) \div 2] \in F
    BY <1>1, Halves
<1>4. ASSUME NEW k \in 1 .. 2 * n
      PROVE  /\ cs[k] = c(k) /\ c(k) \in CallsOf(F)
             /\ \/ k % 2 = 1 /\ c(k) = <<"delete", order[(k + 1) \div 2]>>
                \/ k % 2 = 0 /\ c(k) = <<"remove", {order[(k + 1) \div 2]}>>
    <2> DEFINE f == order[(k + 1) \div 2]
    <2>1. f \in F /\ {f} \in SUBSET F
        BY <1>3
    <2>2. k % 2 \in {0, 1}
        BY <1>1, Halves
    <2>3. c(k) = IF k % 2 = 1 THEN <<"delete", f>> ELSE <<"remove", {f}>>
        OBVIOUS
    <2>4. cs[k] = c(k)
        BY <1>2
    <2> HIDE DEF f, c
    <2>5. <<"delete", f>> \in CallsOf(F) /\ <<"remove", {f}>> \in CallsOf(F)
        BY <2>1, IsCall
    <2>6. c(k) \in CallsOf(F)
        BY <2>3, <2>5
    <2> QED BY <2>2, <2>3, <2>4, <2>6 DEF f
<1> HIDE DEF c
<1>5. cs \in Seq(CallsOf(F)) /\ DOMAIN cs = 1 .. 2 * n
    <2>1. 2 * n \in Nat /\ \A k \in 1 .. 2 * n : c(k) \in CallsOf(F)
        BY <1>1, <1>4
    <2> QED BY <1>2, <2>1
<1>6. \A k \in DOMAIN cs : cs[k][1] \in {"delete", "remove"}
    BY <1>4, <1>5
<1>7. ASSUME NEW k \in DOMAIN cs, cs[k][1] = "remove", NEW f \in cs[k][2]
      PROVE  \E j \in 1 .. k - 1 : cs[j] = <<"delete", f>>
    <2>1. k \in 1 .. 2 * n /\ k % 2 = 0 /\ f = order[(k + 1) \div 2]
        BY <1>4, <1>5, <1>7
    <2> DEFINE j == k - 1
    <2>2. j \in 1 .. 2 * n /\ j % 2 = 1 /\ (j + 1) \div 2 = (k + 1) \div 2 /\ j \in 1 .. k - 1
        <3>1. j \in 1 .. 2 * n /\ j % 2 = 1 /\ (j + 1) \div 2 = (k + 1) \div 2
            BY <1>1, <2>1, Halves
        <3>2. k \in Nat
            BY <1>1, <2>1
        <3>3. j \in 1 .. k - 1
            BY <3>1, <3>2
        <3> QED BY <3>1, <3>3
    <2> HIDE DEF j
    <2>3. cs[j] = <<"delete", f>>
        BY <1>4, <2>1, <2>2
    <2> QED BY <2>2, <2>3
<1>8. Removes(cs, F, D, M)
    BY <1>6, <1>7 DEF Removes
<1> QED BY <1>5, <1>8 DEF cs

LEMMA DelKeeps ==
    ASSUME IInv, NEW w \in Workers, NEW F \in SUBSET Active, Del(w, F)
    PROVE  IInv'
<1> DEFINE order == SetToSeq(F)
           cs == DelCalls(order)
<1>1. F \subseteq Feeds
    BY DEF Feeds
<1>2. "del" \in Requests /\ "del" \notin Reads /\ "ok" \in Answers
    BY DEF Requests, Reads, Answers
<1>3. Take(w, "del", F, cs, {}, "ok")
    BY DEF Del
<1>4. {} \in SUBSET (Feeds \X Data)
    OBVIOUS
<1>5. order \in Seq(F)
    BY <1>1, StoreAssumption, FS_Subset, OrderIs
<1> HIDE DEF order
<1>6. cs \in Seq(CallsOf(F))
    <2>1. \A f \in F : Coh(f, [g \in F |-> {}], [g \in F |-> NoFeed])
        BY DEF Coh
    <2> QED BY <1>5, <2>1, DelCallsAre
<1>7. (\A f \in F : Coh(f, db, memc)) => Moving("del", cs, F, db, memc)
    BY <1>5, DelCallsAre DEF Moving, Right
<1> HIDE DEF cs
<1> QED BY <1>1, <1>2, <1>3, <1>4, <1>6, <1>7, TakeKeeps

LEMMA Del2Keeps ==
    ASSUME IInv, NEW w \in Workers, Del2(w)
    PROVE  IInv'
<1> DEFINE there == {f \in Active : Has(f)}
           order == SetToSeq(there)
           first == Deletes(there)
           all == <<"remove", Active>>
           cs == IF there = {} THEN <<>> ELSE Append(first, all)
<1>1. Active \in SUBSET Feeds /\ Active \subseteq Active
    BY DEF Feeds
<1>2. "del2" \in Requests /\ "del2" \notin Reads /\ "ok" \in Answers
    BY DEF Requests, Reads, Answers
<1>3. Take(w, "del2", Active, cs, {}, "ok")
    BY DEF Del2
<1>4. {} \in SUBSET (Feeds \X Data)
    OBVIOUS
<1>5. /\ order \in Seq(there) /\ Len(order) \in Nat /\ DOMAIN order = 1 .. Len(order)
      /\ \A f \in there : \E i \in DOMAIN order : order[i] = f
    <2>1. IsFiniteSet(there)
        BY <1>1, StoreAssumption, FS_Subset
    <2> HIDE DEF there
    <2> QED BY <2>1, OrderIs
<1>6. first = [i \in DOMAIN order |-> <<"delete", order[i]>>]
    BY DEF Deletes
<1>7. there \subseteq Active /\ \A f \in Active : f \notin there => db[f] = {}
    BY DEF Has
<1> HIDE DEF there, order
<1>8. \A i \in DOMAIN order : <<"delete", order[i]>> \in CallsOf(Active)
    <2>1. \A i \in DOMAIN order : order[i] \in Active
        BY <1>5, <1>7
    <2> QED BY <2>1, IsCall
<1>9. first \in Seq(CallsOf(Active)) /\ Len(first) = Len(order)
      /\ DOMAIN first = 1 .. Len(order)
    BY <1>5, <1>6, <1>8
<1>10. \A i \in 1 .. Len(order) : first[i] = <<"delete", order[i]>>
    BY <1>5, <1>6
<1>11. all \in CallsOf(Active)
    BY IsCall
<1> HIDE DEF first
<1> DEFINE ds == Append(first, all)
           n == Len(order)
<1>12. /\ ds \in Seq(CallsOf(Active)) /\ DOMAIN ds = 1 .. n + 1 /\ ds[n + 1] = all
       /\ \A i \in 1 .. n : ds[i] = <<"delete", order[i]>>
    <2>1. /\ ds \in Seq(CallsOf(Active)) /\ Len(ds) = n + 1 /\ ds[n + 1] = all
          /\ \A i \in 1 .. n : ds[i] = first[i]
        BY <1>9, <1>11, AppendProperties
    <2> QED BY <1>5, <1>10, <2>1, LenProperties
<1> HIDE DEF ds
<1>13. cs \in Seq(CallsOf(Active))
    <2>1. <<>> \in Seq(CallsOf(Active))
        OBVIOUS
    <2> QED BY <1>12, <2>1 DEF ds
<1>14. ASSUME \A f \in Active : Coh(f, db, memc) PROVE Removes(ds, Active, db, memc)
    <2>1. n \in Nat
        BY <1>5
    <2> HIDE DEF n
    <2>2. \A i \in DOMAIN ds : (i \in 1 .. n /\ ds[i] = <<"delete", order[i]>>)
                               \/ (i = n + 1 /\ ds[i] = all)
        BY <1>12, <2>1
    <2>3. \A i \in DOMAIN ds : ds[i][1] \in {"delete", "remove"}
        BY <2>2
    <2>4. ASSUME NEW i \in DOMAIN ds, ds[i][1] = "remove", NEW f \in ds[i][2]
          PROVE  memc[f] = NoFeed \/ \E j \in 1 .. i - 1 : ds[j] = <<"delete", f>>
        <3>1. i = n + 1 /\ f \in Active
            BY <2>2, <2>4
        <3>2. CASE f \in there
            <4>1. PICK j \in 1 .. n : order[j] = f
                BY <1>5, <3>2 DEF n
            <4>2. j \in 1 .. i - 1 /\ ds[j] = <<"delete", f>>
                BY <1>12, <2>1, <3>1, <4>1
            <4> QED BY <4>2
        <3>3. CASE f \notin there
            BY <1>7, <1>14, <3>1, <3>3 DEF Coh
        <3> QED BY <3>2, <3>3
    <2> QED BY <1>14, <2>3, <2>4 DEF Removes
<1>15. cs # <<>> /\ (\A f \in Active : Coh(f, db, memc)) => Moving("del2", cs, Active, db, memc)
    <2>1. cs # <<>> => cs = ds
        BY DEF ds
    <2> HIDE DEF cs
    <2> QED BY <1>14, <2>1 DEF Moving, Right
<1> HIDE DEF cs
<1> QED BY <1>1, <1>2, <1>3, <1>4, <1>13, <1>15, TakeKeeps

LEMMA ReadTaken ==
    ASSUME IInv, NEW w \in Workers, NEW request \in Reads, NEW F \in SUBSET Feeds,
           F \subseteq Active \/ F \subseteq Passive, NEW cs \in Seq(CallsOf(F)),
           Take(w, request, F, cs, {}, "ok"),
           \A i \in DOMAIN cs : Stores(cs[i], db, torn)
    PROVE  IInv'
<1>1. request \in Requests /\ "ok" \in Answers /\ {} \in SUBSET (Feeds \X Data)
    BY DEF Requests, Answers
<1> QED BY <1>1, TakeKeeps

LEMMA GetKeeps ==
    ASSUME IInv, NEW w \in Workers, NEW request \in Reads, NEW F,
           F \subseteq Active \/ F \subseteq Passive, Get(w, request, F)
    PROVE  IInv'
<1> DEFINE missed == Missed(F)
           order == SetToSeq(missed)
           cs == Fetches(missed)
<1>1. F \in SUBSET Feeds /\ missed \in SUBSET F
    BY DEF Feeds, Missed
<1>2. Take(w, request, F, cs, {}, "ok") /\ cs = [i \in DOMAIN order |-> <<"fetch", order[i]>>]
    BY DEF Get, Fetches
<1> HIDE DEF missed, cs
<1>3. order \in Seq(missed) /\ Len(order) \in Nat /\ DOMAIN order = 1 .. Len(order)
    <2>1. IsFiniteSet(missed)
        BY <1>1, StoreAssumption, FS_Subset
    <2> QED BY <2>1, OrderIs
<1> HIDE DEF order
<1>4. \A i \in DOMAIN order : order[i] \in F
    BY <1>1, <1>3
<1>5. \A i \in DOMAIN order : <<"fetch", order[i]>> \in CallsOf(F)
    BY <1>4, IsCall
<1>6. cs \in Seq(CallsOf(F)) /\ DOMAIN cs = DOMAIN order
    BY <1>2, <1>3, <1>5
<1>7. \A i \in DOMAIN cs : Stores(cs[i], db, torn)
    BY <1>2, <1>6 DEF Stores
<1> QED BY <1>1, <1>2, <1>6, <1>7, ReadTaken

LEMMA Get2Keeps ==
    ASSUME IInv, NEW w \in Workers, Get2(w)
    PROVE  IInv'
<1>1. Active \in SUBSET Feeds /\ Active \in SUBSET Active /\ "get2" \in Reads
    BY DEF Feeds, Reads
<1>2. db \in Tables
    BY DEF IInv, Typed
<1>3. PICK rows \in [{f \in Active : Has(f)} -> Data] :
          /\ \A f \in DOMAIN rows : rows[f] \in db[f]
          /\ Take(w, "get2", Active, Sets(rows), {}, "ok")
    BY DEF Get2
<1>4. DOMAIN rows \subseteq Active
    OBVIOUS
<1> DEFINE cs == Sets(rows)
<1>5. cs \in Seq(CallsOf(Active)) /\ \A i \in DOMAIN cs : Stores(cs[i], db, torn)
    BY <1>1, <1>2, <1>3, <1>4, SetsAre
<1>6. Take(w, "get2", Active, cs, {}, "ok")
    BY <1>3
<1> HIDE DEF cs
<1> QED BY <1>1, <1>5, <1>6, ReadTaken

-----------------------------------------------------------------------------
(* The specification.                                                      *)

LEMMA InitKeeps ==
    ASSUME Init
    PROVE  IInv
<1>1. (CHOOSE d \in Data : TRUE) \in Data
    BY StoreAssumption
<1>2. db \in Tables /\ memc \in Entries /\ \A f \in Feeds : Coh(f, db, memc)
    BY <1>1 DEF Init, Tables, Entries, Coh
<1>3. worker = [w \in Workers |-> Idle] /\ torn = {} /\ Counts
    BY StoreAssumption DEF Init, Counts, Feeds
<1>4. Becomes(Idle, Idle, <<>>)
    <2>1. "none" \in Answers /\ "none" \in Requests /\ {} \in SUBSET Feeds
          /\ {} \in SUBSET (Feeds \X Data)
        BY DEF Answers, Requests
    <2>2. Idle.calls = <<>> /\ Idle.feeds = {} /\ Idle.request = "none" /\ Idle.aim = {}
          /\ Idle.answer = "none"
        BY DEF Idle
    <2>3. <<>> \in Seq(CallsOf(Idle.feeds))
        OBVIOUS
    <2>4. Fits(Idle)
        BY <2>1, <2>2, <2>3 DEF Fits, Idle
    <2> QED BY <2>2, <2>4 DEF Becomes
<1>5. Fits(Idle) /\ Idle.calls = <<>> /\ Idle.feeds = {} /\ Idle.request = "none"
    BY <1>4 DEF Becomes
<1>6. Fine(Idle, db, memc, torn)
    <2>1. Entire(Idle, torn) /\ Reading(Idle, db, torn)
        BY <1>5 DEF Entire, Reading, Reads
    <2>2. Moving("none", <<>>, {}, db, memc)
        BY EndsMoving
    <2> QED BY <1>5, <2>1, <2>2 DEF Fine, Changing
<1>7. \A w \in Workers : worker[w] = Idle
    BY <1>3
<1>8. Typed
    BY <1>2, <1>3, <1>5, <1>7 DEF Typed
<1>9. Apart
    BY <1>5, <1>7 DEF Apart, Meet
<1>10. Shows
    BY <1>2 DEF Shows, Coh
<1> QED BY <1>6, <1>7, <1>8, <1>9, <1>10 DEF IInv

LEMMA IdleKeeps ==
    ASSUME IInv, UNCHANGED vars
    PROVE  IInv'
BY DEF vars, IInv, Typed, Counts, Apart, Meet, Fine, Entire, Reading, Stores, Changing, Shows,
       Held, Coh, Feeds, Tables, Entries

LEMMA NextKeeps ==
    ASSUME IInv, [Next]_vars
    PROVE  IInv'
<1>1. CASE UNCHANGED vars
    BY <1>1, IdleKeeps
<1>2. ASSUME NEW w \in Workers, ActiveRequest(w) PROVE IInv'
    <2>1. ASSUME NEW f \in Active, NEW d \in Data, Insert(w, f, d) \/ Update(w, f, d)
          PROVE  IInv'
        <3>1. f \in Feeds
            BY DEF Feeds
        <3> QED BY <2>1, <3>1, InsertKeeps, UpdateKeeps
    <2>2. ASSUME NEW f \in Active, NEW g \in Active, NEW d \in Data,
                 Update2(w, f, g, d) \/ Set(w, f, g, d)
          PROVE  IInv'
        BY <2>2, Update2Keeps, SetKeeps
    <2>3. ASSUME NEW F \in SUBSET Active, Del(w, F) \/ Get(w, "get", F) \/ Get(w, "get_keys", F)
          PROVE  IInv'
        <3>1. {"get", "get_keys"} \subseteq Reads /\ F \subseteq Active
            BY DEF Reads
        <3> QED BY <2>3, <3>1, DelKeeps, GetKeeps
    <2>4. ASSUME Del2(w) \/ Get2(w) PROVE IInv'
        BY <2>4, Del2Keeps, Get2Keeps
    <2> QED BY <1>2, <2>1, <2>2, <2>3, <2>4 DEF ActiveRequest
<1>3. ASSUME NEW w \in Workers, PassiveRequest(w) PROVE IInv'
    <2>1. ASSUME NEW f \in Passive, NEW d \in Data, Insert(w, f, d) \/ UpdateP(w, f, d)
          PROVE  IInv'
        <3>1. f \in Feeds
            BY DEF Feeds
        <3> QED BY <2>1, <3>1, InsertKeeps, UpdateKeeps
    <2>2. ASSUME NEW f \in Passive, DelP(w, f) PROVE IInv'
        BY <2>2, DelPKeeps
    <2>3. ASSUME NEW F \in SUBSET Passive, Get(w, "get_p", F) PROVE IInv'
        <3>1. "get_p" \in Reads /\ F \subseteq Passive
            BY DEF Reads
        <3> QED BY <2>3, <3>1, GetKeeps
    <2> QED BY <1>3, <2>1, <2>2, <2>3 DEF PassiveRequest
<1>4. ASSUME NEW w \in Workers, GoesOn(w) PROVE IInv'
    BY <1>4, DbCallKeeps, FetchKeeps, McCallKeeps, McHitKeeps DEF GoesOn
<1>5. ASSUME NEW w \in Workers,
             McFails(w) \/ DbFails(w) \/ FetchFails(w) \/ Del2Blind(w) \/ Die(w)
      PROVE  IInv'
    BY <1>5, McFailsKeeps, DbFailsKeeps, FetchFailsKeeps, BlindKeeps, DieKeeps
<1>6. ASSUME NEW f \in Feeds, Forget(f) PROVE IInv'
    BY <1>6, ForgetKeeps
<1> QED BY <1>1, <1>2, <1>3, <1>4, <1>5, <1>6 DEF Next

LEMMA Always == Spec => []IInv
<1>1. Init => IInv
    BY InitKeeps
<1>2. IInv /\ [Next]_vars => IInv'
    BY NextKeeps
<1> QED BY <1>1, <1>2, PTL DEF Spec

(* Whatever the workers do and whatever fails, rows and entries hold data, *)
(* and what a request is on names feeds (the handlers of storage_serv.cpp  *)
(* and the calls they make).                                               *)
THEOREM TypesHold == Spec => []TypeOK
<1>1. ASSUME IInv PROVE TypeOK
    <2>1. /\ db \in [Feeds -> SUBSET Data] /\ memc \in [Feeds -> Data \cup {NoFeed}]
          /\ forever \subseteq Feeds /\ torn \subseteq Feeds
          /\ requests \in 0 .. MaxRequests /\ faults \in 0 .. MaxFaults
        BY <1>1 DEF IInv, Typed, Counts, Tables, Entries
    <2>2. ASSUME NEW w \in Workers
          PROVE  /\ worker[w].feeds \subseteq Feeds
                 /\ worker[w].aim \subseteq Feeds \X Data
                 /\ worker[w].answer \in {"none", "ok", "dup", "feedid", "error"}
        <3>1. Fits(worker[w])
            BY <1>1 DEF IInv, Typed
        <3> QED BY <3>1 DEF Fits, Answers
    <2> QED BY <2>1, <2>2 DEF TypeOK
<1> QED BY <1>1, Always, PTL

(* An entry of memcached that no request is on shows a row, unless a       *)
(* change of the feed overlapped another request of it or was cut short:   *)
(* the order in which insert, update, set, update2, del and del2 call      *)
(* MySQL and memcached leaves nothing stale behind.                        *)
THEOREM RowsAreShown == Spec => []Coherent
<1>1. ASSUME IInv PROVE Coherent
    <2>1. ASSUME NEW f \in Feeds \ torn, Quiet(f) PROVE memc[f] \in db[f] \cup {NoFeed}
        <3>1. ASSUME NEW w \in Workers PROVE f \notin worker[w].feeds
            <4>1. Fits(worker[w])
                BY <1>1 DEF IInv, Typed
            <4> QED BY <2>1, <4>1 DEF Quiet, Busy, Fits
        <3> QED BY <1>1, <2>1, <3>1 DEF IInv, Shows, Held, Coh
    <2> QED BY <2>1 DEF Coherent
<1> QED BY <1>1, Always, PTL

=============================================================================
