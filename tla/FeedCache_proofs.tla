--------------------------- MODULE FeedCache_proofs ---------------------------
(***************************************************************************)
(* Proofs about FeedCache for every number of work processes, connections, *)
(* feeds and faults.                                                       *)
(*                                                                         *)
(* The net process gives a task the first entry that is free, and only     *)
(* while fewer than NWorks tasks are registered: so the entries in use are *)
(* among the first NWorks, whose queues differ, however many more a        *)
(* restart has appended (Tasks).  While nothing fails, an accepted feed    *)
(* moves from the request queue by way of its work process into the cache  *)
(* queue, and each process that has ended has left nothing behind (Kept).  *)
(***************************************************************************)
EXTENDS FeedCache, SequenceTheorems, FiniteSetTheorems, WellFoundedInduction, TLAPS

-----------------------------------------------------------------------------
(* The inductive invariant.                                                *)

Processes ==
    /\ monitor \in Loop \cup {"stopnet", "stopwork", "down", "gone", "stuck"}
    /\ term \in BOOLEAN /\ chld \in BOOLEAN
    /\ net \in {"up", "drain", "done", "dead"}
    /\ work \in [Works -> {"up", "done", "dead"}]
    /\ slots \in Nat /\ slots >= NWorks

Tasks ==
    /\ conns \subseteq ConnIds /\ waiting \subseteq conns
    /\ DOMAIN task_map \subseteq conns /\ IsFiniteSet(DOMAIN task_map)
    /\ task_map \in [DOMAIN task_map -> 1 .. NWorks]
    /\ \A c, d \in DOMAIN task_map : task_map[c] = task_map[d] => c = d
    /\ used = Range(task_map)

Short(s, n) == Len(s) <= n

Queues ==
    /\ req \in [Works -> Seq(Requests)] /\ resp \in [Works -> Seq(Answers)]
    /\ busy \in [Works -> Seq(Requests)] /\ cache \in [Works -> Seq(Feeds)]
    /\ \A w \in Works :
         Short(req[w], QueueCap) /\ Short(resp[w], QueueCap) /\ Short(busy[w], 1)

Buffers ==
    /\ out \in [ConnIds -> Seq(Answers)]
    /\ delivered \in Seq(Feeds)
    /\ accepted \cup asked \cup dropped \subseteq Feeds
    /\ sent \in Nat /\ faults \in Nat

(* A feed before it is asked for: in the request queue, popped, or cached. *)
At(f, w) ==
    So(f) \in Range(req[w]) \cup Range(busy[w]) \/ f \in Range(cache[w])

Ended == net \in {"done", "dead"}

Kept ==
    faults = 0 =>
        /\ \A f \in accepted \ asked : \E w \in Works : At(f, w)
        /\ \A w \in Works : work[w] # "dead" /\ (work[w] = "done" => busy[w] = <<>>)
        /\ net # "up" => monitor \notin Loop
        /\ Ended => \A w \in Works : req[w] = <<>>
        /\ monitor \in {"stopwork", "down"} => Ended
        /\ monitor = "down" => \A w \in Works : work[w] # "up"

IInv == Processes /\ Tasks /\ Queues /\ Buffers /\ Kept

-----------------------------------------------------------------------------
(* Lemmas about sequences and numbers.                                     *)

LEMMA AppendRange ==
    ASSUME NEW S, NEW s \in Seq(S), NEW x \in S
    PROVE  /\ Append(s, x) \in Seq(S) /\ Len(s) \in Nat
           /\ Len(Append(s, x)) = Len(s) + 1
           /\ Range(Append(s, x)) = Range(s) \cup {x}
<1> DEFINE t == Append(s, x)
<1>1. /\ t \in Seq(S) /\ Len(s) \in Nat /\ Len(t) = Len(s) + 1
      /\ DOMAIN s = 1 .. Len(s) /\ DOMAIN t = 1 .. Len(t)
      /\ \A i \in 1 .. Len(s) : t[i] = s[i]
      /\ t[Len(s) + 1] = x
    BY AppendProperties, LenProperties
<1> HIDE DEF t
<1>2. \A i \in 1 .. Len(t) : i \in 1 .. Len(s) \/ i = Len(s) + 1
    BY <1>1
<1>3. 1 .. Len(s) \subseteq 1 .. Len(t) /\ Len(s) + 1 \in 1 .. Len(t)
    BY <1>1
<1>4. Range(t) \subseteq Range(s) \cup {x}
    BY <1>1, <1>2 DEF Range
<1>5. Range(s) \cup {x} \subseteq Range(t)
    BY <1>1, <1>3 DEF Range
<1> QED BY <1>1, <1>4, <1>5 DEF t

LEMMA TailRange ==
    ASSUME NEW S, NEW s \in Seq(S), s # <<>>
    PROVE  /\ Tail(s) \in Seq(S) /\ Len(s) \in Nat /\ Len(s) >= 1
           /\ Len(Tail(s)) = Len(s) - 1
           /\ Head(s) \in S
           /\ Range(s) = Range(Tail(s)) \cup {Head(s)}
<1> DEFINE t == Tail(s)
<1>1. /\ t \in Seq(S) /\ Len(s) \in Nat /\ Len(s) >= 1 /\ Len(t) = Len(s) - 1
      /\ DOMAIN s = 1 .. Len(s) /\ DOMAIN t = 1 .. Len(t)
      /\ \A i \in 1 .. Len(t) : t[i] = s[i + 1]
      /\ Head(s) = s[1] /\ s[1] \in S
    BY HeadTailProperties, EmptySeq, LenProperties, ElementOfSeq
<1> HIDE DEF t
<1>2. \A i \in 1 .. Len(s) : i = 1 \/ (i - 1 \in 1 .. Len(t) /\ (i - 1) + 1 = i)
    BY <1>1
<1>3. 1 \in 1 .. Len(s) /\ \A i \in 1 .. Len(t) : i + 1 \in 1 .. Len(s)
    BY <1>1
<1>4. Range(s) \subseteq Range(t) \cup {Head(s)}
    <2> SUFFICES ASSUME NEW i \in 1 .. Len(s) PROVE s[i] \in Range(t) \cup {s[1]}
        BY <1>1 DEF Range
    <2>1. CASE i = 1
        BY <2>1
    <2>2. CASE i - 1 \in 1 .. Len(t) /\ (i - 1) + 1 = i
        BY <1>1, <2>2 DEF Range
    <2> QED BY <1>2, <2>1, <2>2
<1>5. Range(t) \cup {Head(s)} \subseteq Range(s)
    BY <1>1, <1>3 DEF Range
<1> QED BY <1>1, <1>4, <1>5 DEF t

LEMMA EmptyRange == Range(<<>>) = {}
BY EmptySeq DEF Range

LEMMA RangeWithin ==
    ASSUME NEW S, NEW s \in Seq(S)
    PROVE  Range(s) \subseteq S
BY LenProperties, ElementOfSeq DEF Range

LEMMA OneElement ==
    ASSUME NEW S, NEW x \in S
    PROVE  /\ <<x>> \in Seq(S) /\ Len(<<x>>) = 1 /\ <<x>> # <<>>
           /\ Range(<<x>>) = {x} /\ <<x>>[1] = x
<1>1. /\ <<x>> \in Seq(S) /\ Len(<<x>>) = 1 /\ <<x>>[1] = x
    OBVIOUS
<1>2. <<x>> # <<>>
    BY <1>1, EmptySeq
<1>3. Range(<<x>>) = {x}
    <2> DEFINE s == <<x>>
    <2>1. DOMAIN s = 1 .. 1 /\ s[1] = x
        BY <1>1, LenProperties
    <2>2. \A i \in 1 .. 1 : i = 1
        OBVIOUS
    <2> HIDE DEF s
    <2>3. Range(s) = {x}
        BY <2>1, <2>2 DEF Range
    <2> QED BY <2>3 DEF s
<1> QED BY <1>1, <1>2, <1>3

(* A sequence with at most one element is that element.                    *)
LEMMA OnlyElement ==
    ASSUME NEW S, NEW s \in Seq(S), s # <<>>, Len(s) <= 1
    PROVE  s[1] \in S /\ Range(s) = {s[1]}
<1>1. Len(s) \in Nat /\ Len(s) # 0 /\ DOMAIN s = 1 .. Len(s)
    BY EmptySeq, LenProperties
<1>2. DOMAIN s = 1 .. 1 /\ 1 \in 1 .. Len(s) /\ \A i \in 1 .. 1 : i = 1
    BY <1>1
<1> QED BY <1>2, ElementOfSeq DEF Range

LEMMA WhatRemains ==
    ASSUME NEW S, NEW s \in Seq(S), NEW t \in Remains(s)
    PROVE  t \in Seq(S)
<1>1. PICK p \in UNION {[1 .. n -> DOMAIN s] : n \in 0 .. Len(s)} :
        t = [i \in DOMAIN p |-> s[p[i]]]
    BY DEF Remains
<1>2. PICK n \in 0 .. Len(s) : p \in [1 .. n -> DOMAIN s]
    BY <1>1
<1>3. n \in Nat /\ DOMAIN s = 1 .. Len(s)
    BY LenProperties
<1>4. t \in [1 .. n -> S]
    BY <1>1, <1>2, <1>3, ElementOfSeq
<1> QED BY <1>3, <1>4, SeqDef

LEMMA Least ==
    ASSUME NEW S, S \subseteq Nat, S # {}
    PROVE  Min(S) \in S /\ \A y \in S : Min(S) <= y
<1> DEFINE R == OpToRel(<, Nat)
<1>1. PICK x \in S : \A y \in S : ~(<<y, x>> \in R)
    <2>1. IsWellFoundedOn(R, Nat)
        BY NatLessThanWellFounded
    <2> HIDE DEF R
    <2> QED BY <2>1, WFMin
<1>2. \A y \in S : ~(y < x)
    BY <1>1 DEF OpToRel
<1>3. \A y \in S : x <= y
    BY <1>2
<1> QED BY <1>3 DEF Min

-----------------------------------------------------------------------------
(* What connections and tasks may do: the part Tasks of the invariant.     *)

LEMMA SameTasks ==
    ASSUME Tasks, UNCHANGED <<conns, waiting, used, task_map>>
    PROVE  Tasks'
BY DEF Tasks

LEMMA AsksTasks ==
    ASSUME Tasks, NEW c \in conns, KeepConns, waiting' = waiting \cup {c}
    PROVE  Tasks'
BY DEF Tasks, KeepConns

LEMMA ToldTasks ==
    ASSUME Tasks, NEW c, UNCHANGED <<conns, used, task_map>>, waiting' = waiting \ {c}
    PROVE  Tasks'
BY DEF Tasks

LEMMA ForgetTasks ==
    ASSUME Tasks, NEW c, Forget(c)
    PROVE  Tasks'
<1> DEFINE D == DOMAIN task_map
           m == Restrict(task_map, D \ {c})
<1>1. DOMAIN m = D \ {c} /\ \A d \in D \ {c} : m[d] = task_map[d]
    BY DEF Restrict
<1>2. /\ task_map' = m /\ conns' = conns \ {c} /\ waiting' = waiting \ {c}
      /\ used' = IF c \in D THEN used \ {task_map[c]} ELSE used
    BY DEF Forget, FreedBy, Registered
<1>3. /\ conns \subseteq ConnIds /\ waiting \subseteq conns /\ D \subseteq conns
      /\ IsFiniteSet(D) /\ task_map \in [D -> 1 .. NWorks]
      /\ \A d, e \in D : task_map[d] = task_map[e] => d = e
      /\ used = {task_map[d] : d \in D}
    BY DEF Tasks, Range
<1>4. m = [d \in D \ {c} |-> task_map[d]]
    BY DEF Restrict
<1>5. IsFiniteSet(D \ {c})
    BY <1>3, FS_RemoveElement
<1>6. m \in [D \ {c} -> 1 .. NWorks]
    BY <1>3, <1>4
<1> HIDE DEF D, m
<1>7. used' = {m[d] : d \in D \ {c}}
    <2>1. CASE c \in D
        <3>1. \A d \in D \ {c} : task_map[d] # task_map[c]
            BY <1>3, <2>1
        <3> QED BY <1>1, <1>2, <1>3, <2>1, <3>1
    <2>2. CASE c \notin D
        BY <1>1, <1>2, <1>3, <2>2
    <2> QED BY <2>1, <2>2
<1>8. used' = Range(m)
    BY <1>1, <1>7 DEF Range
<1>9. DOMAIN m \subseteq conns' /\ conns' \subseteq ConnIds /\ waiting' \subseteq conns'
    BY <1>1, <1>2, <1>3
<1>10. \A d, e \in DOMAIN m : m[d] = m[e] => d = e
    BY <1>1, <1>3
<1> QED BY <1>1, <1>2, <1>5, <1>6, <1>8, <1>9, <1>10 DEF Tasks

(* While fewer than NWorks tasks are registered, one of the first NWorks   *)
(* entries is free.                                                        *)
LEMMA LowEntryFree ==
    ASSUME Tasks, slots \in Nat, slots >= NWorks, Cardinality(DOMAIN task_map) # NWorks,
           FreeSlots # {}
    PROVE  Min(FreeSlots) \in 1 .. NWorks /\ Min(FreeSlots) \notin used
<1> DEFINE D == DOMAIN task_map
<1>1. NWorks \in Nat \ {0}
    BY FeedCacheAssumption
<1>2. /\ IsFiniteSet(D) /\ task_map \in [D -> 1 .. NWorks]
      /\ used = {task_map[d] : d \in D}
    BY DEF Tasks, Range
<1>3. PICK s \in 1 .. NWorks : s \notin used
    <2> SUFFICES ASSUME 1 .. NWorks \subseteq used PROVE FALSE
        OBVIOUS
    <2>1. used = 1 .. NWorks
        BY <1>2
    <2>2. task_map \in Surjection(D, 1 .. NWorks)
        BY <1>2, <2>1 DEF Surjection
    <2>3. IsInjective(task_map)
        BY DEF Tasks, IsInjective
    <2>4. task_map \in Injection(D, 1 .. NWorks)
        BY <1>2, <2>3 DEF Injection
    <2>5. Cardinality(1 .. NWorks) = Cardinality(D)
        BY <1>2, <2>2, <2>4, FS_Surjection
    <2>6. Cardinality(1 .. NWorks) = NWorks
        BY <1>1, FS_Interval
    <2> QED BY <2>5, <2>6
<1>4. s \in FreeSlots
    BY <1>1, <1>3 DEF FreeSlots
<1>5. FreeSlots \subseteq Nat
    BY DEF FreeSlots
<1>6. Min(FreeSlots) \in FreeSlots /\ Min(FreeSlots) <= s
    BY <1>4, <1>5, Least
<1>7. Min(FreeSlots) \in Nat /\ Min(FreeSlots) >= 1 /\ Min(FreeSlots) \notin used
    BY <1>6 DEF FreeSlots
<1> QED BY <1>1, <1>3, <1>6, <1>7

LEMMA RegisterTasks ==
    ASSUME Tasks, NEW c \in conns, NEW s \in 1 .. NWorks, s \notin used, ~ Registered(c),
           task_map' = [d \in DOMAIN task_map \cup {c} |-> IF d = c THEN s ELSE task_map[d]],
           used' = used \cup {s}, UNCHANGED <<conns, waiting>>
    PROVE  Tasks'
<1> DEFINE D == DOMAIN task_map
           m == task_map'
<1>1. /\ IsFiniteSet(D) /\ task_map \in [D -> 1 .. NWorks]
      /\ \A d, e \in D : task_map[d] = task_map[e] => d = e
      /\ used = {task_map[d] : d \in D} /\ c \notin D
    BY DEF Tasks, Range, Registered
<1>2. /\ DOMAIN m = D \cup {c} /\ m[c] = s
      /\ \A d \in D : m[d] = task_map[d]
    BY <1>1
<1>3. m \in [D \cup {c} -> 1 .. NWorks]
    BY <1>1
<1>4. IsFiniteSet(D \cup {c})
    BY <1>1, FS_AddElement
<1>5. DOMAIN m \subseteq conns' /\ conns' \subseteq ConnIds /\ waiting' \subseteq conns'
    BY <1>2 DEF Tasks
<1> HIDE DEF D, m
<1>6. \A d \in D : m[d] # s
    BY <1>1, <1>2
<1>7. \A d, e \in D \cup {c} : m[d] = m[e] => d = e
    BY <1>1, <1>2, <1>6
<1>8. used' = Range(m)
    BY <1>1, <1>2 DEF Range
<1> QED BY <1>2, <1>3, <1>4, <1>5, <1>7, <1>8 DEF Tasks, m

LEMMA NoTasks ==
    ASSUME conns' = {}, waiting' = {}, used' = {}, task_map' = <<>>
    PROVE  Tasks'
<1>1. DOMAIN task_map' = {} /\ IsFiniteSet({})
    BY EmptySeq, FS_EmptySet
<1>2. Range(task_map') = {}
    BY <1>1 DEF Range
<1>3. task_map' \in [{} -> 1 .. NWorks]
    <2>1. task_map' = [d \in {} |-> task_map'[d]]
        BY <1>1
    <2> QED BY <1>1, <2>1
<1> QED BY <1>1, <1>2, <1>3 DEF Tasks

-----------------------------------------------------------------------------
(* What a step does to the queues and to the feeds that are under way.     *)

LEMMA Indices ==
    /\ \A s \in 1 .. NWorks : QueueOf(s) = s - 1 /\ QueueOf(s) \in Works
    /\ \A f \in Nat : Owner(f) \in Works
<1>1. NWorks \in Nat \ {0}
    BY FeedCacheAssumption
<1>2. \A s \in 1 .. NWorks : (s - 1) % NWorks = s - 1
    BY <1>1
<1>3. \A f \in Nat : f % NWorks \in 0 .. NWorks - 1
    BY <1>1
<1> QED BY <1>1, <1>2, <1>3 DEF QueueOf, Owner, UserOf, Works

LEMMA SameQueues ==
    ASSUME Queues, UNCHANGED queues
    PROVE  Queues'
BY DEF Queues, queues

LEMMA SameKept ==
    ASSUME Kept, UNCHANGED <<monitor, net, work, req, busy, cache, accepted, asked, faults>>
    PROVE  Kept'
BY DEF Kept, At, Ended

LEMMA FaultKept ==
    ASSUME faults \in Nat, faults' = faults + 1
    PROVE  Kept'
BY DEF Kept

LEMMA Enqueued ==
    ASSUME Queues, NEW w \in Works, NEW r \in Requests, Len(req[w]) < QueueCap,
           req' = [req EXCEPT ![w] = Append(@, r)], UNCHANGED <<resp, busy, cache>>
    PROVE  /\ Queues'
           /\ \A v \in Works : Range(req[v]) \subseteq Range(req'[v])
           /\ r \in Range(req'[w])
<1>1. req \in [Works -> Seq(Requests)] /\ req[w] \in Seq(Requests)
    BY DEF Queues
<1> DEFINE s == Append(req[w], r)
<1>2. /\ s \in Seq(Requests) /\ Len(s) = Len(req[w]) + 1 /\ Len(req[w]) \in Nat
      /\ Range(s) = Range(req[w]) \cup {r}
    BY <1>1, AppendRange
<1>3. req' = [req EXCEPT ![w] = s]
    OBVIOUS
<1> HIDE DEF s
<1>4. Len(s) <= QueueCap
    BY <1>2, FeedCacheAssumption
<1>5. req' \in [Works -> Seq(Requests)]
    BY <1>1, <1>2, <1>3
<1>6. \A v \in Works : req'[v] = IF v = w THEN s ELSE req[v]
    BY <1>1, <1>3
<1>7. Queues'
    BY <1>4, <1>5, <1>6 DEF Queues, Short
<1>8. \A v \in Works : Range(req[v]) \subseteq Range(req'[v])
    BY <1>2, <1>6
<1>9. r \in Range(req'[w])
    BY <1>2, <1>6
<1> QED BY <1>7, <1>8, <1>9

LEMMA EnqueuedKept ==
    ASSUME Kept, net = "up", UNCHANGED <<monitor, net, work, busy, cache, asked, faults>>,
           \A v \in Works : Range(req[v]) \subseteq Range(req'[v]),
           \A f \in accepted' \ accepted : \E w \in Works : So(f) \in Range(req'[w])
    PROVE  Kept'
<1> SUFFICES ASSUME faults = 0 PROVE Kept'
    BY DEF Kept
<1>1. \A f \in accepted \ asked : \E w \in Works : At(f, w)
    BY DEF Kept
<1>2. \A f, w : w \in Works /\ At(f, w) => At(f, w)'
    BY DEF At
<1>3. \A f \in accepted' \ asked' : \E w \in Works : At(f, w)'
    <2> SUFFICES ASSUME NEW f \in accepted' \ asked PROVE \E w \in Works : At(f, w)'
        OBVIOUS
    <2>1. CASE f \in accepted
        BY <1>1, <1>2, <2>1
    <2>2. CASE f \notin accepted
        <3>1. PICK w \in Works : So(f) \in Range(req'[w])
            BY <2>2
        <3> QED BY <3>1 DEF At
    <2> QED BY <2>1, <2>2
<1>4. ~ Ended' /\ net' = "up"
    BY DEF Ended
<1>5. /\ \A w \in Works : work'[w] # "dead" /\ (work'[w] = "done" => busy'[w] = <<>>)
      /\ monitor' \notin {"stopwork", "down"}
    BY DEF Kept, Ended
<1> QED BY <1>3, <1>4, <1>5 DEF Kept

-----------------------------------------------------------------------------
(* The invariant holds initially and is kept by the net process.           *)

LEMMA InitHolds == Init => IInv
<1> SUFFICES ASSUME Init PROVE IInv
    OBVIOUS
<1>1. Processes
    <2>1. monitor \in Loop /\ term \in BOOLEAN /\ chld \in BOOLEAN
        BY DEF Init, Loop
    <2>2. /\ net \in {"up", "drain", "done", "dead"}
          /\ work \in [Works -> {"up", "done", "dead"}]
          /\ slots \in Nat /\ slots >= NWorks
        BY FeedCacheAssumption DEF Init
    <2> QED BY <2>1, <2>2 DEF Processes
<1>2. Tasks
    <2>1. DOMAIN task_map = {} /\ IsFiniteSet({})
        BY EmptySeq, FS_EmptySet DEF Init
    <2>2. Range(task_map) = {}
        BY <2>1 DEF Range
    <2>3. task_map \in [{} -> 1 .. NWorks]
        <3>1. task_map = [d \in {} |-> task_map[d]]
            BY <2>1 DEF Init
        <3> QED BY <2>1, <3>1
    <2> QED BY <2>1, <2>2, <2>3 DEF Init, Tasks
<1>3. Queues
    <2>1. <<>> \in Seq(Requests) /\ <<>> \in Seq(Answers) /\ <<>> \in Seq(Feeds)
        BY EmptySeq
    <2>2. Len(<<>>) = 0 /\ 0 <= QueueCap
        BY EmptySeq, FeedCacheAssumption
    <2> QED BY <2>1, <2>2 DEF Init, Queues, Short
<1>4. Buffers
    BY EmptySeq DEF Init, Buffers
<1>5. Kept
    BY DEF Init, Kept, Ended
<1> QED BY <1>1, <1>2, <1>3, <1>4, <1>5 DEF IInv

LEMMA ForgetBuffers ==
    ASSUME out \in [ConnIds -> Seq(Answers)], NEW c \in ConnIds, Forget(c)
    PROVE  out' \in [ConnIds -> Seq(Answers)]
BY EmptySeq DEF Forget

LEMMA NewConnectionKeeps ==
    ASSUME IInv, NEW c \in ConnIds, NewConnection(c)
    PROVE  IInv'
<1>1. Processes'
    BY DEF IInv, Processes, flags, NewConnection
<1>2. Tasks'
    BY DEF IInv, Tasks, NewConnection, history
<1>3. Queues'
    BY SameQueues DEF IInv, NewConnection
<1>4. Buffers'
    BY EmptySeq DEF IInv, Buffers, NewConnection, history
<1>5. Kept'
    BY SameKept DEF IInv, NewConnection, queues, history
<1> QED BY <1>1, <1>2, <1>3, <1>4, <1>5 DEF IInv

LEMMA ClosedKeeps ==
    ASSUME IInv, NEW c \in ConnIds, Closed(c)
    PROVE  IInv'
<1>1. Processes'
    BY DEF IInv, Processes, flags, Closed
<1>2. Tasks'
    BY ForgetTasks DEF IInv, Closed
<1>3. Queues'
    BY SameQueues DEF IInv, Closed
<1>4. Buffers'
    <2>1. out' \in [ConnIds -> Seq(Answers)]
        BY ForgetBuffers DEF IInv, Buffers, Closed
    <2> QED BY <2>1 DEF IInv, Buffers, Closed, bounds
<1>5. Kept'
    BY SameKept DEF IInv, Closed, queues, bounds
<1> QED BY <1>1, <1>2, <1>3, <1>4, <1>5 DEF IInv

LEMMA ConnRequestKeeps ==
    ASSUME IInv, NEW c \in ConnIds, ConnRequest(c)
    PROVE  IInv'
<1>0. c \in conns /\ Tasks /\ Processes /\ Buffers
    BY DEF IInv, ConnRequest
<1>1. Processes'
    BY DEF IInv, Processes, flags, ConnRequest
<1>2. Tasks' /\ out' \in [ConnIds -> Seq(Answers)]
    <2>0. out \in [ConnIds -> Seq(Answers)]
        BY <1>0 DEF Buffers
    <2>1. CASE UNCHANGED waiting /\ KeepConns
        BY <1>0, <2>0, <2>1, SameTasks DEF KeepConns
    <2>2. CASE waiting' = waiting \cup {c} /\ KeepConns
        BY <1>0, <2>0, <2>2, AsksTasks DEF KeepConns
    <2>3. CASE Forget(c)
        BY <1>0, <2>0, <2>3, ForgetTasks, ForgetBuffers
    <2>4. CASE /\ Cardinality(DOMAIN task_map) # NWorks /\ FreeSlots # {}
               /\ ~ Registered(c)
               /\ task_map' = [d \in DOMAIN task_map \cup {c} |->
                                 IF d = c THEN Min(FreeSlots) ELSE task_map[d]]
               /\ used' = used \cup {Min(FreeSlots)}
               /\ UNCHANGED <<conns, out, waiting>>
        <3>1. Min(FreeSlots) \in 1 .. NWorks /\ Min(FreeSlots) \notin used
            BY <1>0, <2>4, LowEntryFree DEF Processes, flags
        <3> DEFINE s == Min(FreeSlots)
        <3>2. task_map' = [d \in DOMAIN task_map \cup {c} |-> IF d = c THEN s ELSE task_map[d]]
            BY <2>4
        <3>3. s \in 1 .. NWorks /\ s \notin used /\ used' = used \cup {s}
            BY <2>4, <3>1
        <3> HIDE DEF s
        <3>4. Tasks'
            BY <1>0, <2>4, <3>2, <3>3, RegisterTasks
        <3> QED BY <2>0, <2>4, <3>4
    <2> QED BY <2>1, <2>2, <2>3, <2>4 DEF ConnRequest
<1>3. Queues'
    BY SameQueues DEF IInv, ConnRequest
<1>4. Buffers'
    BY <1>0, <1>2 DEF Buffers, ConnRequest, bounds
<1>5. Kept'
    BY SameKept DEF IInv, ConnRequest, queues, bounds
<1> QED BY <1>1, <1>2, <1>3, <1>4, <1>5 DEF IInv

LEMMA FeedRequestKeeps ==
    ASSUME IInv, NEW c \in ConnIds, FeedRequest(c)
    PROVE  IInv'
<1>0. /\ Processes /\ Tasks /\ Queues /\ Buffers /\ Kept
      /\ net = "up" /\ c \in conns
    BY DEF IInv, FeedRequest
<1>1. UNCHANGED <<monitor, flags, net, work, slots, resp, busy, cache, accepted, delivered, asked,
                  dropped, sent, faults>>
    BY DEF FeedRequest
<1>2. Processes'
    BY <1>0, <1>1 DEF Processes, flags
<1>3. CASE Registered(c) /\ Len(req[QueueOf(task_map[c])]) < QueueCap
    <2> DEFINE w == QueueOf(task_map[c])
    <2>1. w \in Works
        BY <1>0, <1>3, Indices DEF Tasks, Registered
    <2>2. Pull(c) \in Requests
        BY DEF Requests
    <2>3. /\ req' = [req EXCEPT ![w] = Append(@, Pull(c))]
          /\ waiting' = waiting \cup {c} /\ KeepConns
        BY <1>3 DEF FeedRequest
    <2>4. Len(req[w]) < QueueCap
        BY <1>3
    <2> HIDE DEF w
    <2>5. Queues' /\ \A v \in Works : Range(req[v]) \subseteq Range(req'[v])
        BY <1>0, <1>1, <2>1, <2>2, <2>3, <2>4, Enqueued
    <2>6. Tasks' /\ out' = out
        BY <1>0, <2>3, AsksTasks DEF KeepConns
    <2>7. Kept'
        BY <1>0, <1>1, <2>5, EnqueuedKept
    <2>8. Buffers'
        BY <1>0, <1>1, <2>6 DEF Buffers
    <2> QED BY <1>2, <2>5, <2>6, <2>7, <2>8 DEF IInv
<1>4. CASE ~ (Registered(c) /\ Len(req[QueueOf(task_map[c])]) < QueueCap)
    <2>1. Forget(c) /\ req' = req
        BY <1>4 DEF FeedRequest
    <2>2. Tasks' /\ out' \in [ConnIds -> Seq(Answers)]
        BY <1>0, <2>1, ForgetTasks, ForgetBuffers DEF Buffers
    <2>3. Queues'
        BY <1>0, <1>1, <2>1, SameQueues DEF queues
    <2>4. Kept'
        BY <1>0, <1>1, <2>1, SameKept
    <2>5. Buffers'
        BY <1>0, <1>1, <2>2 DEF Buffers
    <2> QED BY <1>2, <2>2, <2>3, <2>4, <2>5 DEF IInv
<1> QED BY <1>3, <1>4

LEMMA SoRequestKeeps ==
    ASSUME IInv, NEW c \in ConnIds, SoRequest(c)
    PROVE  IInv'
<1> DEFINE f == sent + 1
           w == Owner(f)
<1>0. /\ Processes /\ Tasks /\ Queues /\ Buffers /\ Kept
      /\ net = "up" /\ c \in conns /\ sent \in Nat
    BY DEF IInv, SoRequest, Buffers
<1>1. /\ UNCHANGED <<monitor, flags, net, work, slots, resp, busy, cache, delivered, asked,
                     dropped, faults>>
      /\ sent' = f /\ sent < MaxFeeds
    BY DEF SoRequest
<1>2. f \in Nat /\ f \in Feeds /\ w \in Works
    BY <1>0, <1>1, Indices, FeedCacheAssumption DEF Feeds
<1>3. So(f) \in Requests
    BY <1>2 DEF Requests
<1>4. IF Len(req[w]) < QueueCap
      THEN req' = [req EXCEPT ![w] = Append(@, So(f))] /\ accepted' = accepted \cup {f}
      ELSE UNCHANGED <<req, accepted>>
    BY DEF SoRequest
<1>5. (KeepConns /\ UNCHANGED waiting) \/ Forget(c)
    BY DEF SoRequest
<1> HIDE DEF f, w
<1>6. Processes'
    BY <1>0, <1>1 DEF Processes, flags
<1>7. Tasks' /\ out' \in [ConnIds -> Seq(Answers)]
    <2>1. out \in [ConnIds -> Seq(Answers)]
        BY <1>0 DEF Buffers
    <2>2. CASE KeepConns /\ UNCHANGED waiting
        BY <1>0, <2>1, <2>2, SameTasks DEF KeepConns
    <2>3. CASE Forget(c)
        BY <1>0, <2>1, <2>3, ForgetTasks, ForgetBuffers
    <2> QED BY <1>5, <2>2, <2>3
<1>8. Buffers'
    <2>1. accepted' \subseteq accepted \cup {f}
        BY <1>4
    <2> QED BY <1>0, <1>1, <1>2, <1>7, <2>1 DEF Buffers
<1>9. Queues' /\ Kept'
    <2>1. CASE Len(req[w]) < QueueCap
        <3>1. /\ Queues'
              /\ \A v \in Works : Range(req[v]) \subseteq Range(req'[v])
              /\ So(f) \in Range(req'[w])
            BY <1>0, <1>1, <1>2, <1>3, <1>4, <2>1, Enqueued
        <3>2. \A g \in accepted' \ accepted : \E v \in Works : So(g) \in Range(req'[v])
            BY <1>2, <1>4, <2>1, <3>1
        <3> QED BY <1>0, <1>1, <3>1, <3>2, EnqueuedKept
    <2>2. CASE ~ (Len(req[w]) < QueueCap)
        <3>1. UNCHANGED <<req, accepted>>
            BY <1>4, <2>2
        <3> QED BY <1>0, <1>1, <3>1, SameQueues, SameKept DEF queues
    <2> QED BY <2>1, <2>2
<1> QED BY <1>6, <1>7, <1>8, <1>9 DEF IInv

LEMMA HandedFeeds ==
    ASSUME delivered \in Seq(Feeds), NEW a \in Answers
    PROVE  Handed(a.feed) \in Seq(Feeds)
<1>1. a.feed \in Feeds \cup {NoFeed}
    BY DEF Answers, Answer
<1> QED BY <1>1, AppendProperties DEF Handed

LEMMA DealResponseKeeps ==
    ASSUME IInv, NEW w \in Works, DealResponse(w)
    PROVE  IInv'
<1> DEFINE a == Head(resp[w])
           c == a.conn
<1>0. Processes /\ Tasks /\ Queues /\ Buffers /\ Kept
    BY DEF IInv
<1>1. /\ UNCHANGED <<monitor, flags, net, work, slots, req, busy, cache, accepted, asked, dropped,
                     sent, faults>>
      /\ resp[w] # <<>> /\ resp' = [resp EXCEPT ![w] = Tail(@)]
    BY DEF DealResponse, bounds
<1>2. resp \in [Works -> Seq(Answers)] /\ resp[w] \in Seq(Answers)
    BY <1>0 DEF Queues
<1>3. /\ a \in Answers /\ Tail(resp[w]) \in Seq(Answers)
      /\ Len(Tail(resp[w])) = Len(resp[w]) - 1 /\ Len(resp[w]) \in Nat
    BY <1>1, <1>2, TailRange
<1>4. \/ c \in conns /\ delivered' = Handed(a.feed) /\ waiting' = waiting \ {c} /\ KeepConns
      \/ /\ c \in conns /\ out' = [out EXCEPT ![c] = Append(@, a)]
         /\ UNCHANGED <<delivered, waiting, conns, used, task_map>>
      \/ c \in conns /\ Forget(c) /\ UNCHANGED delivered
      \/ KeepConns /\ UNCHANGED <<delivered, waiting>>
    BY DEF DealResponse
<1> HIDE DEF a
<1>5. Processes'
    BY <1>0, <1>1 DEF Processes, flags
<1>6. Queues'
    <2> DEFINE t == Tail(resp[w])
    <2>1. resp' = [resp EXCEPT ![w] = t] /\ t \in Seq(Answers) /\ Len(t) <= Len(resp[w])
        BY <1>1, <1>3
    <2> HIDE DEF t
    <2>2. resp' \in [Works -> Seq(Answers)]
        BY <1>2, <2>1
    <2>3. \A v \in Works : resp'[v] = IF v = w THEN t ELSE resp[v]
        BY <1>2, <2>1
    <2>4. Len(resp[w]) <= QueueCap
        BY <1>0 DEF Queues, Short
    <2>5. Len(t) <= QueueCap
        BY <1>3, <2>1, <2>4, FeedCacheAssumption, LenProperties
    <2>6. \A v \in Works : Short(resp'[v], QueueCap)
        BY <1>0, <2>3, <2>5 DEF Queues, Short
    <2> QED BY <1>0, <1>1, <2>2, <2>6 DEF Queues
<1>7. Tasks' /\ out' \in [ConnIds -> Seq(Answers)] /\ delivered' \in Seq(Feeds)
    <2>0. /\ out \in [ConnIds -> Seq(Answers)] /\ delivered \in Seq(Feeds)
          /\ conns \subseteq ConnIds
        BY <1>0 DEF Buffers, Tasks
    <2>1. CASE /\ c \in conns /\ delivered' = Handed(a.feed)
               /\ waiting' = waiting \ {c} /\ KeepConns
        BY <1>0, <1>3, <2>0, <2>1, ToldTasks, HandedFeeds DEF KeepConns
    <2>2. CASE /\ c \in conns /\ out' = [out EXCEPT ![c] = Append(@, a)]
               /\ UNCHANGED <<delivered, waiting, conns, used, task_map>>
        <3>1. c \in ConnIds /\ out[c] \in Seq(Answers)
            BY <2>0, <2>2
        <3>2. Append(out[c], a) \in Seq(Answers)
            BY <1>3, <3>1, AppendProperties
        <3>3. out' \in [ConnIds -> Seq(Answers)]
            BY <2>0, <2>2, <3>1, <3>2
        <3> QED BY <1>0, <2>0, <2>2, <3>3, SameTasks
    <2>3. CASE c \in conns /\ Forget(c) /\ UNCHANGED delivered
        <3>1. c \in ConnIds
            BY <2>0, <2>3
        <3> QED BY <1>0, <2>0, <2>3, <3>1, ForgetTasks, ForgetBuffers
    <2>4. CASE KeepConns /\ UNCHANGED <<delivered, waiting>>
        BY <1>0, <2>0, <2>4, SameTasks DEF KeepConns
    <2> QED BY <1>4, <2>1, <2>2, <2>3, <2>4
<1>8. Buffers'
    BY <1>0, <1>1, <1>7 DEF Buffers
<1>9. Kept'
    BY <1>0, <1>1, SameKept
<1> QED BY <1>5, <1>6, <1>7, <1>8, <1>9 DEF IInv

LEMMA SendBufferKeeps ==
    ASSUME IInv, NEW c \in ConnIds, SendBuffer(c)
    PROVE  IInv'
<1>0. Processes /\ Tasks /\ Queues /\ Buffers /\ Kept
    BY DEF IInv
<1>1. /\ UNCHANGED <<monitor, flags, net, work, slots, used, conns, task_map, queues, accepted,
                     asked, dropped, bounds>>
      /\ out[c] # <<>> /\ out' = [out EXCEPT ![c] = Tail(@)]
      /\ delivered' = Handed(Head(out[c]).feed) /\ waiting' = waiting \ {c}
    BY DEF SendBuffer
<1>2. /\ out \in [ConnIds -> Seq(Answers)] /\ out[c] \in Seq(Answers)
      /\ delivered \in Seq(Feeds)
    BY <1>0 DEF Buffers
<1>3. Tail(out[c]) \in Seq(Answers) /\ Head(out[c]) \in Answers
    BY <1>1, <1>2, TailRange
<1>4. out' \in [ConnIds -> Seq(Answers)]
    BY <1>1, <1>2, <1>3
<1>5. delivered' \in Seq(Feeds)
    BY <1>1, <1>2, <1>3, HandedFeeds
<1>6. Buffers'
    BY <1>0, <1>1, <1>4, <1>5 DEF Buffers, bounds
<1>7. Tasks' /\ Queues' /\ Kept'
    BY <1>0, <1>1, ToldTasks, SameQueues, SameKept DEF queues, bounds
<1>8. Processes'
    BY <1>0, <1>1 DEF Processes, flags
<1> QED BY <1>6, <1>7, <1>8 DEF IInv

LEMMA NetGoneBuffers ==
    ASSUME NetGone
    PROVE  Tasks' /\ out' \in [ConnIds -> Seq(Answers)]
BY NoTasks, EmptySeq DEF NetGone

LEMMA NetDiesKeeps ==
    ASSUME IInv, NetDies
    PROVE  IInv'
<1>0. Processes /\ Queues /\ Buffers
    BY DEF IInv
<1>1. Tasks' /\ out' \in [ConnIds -> Seq(Answers)]
    BY NetGoneBuffers DEF NetDies
<1>2. Processes' /\ Queues'
    BY <1>0, SameQueues DEF Processes, ChildSignal, Woken, Loop, NetDies
<1>3. Buffers'
    BY <1>0, <1>1 DEF Buffers, NetDies
<1>4. Kept'
    BY <1>0, FaultKept DEF NetDies, Buffers
<1> QED BY <1>1, <1>2, <1>3, <1>4 DEF IInv

LEMMA NetLeavesKeeps ==
    ASSUME IInv, NetLeaves
    PROVE  IInv'
<1>0. Processes /\ Queues /\ Buffers /\ Kept
    BY DEF IInv
<1>1. Tasks' /\ out' \in [ConnIds -> Seq(Answers)]
    BY NetGoneBuffers DEF NetLeaves
<1>2. Processes' /\ Queues'
    BY <1>0, SameQueues DEF Processes, flags, NetLeaves
<1>3. Buffers'
    BY <1>0, <1>1 DEF Buffers, NetLeaves, bounds
<1>4. Kept'
    BY <1>0 DEF Kept, At, Ended, Loop, NetLeaves, queues, bounds
<1> QED BY <1>1, <1>2, <1>3, <1>4 DEF IInv

LEMMA NetEndsKeeps ==
    ASSUME IInv, NetEnds
    PROVE  IInv'
<1>0. Processes /\ Tasks /\ Queues /\ Buffers /\ Kept
    BY DEF IInv
<1>1. Processes' /\ Tasks'
    BY <1>0, SameTasks DEF Processes, flags, NetEnds
<1>2. Queues'
    <2>1. <<>> \in Seq(Answers) /\ Len(<<>>) = 0 /\ 0 <= QueueCap
        BY EmptySeq, FeedCacheAssumption
    <2>2. resp' \in [Works -> Seq(Answers)] /\ \A w \in Works : Short(resp'[w], QueueCap)
        BY <2>1 DEF NetEnds, Short
    <2> QED BY <1>0, <2>2 DEF Queues, NetEnds
<1>3. Buffers'
    <2>1. \A w \in Works : Range(resp[w]) \subseteq Answers
        BY <1>0, RangeWithin DEF Queues
    <2>2. \A a \in Answers : a.feed \in Feeds \cup {NoFeed}
        BY DEF Answers, Answer
    <2>3. {a.feed : a \in UNION {Range(resp[w]) : w \in Works}} \ {NoFeed} \subseteq Feeds
        BY <2>1, <2>2
    <2>4. dropped' \subseteq Feeds
        BY <1>0, <2>3 DEF NetEnds, Buffers
    <2> QED BY <1>0, <2>4 DEF Buffers, NetEnds, bounds
<1>4. Kept'
    BY <1>0 DEF Kept, At, Ended, NetEnds, bounds
<1> QED BY <1>1, <1>2, <1>3, <1>4 DEF IInv

-----------------------------------------------------------------------------
(* The work processes keep the invariant.                                  *)

(* A feed that is on its way stays on its way, or is asked for.            *)
LEMMA MovedKept ==
    ASSUME Kept, NEW w \in Works, work[w] = "up",
           UNCHANGED <<monitor, net, work, accepted>>,
           faults' = 0 => faults = 0,
           asked \subseteq asked',
           \A v \in Works \ {w} : req'[v] = req[v] /\ busy'[v] = busy[v] /\ cache'[v] = cache[v],
           req[w] = <<>> => req'[w] = <<>>,
           \A f : At(f, w) => At(f, w)' \/ f \in asked'
    PROVE  Kept'
<1> SUFFICES ASSUME faults' = 0 PROVE Kept'
    BY DEF Kept
<1>1. /\ \A f \in accepted \ asked : \E v \in Works : At(f, v)
      /\ \A v \in Works : work[v] # "dead" /\ (work[v] = "done" => busy[v] = <<>>)
      /\ net # "up" => monitor \notin Loop
      /\ Ended => \A v \in Works : req[v] = <<>>
      /\ monitor \in {"stopwork", "down"} => Ended
      /\ monitor = "down" => \A v \in Works : work[v] # "up"
    BY DEF Kept
<1>2. \A f \in accepted' \ asked' : \E v \in Works : At(f, v)'
    <2> SUFFICES ASSUME NEW f \in accepted \ asked' PROVE \E v \in Works : At(f, v)'
        OBVIOUS
    <2>1. PICK v \in Works : At(f, v)
        BY <1>1
    <2>2. CASE v = w
        BY <2>1, <2>2
    <2>3. CASE v # w
        <3>1. At(f, v)'
            BY <2>1, <2>3 DEF At
        <3> QED BY <3>1
    <2> QED BY <2>2, <2>3
<1>3. \A v \in Works : work'[v] # "dead" /\ (work'[v] = "done" => busy'[v] = <<>>)
    BY <1>1
<1>4. Ended' => \A v \in Works : req'[v] = <<>>
    BY <1>1 DEF Ended
<1>5. /\ net' # "up" => monitor' \notin Loop
      /\ monitor' \in {"stopwork", "down"} => Ended'
      /\ monitor' = "down" => \A v \in Works : work'[v] # "up"
    BY <1>1 DEF Ended
<1> QED BY <1>2, <1>3, <1>4, <1>5 DEF Kept

LEMMA WorkPopKeeps ==
    ASSUME IInv, NEW w \in Works, WorkPop(w)
    PROVE  IInv'
<1> DEFINE t == Tail(req[w])
           b == <<Head(req[w])>>
<1>0. Processes /\ Tasks /\ Queues /\ Buffers /\ Kept
    BY DEF IInv
<1>1. /\ UNCHANGED <<server, resp, cache, history, bounds>>
      /\ work[w] = "up" /\ busy[w] = <<>> /\ req[w] # <<>>
      /\ busy' = [busy EXCEPT ![w] = b] /\ req' = [req EXCEPT ![w] = t]
    BY DEF WorkPop
<1>2. /\ req \in [Works -> Seq(Requests)] /\ req[w] \in Seq(Requests)
      /\ busy \in [Works -> Seq(Requests)] /\ Len(req[w]) <= QueueCap
    BY <1>0 DEF Queues, Short
<1>3. /\ t \in Seq(Requests) /\ Len(t) = Len(req[w]) - 1 /\ Len(req[w]) \in Nat
      /\ Head(req[w]) \in Requests /\ Range(req[w]) = Range(t) \cup {Head(req[w])}
    BY <1>1, <1>2, TailRange
<1>4. b \in Seq(Requests) /\ Len(b) = 1 /\ Range(b) = {Head(req[w])}
    BY <1>3, OneElement
<1> HIDE DEF t, b
<1>5. \A v \in Works : /\ req'[v] = IF v = w THEN t ELSE req[v]
                       /\ busy'[v] = IF v = w THEN b ELSE busy[v]
    BY <1>1, <1>2
<1>6. Queues'
    <2>1. req' \in [Works -> Seq(Requests)] /\ busy' \in [Works -> Seq(Requests)]
        BY <1>1, <1>2, <1>3, <1>4
    <2>2. Len(t) <= QueueCap /\ Len(b) <= 1
        BY <1>2, <1>3, <1>4, FeedCacheAssumption
    <2> QED BY <1>0, <1>1, <1>5, <2>1, <2>2 DEF Queues, Short
<1>7. Kept'
    <2>1. \A f : At(f, w) => At(f, w)'
        BY <1>1, <1>3, <1>4, <1>5, EmptyRange DEF At
    <2> QED BY <1>0, <1>1, <1>5, <2>1, MovedKept DEF server, history, bounds
<1>8. Processes' /\ Tasks' /\ Buffers'
    BY <1>0, <1>1, SameTasks DEF Processes, flags, Buffers, server, history, bounds
<1> QED BY <1>6, <1>7, <1>8 DEF IInv

(* The request that a work process handles is the only one it has.         *)
LEMMA Popped ==
    ASSUME Queues, NEW w \in Works, busy[w] # <<>>
    PROVE  busy[w][1] \in Requests /\ Range(busy[w]) = {busy[w][1]}
<1>1. busy[w] \in Seq(Requests) /\ Len(busy[w]) <= 1
    BY DEF Queues, Short
<1> QED BY <1>1, OnlyElement

LEMMA NothingPopped ==
    ASSUME Queues, NEW w \in Works, busy' = [busy EXCEPT ![w] = <<>>]
    PROVE  /\ busy' \in [Works -> Seq(Requests)]
           /\ \A v \in Works : busy'[v] = (IF v = w THEN <<>> ELSE busy[v]) /\ Short(busy'[v], 1)
<1>1. <<>> \in Seq(Requests) /\ Len(<<>>) = 0
    BY EmptySeq
<1> QED BY <1>1 DEF Queues, Short

LEMMA WorkStoreKeeps ==
    ASSUME IInv, NEW w \in Works, WorkStore(w)
    PROVE  IInv'
<1> DEFINE b == busy[w][1]
           s == Append(cache[w], b.feed)
<1>0. Processes /\ Tasks /\ Queues /\ Buffers /\ Kept
    BY DEF IInv
<1>1. /\ UNCHANGED <<server, req, resp, history, bounds>>
      /\ work[w] = "up" /\ busy[w] # <<>> /\ b.kind = "so"
      /\ busy' = [busy EXCEPT ![w] = <<>>] /\ cache' = [cache EXCEPT ![w] = s]
    BY DEF WorkStore
<1>2. b \in Requests /\ Range(busy[w]) = {b}
    BY <1>0, <1>1, Popped
<1>3. PICK f \in Feeds : b = So(f)
    BY <1>1, <1>2 DEF Requests, Pull
<1>4. b.feed = f /\ \A g : So(g) = b => g = f
    BY <1>3 DEF So
<1>5. cache \in [Works -> Seq(Feeds)] /\ cache[w] \in Seq(Feeds)
    BY <1>0 DEF Queues
<1>6. s \in Seq(Feeds) /\ Range(s) = Range(cache[w]) \cup {f}
    BY <1>4, <1>5, AppendRange
<1> HIDE DEF b, s
<1>7. cache' \in [Works -> Seq(Feeds)]
    BY <1>1, <1>5, <1>6
<1>8. \A v \in Works : cache'[v] = IF v = w THEN s ELSE cache[v]
    BY <1>1, <1>5
<1>9. /\ busy' \in [Works -> Seq(Requests)]
      /\ \A v \in Works : busy'[v] = (IF v = w THEN <<>> ELSE busy[v]) /\ Short(busy'[v], 1)
    BY <1>0, <1>1, NothingPopped
<1>10. Queues'
    BY <1>0, <1>1, <1>7, <1>9 DEF Queues
<1>11. Kept'
    <2>1. \A g : At(g, w) => At(g, w)'
        BY <1>1, <1>2, <1>4, <1>6, <1>8 DEF At
    <2> QED BY <1>0, <1>1, <1>8, <1>9, <2>1, MovedKept DEF server, history, bounds
<1>12. Processes' /\ Tasks' /\ Buffers'
    BY <1>0, <1>1, SameTasks DEF Processes, flags, Buffers, server, history, bounds
<1> QED BY <1>10, <1>11, <1>12 DEF IInv

LEMMA WorkAnswerKeeps ==
    ASSUME IInv, NEW w \in Works, WorkAnswer(w)
    PROVE  IInv'
<1> DEFINE b == busy[w][1]
           feed == IF cache[w] = <<>> THEN NoFeed ELSE Head(cache[w])
           a == Answer(b.conn, feed)
           full == Len(resp[w]) >= QueueCap
           s == IF cache[w] = <<>> THEN cache[w] ELSE Tail(cache[w])
<1>0. Processes /\ Tasks /\ Queues /\ Buffers /\ Kept
    BY DEF IInv
<1>1. /\ UNCHANGED <<server, req, accepted, delivered, dropped, waiting, sent, opens, pulls>>
      /\ work[w] = "up" /\ busy[w] # <<>> /\ b.kind = "pull"
      /\ resp' = IF full THEN resp ELSE [resp EXCEPT ![w] = Append(@, a)]
      /\ faults' = IF full THEN faults + 1 ELSE faults
      /\ asked' = asked \cup ({feed} \ {NoFeed})
      /\ cache' = IF cache[w] = <<>> THEN cache ELSE [cache EXCEPT ![w] = Tail(@)]
      /\ busy' = [busy EXCEPT ![w] = <<>>]
    BY DEF WorkAnswer
<1>2. b \in Requests /\ Range(busy[w]) = {b}
    BY <1>0, <1>1, Popped
<1>3. PICK c \in ConnIds : b = Pull(c)
    BY <1>1, <1>2 DEF Requests, So
<1>4. b.conn = c /\ \A g : So(g) # b
    BY <1>3 DEF So, Pull
<1>5. /\ cache \in [Works -> Seq(Feeds)] /\ cache[w] \in Seq(Feeds)
      /\ resp \in [Works -> Seq(Answers)] /\ resp[w] \in Seq(Answers)
    BY <1>0 DEF Queues
<1>6. /\ feed \in Feeds \cup {NoFeed} /\ s \in Seq(Feeds)
      /\ Range(cache[w]) \subseteq Range(s) \cup ({feed} \ {NoFeed})
    <2>1. CASE cache[w] = <<>>
        BY <1>5, <2>1, EmptyRange
    <2>2. CASE cache[w] # <<>>
        <3>1. /\ Tail(cache[w]) \in Seq(Feeds) /\ Head(cache[w]) \in Feeds
              /\ Range(cache[w]) = Range(Tail(cache[w])) \cup {Head(cache[w])}
            BY <1>5, <2>2, TailRange
        <3>2. Head(cache[w]) # NoFeed
            BY <3>1 DEF Feeds, NoFeed
        <3> QED BY <2>2, <3>1, <3>2
    <2> QED BY <2>1, <2>2
<1>7. a \in Answers
    <2>1. \A g \in Feeds \cup {NoFeed} : Answer(c, g) \in Answers
        BY DEF Answers
    <2>2. a = Answer(c, feed)
        BY <1>4
    <2> HIDE DEF feed, a
    <2> QED BY <1>6, <2>1, <2>2
<1>8. cache' = [cache EXCEPT ![w] = s]
    BY <1>1, <1>5
<1>9. /\ busy' \in [Works -> Seq(Requests)]
      /\ \A v \in Works : busy'[v] = (IF v = w THEN <<>> ELSE busy[v]) /\ Short(busy'[v], 1)
    BY <1>0, <1>1, NothingPopped
<1> HIDE DEF b, feed, a, s
<1>10. cache' \in [Works -> Seq(Feeds)] /\ \A v \in Works : cache'[v] = IF v = w THEN s ELSE cache[v]
    BY <1>5, <1>6, <1>8
<1>11. resp' \in [Works -> Seq(Answers)] /\ \A v \in Works : Short(resp'[v], QueueCap)
    <2>0. \A v \in Works : Short(resp[v], QueueCap)
        BY <1>0 DEF Queues
    <2>1. CASE full
        BY <1>1, <1>5, <2>0, <2>1
    <2>2. CASE ~ full
        <3> DEFINE r == Append(resp[w], a)
        <3>1. r \in Seq(Answers) /\ Len(r) = Len(resp[w]) + 1 /\ Len(resp[w]) \in Nat
            BY <1>5, <1>7, AppendRange
        <3>2. resp' = [resp EXCEPT ![w] = r]
            BY <1>1, <2>2
        <3> HIDE DEF r
        <3>3. Len(r) <= QueueCap
            BY <2>2, <3>1, FeedCacheAssumption
        <3> QED BY <1>5, <2>0, <3>1, <3>2, <3>3 DEF Short
    <2> QED BY <2>1, <2>2
<1>12. Queues'
    BY <1>0, <1>1, <1>9, <1>10, <1>11 DEF Queues
<1>13. faults' \in Nat /\ (faults' = 0 => faults = 0)
    BY <1>0, <1>1 DEF Buffers
<1>14. Kept'
    <2>1. \A g : At(g, w) => At(g, w)' \/ g \in asked'
        BY <1>1, <1>2, <1>4, <1>6, <1>10 DEF At
    <2> QED BY <1>0, <1>1, <1>9, <1>10, <1>13, <2>1, MovedKept DEF server
<1>15. Processes' /\ Tasks'
    BY <1>0, <1>1, SameTasks DEF Processes, flags, server
<1>16. Buffers'
    BY <1>0, <1>1, <1>6, <1>13 DEF Buffers, server
<1> QED BY <1>12, <1>14, <1>15, <1>16 DEF IInv

LEMMA WorkLosesKeeps ==
    ASSUME IInv, NEW w \in Works, WorkLoses(w)
    PROVE  IInv'
<1>0. Processes /\ Tasks /\ Queues /\ Buffers
    BY DEF IInv
<1>1. /\ UNCHANGED <<server, req, resp, cache, history, sent>>
      /\ busy' = [busy EXCEPT ![w] = <<>>] /\ faults' = faults + 1
    BY DEF WorkLoses
<1>2. busy' \in [Works -> Seq(Requests)] /\ \A v \in Works : Short(busy'[v], 1)
    BY <1>0, <1>1, NothingPopped
<1>3. Processes' /\ Tasks'
    BY <1>0, <1>1, SameTasks DEF Processes, flags, server, history
<1>4. Queues'
    BY <1>0, <1>1, <1>2 DEF Queues
<1>5. Buffers' /\ Kept'
    BY <1>0, <1>1, FaultKept DEF Buffers, server, history
<1> QED BY <1>3, <1>4, <1>5 DEF IInv

LEMMA WorkDiesKeeps ==
    ASSUME IInv, NEW w \in Works, WorkDies(w)
    PROVE  IInv'
<1>0. Processes /\ Tasks /\ Queues /\ Buffers
    BY DEF IInv
<1>1. /\ UNCHANGED <<net, slots, used, conns, task_map, out, req, resp, history, sent>>
      /\ ChildSignal
      /\ work' = [work EXCEPT ![w] = "dead"]
      /\ busy' = [busy EXCEPT ![w] = <<>>] /\ faults' = faults + 1
    BY DEF WorkDies
<1>2. busy' \in [Works -> Seq(Requests)] /\ \A v \in Works : Short(busy'[v], 1)
    BY <1>0, <1>1, NothingPopped
<1>3. cache' \in [Works -> Seq(Feeds)]
    <2>1. PICK kept \in Remains(cache[w]) : cache' = [cache EXCEPT ![w] = kept]
        BY DEF WorkDies
    <2>2. cache \in [Works -> Seq(Feeds)] /\ cache[w] \in Seq(Feeds)
        BY <1>0 DEF Queues
    <2>3. kept \in Seq(Feeds)
        BY <2>2, WhatRemains
    <2> QED BY <2>1, <2>2, <2>3
<1>4. Processes' /\ Tasks'
    BY <1>0, <1>1, SameTasks DEF Processes, ChildSignal, Woken, Loop, history
<1>5. Queues'
    BY <1>0, <1>1, <1>2, <1>3 DEF Queues
<1>6. Buffers' /\ Kept'
    BY <1>0, <1>1, FaultKept DEF Buffers, history
<1> QED BY <1>4, <1>5, <1>6 DEF IInv

LEMMA WorkEndsKeeps ==
    ASSUME IInv, NEW w \in Works, WorkEnds(w)
    PROVE  IInv'
<1>0. Processes /\ Tasks /\ Queues /\ Buffers /\ Kept
    BY DEF IInv
<1>1. /\ UNCHANGED <<monitor, flags, net, slots, used, conns, task_map, out, queues, history,
                     bounds>>
      /\ monitor = "stopwork" /\ busy[w] = <<>>
      /\ work' = [work EXCEPT ![w] = "done"]
    BY DEF WorkEnds
<1>2. Processes' /\ Tasks' /\ Queues' /\ Buffers'
    BY <1>0, <1>1, SameTasks, SameQueues DEF Processes, flags, Buffers, history, bounds
<1>3. \A v \in Works : work'[v] = IF v = w THEN "done" ELSE work[v]
    BY <1>0, <1>1 DEF Processes, flags
<1>4. Kept'
    <2> SUFFICES ASSUME faults = 0 PROVE Kept'
        BY <1>1 DEF Kept, bounds
    <2>1. \A v \in Works : work'[v] # "dead" /\ (work'[v] = "done" => busy'[v] = <<>>)
        BY <1>0, <1>1, <1>3 DEF Kept, queues
    <2>2. \A f \in accepted' \ asked' : \E v \in Works : At(f, v)'
        BY <1>0, <1>1 DEF Kept, At, queues, history
    <2>3. /\ net' # "up" => monitor' \notin Loop
          /\ Ended' => \A v \in Works : req'[v] = <<>>
          /\ monitor' \in {"stopwork", "down"} => Ended'
          /\ monitor' # "down"
        BY <1>0, <1>1 DEF Kept, Ended, queues
    <2> QED BY <2>1, <2>2, <2>3 DEF Kept
<1> QED BY <1>2, <1>4 DEF IInv

-----------------------------------------------------------------------------
(* The monitor keeps the invariant.                                        *)

Untouched ==
    UNCHANGED <<used, conns, task_map, out, queues, history, bounds>>

LEMMA Elsewhere ==
    ASSUME IInv, Untouched
    PROVE  Tasks' /\ Queues' /\ Buffers'
BY SameTasks, SameQueues DEF IInv, Untouched, Buffers, history, bounds

(* A restart of either kind means that something failed.                   *)
LEMMA RestartKeeps ==
    ASSUME IInv, (\E w \in Works : RebootWork(w)) \/ RebootNet \/ RebootFails
    PROVE  IInv'
<1>0. Processes /\ Buffers /\ Kept /\ faults' = faults
    BY DEF IInv, RebootWork, RebootNet, RebootFails, bounds
<1>1. Untouched
    BY DEF Untouched, RebootWork, RebootNet, RebootFails
<1>2. NWorks \in Nat
    BY FeedCacheAssumption
<1>3. Processes'
    <2>1. ASSUME NEW w \in Works, RebootWork(w) PROVE Processes'
        BY <1>0, <2>1 DEF Processes, flags, RebootWork
    <2>2. CASE RebootNet
        BY <1>0, <1>2, <2>2 DEF Processes, flags, RebootNet
    <2>3. CASE RebootFails
        BY <1>0, <2>3 DEF Processes, flags, RebootFails
    <2> QED BY <2>1, <2>2, <2>3
<1>4. faults # 0
    <2>1. ASSUME NEW w \in Works, RebootWork(w) PROVE faults # 0
        BY <1>0, <2>1 DEF Kept, RebootWork
    <2>2. CASE RebootNet
        BY <1>0, <2>2 DEF Kept, RebootNet, Loop
    <2>3. CASE RebootFails
        BY <1>0, <2>3 DEF Kept, RebootFails, ChildDead, Loop
    <2> QED BY <2>1, <2>2, <2>3
<1>5. Kept'
    BY <1>0, <1>4 DEF Kept
<1> QED BY <1>1, <1>3, <1>5, Elsewhere DEF IInv

(* A turn of the main loop, whatever signals come, and a stop.             *)
LEMMA LoopKeeps ==
    ASSUME IInv, Look \/ RebootDone \/ Pause \/ Terminate \/ Interrupt
    PROVE  IInv'
<1>0. Processes /\ Kept
    BY DEF IInv
<1>1. Untouched
    BY DEF Untouched, Look, RebootDone, Pause, Terminate, Interrupt
<1>2. /\ UNCHANGED <<net, work, slots>>
      /\ monitor \in Loop /\ monitor' \in Loop \cup {"stopnet"}
      /\ term \in BOOLEAN /\ chld \in BOOLEAN => term' \in BOOLEAN /\ chld' \in BOOLEAN
    BY DEF Look, RebootDone, Pause, Terminate, Interrupt, Woken, Loop, flags
<1>3. Processes'
    BY <1>0, <1>2 DEF Processes
<1>4. Kept'
    <2>1. UNCHANGED <<req, busy, cache, accepted, asked, faults>>
        BY <1>1 DEF Untouched, queues, history, bounds
    <2>2. monitor' \notin {"stopwork", "down"}
        BY <1>2 DEF Loop
    <2> QED BY <1>0, <1>2, <2>1, <2>2 DEF Kept, At, Ended
<1> QED BY <1>1, <1>3, <1>4, Elsewhere DEF IInv

LEMMA StopStepsKeep ==
    ASSUME IInv, StopWorks \/ Down
    PROVE  IInv'
<1>0. Processes /\ Kept
    BY DEF IInv
<1>1. Untouched
    BY DEF Untouched, StopWorks, Down
<1>2. Processes'
    BY <1>0 DEF Processes, flags, StopWorks, Down
<1>3. Kept'
    <2>1. UNCHANGED <<net, work, req, busy, cache, accepted, asked, faults>>
        BY DEF StopWorks, Down, queues, history, bounds
    <2>2. monitor' \notin Loop
        BY DEF StopWorks, Down, Loop
    <2>3. CASE StopWorks
        BY <1>0, <2>1, <2>2, <2>3 DEF Kept, At, Ended, StopWorks
    <2>4. CASE Down
        BY <1>0, <2>1, <2>2, <2>4 DEF Kept, At, Ended, Down
    <2> QED BY <2>3, <2>4
<1> QED BY <1>1, <1>2, <1>3, Elsewhere DEF IInv

-----------------------------------------------------------------------------
(* The invariant is inductive, and what follows from it.                   *)

LEMMA NextKeeps == IInv /\ [Next]_vars => IInv'
<1> SUFFICES ASSUME IInv, [Next]_vars PROVE IInv'
    OBVIOUS
<1>1. CASE Monitor
    BY <1>1, RestartKeeps, LoopKeeps, StopStepsKeep DEF Monitor
<1>2. CASE Net
    <2>1. ASSUME NEW w \in Works, DealResponse(w) PROVE IInv'
        BY <2>1, DealResponseKeeps
    <2>2. ASSUME NEW c \in ConnIds, SendBuffer(c) PROVE IInv'
        BY <2>2, SendBufferKeeps
    <2> QED BY <1>2, <2>1, <2>2, NetLeavesKeeps, NetEndsKeeps DEF Net
<1>3. ASSUME NEW w \in Works, Work(w) PROVE IInv'
    BY <1>3, WorkPopKeeps, WorkStoreKeeps, WorkAnswerKeeps, WorkEndsKeeps DEF Work
<1>4. CASE Clients
    <2>1. PICK c \in ConnIds : \/ NewConnection(c) \/ Closed(c) \/ ConnRequest(c)
                               \/ FeedRequest(c) \/ SoRequest(c)
        BY <1>4 DEF Clients
    <2> QED BY <2>1, NewConnectionKeeps, ClosedKeeps, ConnRequestKeeps, FeedRequestKeeps,
               SoRequestKeeps
<1>5. CASE Faults
    <2>1. ASSUME NEW w \in Works, WorkLoses(w) \/ WorkDies(w) PROVE IInv'
        BY <2>1, WorkLosesKeeps, WorkDiesKeeps
    <2> QED BY <1>5, <2>1, NetDiesKeeps, RestartKeeps DEF Faults
<1>6. CASE Signals
    BY <1>6, LoopKeeps DEF Signals
<1>7. CASE UNCHANGED vars
    <2>1. UNCHANGED <<monitor, flags, net, work, slots, waiting, faults>> /\ Untouched
        BY <1>7 DEF vars, server, history, bounds, Untouched
    <2>2. Processes'
        BY <2>1 DEF IInv, Processes, flags
    <2>3. Kept'
        BY <2>1, SameKept DEF IInv, Untouched, queues, history
    <2> QED BY <2>1, <2>2, <2>3, Elsewhere DEF IInv
<1> QED BY <1>1, <1>2, <1>3, <1>4, <1>5, <1>6, <1>7 DEF Next

THEOREM Invariance == Spec => []IInv
BY InitHolds, NextKeeps, PTL DEF Spec

(* Queues hold messages of their kind within their limits, and the entries *)
(* of tasks are entries there are (FeedCache.TypeOK).                      *)
THEOREM TypeCorrect == Spec => []TypeOK
<1>1. IInv => TypeOK
    <2> SUFFICES ASSUME IInv PROVE TypeOK
        OBVIOUS
    <2>0. Processes /\ Tasks /\ Queues /\ Buffers
        BY DEF IInv
    <2>1. used \subseteq 1 .. slots /\ Range(task_map) \subseteq used
        <3>1. \A s \in 1 .. NWorks : s \in 1 .. slots
            BY <2>0, FeedCacheAssumption DEF Processes, flags
        <3>2. used = {task_map[d] : d \in DOMAIN task_map}
            BY <2>0 DEF Tasks, Range
        <3> QED BY <2>0, <3>1, <3>2 DEF Tasks
    <2>2. \A c \in ConnIds : Range(out[c]) \subseteq Answers
        BY <2>0, RangeWithin DEF Buffers
    <2>3. \A w \in Works : /\ Range(req[w]) \cup Range(busy[w]) \subseteq Requests
                           /\ Range(resp[w]) \subseteq Answers
                           /\ Range(cache[w]) \subseteq Feeds
        BY <2>0, RangeWithin DEF Queues
    <2>4. Range(delivered) \subseteq Feeds
        BY <2>0, RangeWithin DEF Buffers
    <2> QED BY <2>0, <2>1, <2>2, <2>3, <2>4 DEF TypeOK, Processes, Tasks, Queues, Short, Buffers
<1> QED BY <1>1, Invariance, PTL

(* However many work processes there are and however often the net process *)
(* was started again, appending their queues to m_request_queue_vec once   *)
(* more each time: two tasks never consume from the same queue, and        *)
(* on_connection_closed gives back exactly the entries of closed tasks.    *)
THEOREM TasksApart == Spec => []OneTaskPerQueue
<1>1. IInv => OneTaskPerQueue
    <2> SUFFICES ASSUME IInv,
                        NEW c \in DOMAIN task_map, NEW d \in DOMAIN task_map, c # d
                 PROVE  QueueOf(task_map[c]) # QueueOf(task_map[d])
        BY DEF OneTaskPerQueue, IInv, Tasks
    <2>1. task_map[c] \in 1 .. NWorks /\ task_map[d] \in 1 .. NWorks /\ task_map[c] # task_map[d]
        BY DEF IInv, Tasks
    <2> QED BY <2>1, Indices
<1> QED BY <1>1, Invariance, PTL

(* When the monitor has stopped the server and nothing failed, each feed   *)
(* that a producer was told is accepted and no task asked for is in a      *)
(* cache queue: the net process has waited for the request queues, and the *)
(* work processes have ended after it, each with no request in its hands.  *)
THEOREM StopLosesNothing == Spec => []StopKeeps
<1>1. IInv => StopKeeps
    <2> SUFFICES ASSUME IInv, monitor = "down", faults = 0, NEW f \in accepted \ asked
                 PROVE  f \in UNION {Range(cache[w]) : w \in Works}
        BY DEF StopKeeps
    <2>1. PICK w \in Works : At(f, w)
        BY DEF IInv, Kept
    <2>2. work[w] = "done"
        BY DEF IInv, Kept, Processes
    <2>3. busy[w] = <<>> /\ req[w] = <<>>
        BY <2>2 DEF IInv, Kept
    <2>4. f \in Range(cache[w])
        BY <2>1, <2>3, EmptyRange DEF At
    <2> QED BY <2>4
<1> QED BY <1>1, Invariance, PTL

-----------------------------------------------------------------------------
(* No feed is doubled.  A step takes feeds out of lines, hands the first   *)
(* one of a line on to the end of another, or puts in a new feed, whose    *)
(* number is above all those given before (Single).                        *)

\* The elements of r are elements of s, each from a place of its own.
Part(r, s) ==
    \E p \in [DOMAIN r -> DOMAIN s] : IsInjective(p) /\ \A i \in DOMAIN r : r[i] = s[p[i]]

Single(h, n) ==
    /\ h \in [Lines -> Seq(Nat)]
    /\ \A l \in Lines : \A i \in DOMAIN h[l] : h[l][i] <= n
    /\ \A l, k \in Lines : \A i \in DOMAIN h[l], j \in DOMAIN h[k] :
         h[l][i] = h[k][j] /\ h[l][i] # NoFeed => l = k /\ i = j

Absent(h, x) == x = NoFeed \/ \A l \in Lines : \A i \in DOMAIN h[l] : h[l][i] # x

LEMMA PartSame ==
    ASSUME NEW s
    PROVE  Part(s, s)
<1> DEFINE p == [i \in DOMAIN s |-> i]
<1>1. p \in [DOMAIN s -> DOMAIN s] /\ IsInjective(p) /\ \A i \in DOMAIN s : s[i] = s[p[i]]
    BY DEF IsInjective
<1> HIDE DEF p
<1> QED BY <1>1 DEF Part

LEMMA PartEmpty ==
    ASSUME NEW s
    PROVE  Part(<<>>, s)
<1> DEFINE p == [i \in {} |-> i]
<1>1. DOMAIN <<>> = {}
    BY EmptySeq
<1>2. p \in [{} -> DOMAIN s] /\ IsInjective(p)
    BY DEF IsInjective
<1> HIDE DEF p
<1> QED BY <1>1, <1>2 DEF Part

LEMMA PartTail ==
    ASSUME NEW S, NEW s \in Seq(S), s # <<>>
    PROVE  Part(Tail(s), s)
<1> DEFINE t == Tail(s)
           p == [i \in DOMAIN t |-> i + 1]
<1>1. /\ Len(s) \in Nat /\ Len(t) = Len(s) - 1 /\ Len(t) \in Nat
      /\ DOMAIN s = 1 .. Len(s) /\ DOMAIN t = 1 .. Len(t)
      /\ \A i \in 1 .. Len(t) : t[i] = s[i + 1]
    BY HeadTailProperties, EmptySeq, LenProperties
<1> HIDE DEF t
<1>2. p \in [DOMAIN t -> DOMAIN s] /\ IsInjective(p) /\ \A i \in DOMAIN t : t[i] = s[p[i]]
    BY <1>1 DEF IsInjective
<1> HIDE DEF p
<1>3. Part(t, s)
    BY <1>2 DEF Part
<1> QED BY <1>3 DEF t

LEMMA PartRemains ==
    ASSUME NEW S, NEW s \in Seq(S), NEW r \in Remains(s)
    PROVE  Part(r, s)
<1>1. PICK p \in UNION {[1 .. n -> DOMAIN s] : n \in 0 .. Len(s)} :
        /\ \A i, j \in DOMAIN p : i < j => p[i] < p[j]
        /\ r = [i \in DOMAIN p |-> s[p[i]]]
    BY DEF Remains
<1>2. PICK n \in 0 .. Len(s) : p \in [1 .. n -> DOMAIN s]
    BY <1>1
<1>3. DOMAIN s = 1 .. Len(s) /\ Len(s) \in Nat /\ n \in Nat
    BY LenProperties
<1>4. DOMAIN r = 1 .. n /\ p \in [DOMAIN r -> DOMAIN s] /\ \A i \in DOMAIN r : r[i] = s[p[i]]
    BY <1>1, <1>2
<1>5. \A i \in 1 .. n : p[i] \in Nat
    BY <1>2, <1>3
<1>6. \A i, j \in 1 .. n : p[i] = p[j] => i = j
    <2> SUFFICES ASSUME NEW i \in 1 .. n, NEW j \in 1 .. n, p[i] = p[j], i # j PROVE FALSE
        OBVIOUS
    <2>1. p[i] \in Nat /\ p[j] \in Nat /\ DOMAIN p = 1 .. n
        BY <1>2, <1>5
    <2>2. i < j \/ j < i
        BY <1>3
    <2>3. p[i] < p[j] \/ p[j] < p[i]
        BY <1>1, <2>1, <2>2
    <2> QED BY <2>1, <2>3
<1>7. IsInjective(p)
    BY <1>2, <1>6 DEF IsInjective
<1> QED BY <1>4, <1>7 DEF Part

(* What is taken out of lines doubles nothing.                             *)
LEMMA Cut ==
    ASSUME NEW n, NEW h, Single(h, n), NEW g \in [Lines -> Seq(Nat)],
           \A l \in Lines : Part(g[l], h[l])
    PROVE  Single(g, n) /\ \A x : Absent(h, x) => Absent(g, x)
<1>1. \A l \in Lines : \A i \in DOMAIN g[l] : \E j \in DOMAIN h[l] : g[l][i] = h[l][j]
    <2> SUFFICES ASSUME NEW l \in Lines, NEW i \in DOMAIN g[l]
                 PROVE  \E j \in DOMAIN h[l] : g[l][i] = h[l][j]
        OBVIOUS
    <2>1. PICK p \in [DOMAIN g[l] -> DOMAIN h[l]] : \A m \in DOMAIN g[l] : g[l][m] = h[l][p[m]]
        BY DEF Part
    <2> QED BY <2>1
<1>2. \A l \in Lines : \A i \in DOMAIN g[l] : g[l][i] <= n
    BY <1>1 DEF Single
<1>3. ASSUME NEW l \in Lines, NEW k \in Lines, NEW i \in DOMAIN g[l], NEW j \in DOMAIN g[k],
             g[l][i] = g[k][j], g[l][i] # NoFeed
      PROVE  l = k /\ i = j
    <2>1. l = k
        BY <1>1, <1>3 DEF Single
    <2>2. PICK p \in [DOMAIN g[l] -> DOMAIN h[l]] :
            IsInjective(p) /\ \A m \in DOMAIN g[l] : g[l][m] = h[l][p[m]]
        BY DEF Part
    <2>3. p[i] = p[j]
        BY <1>3, <2>1, <2>2 DEF Single
    <2>4. i = j
        BY <2>1, <2>2, <2>3 DEF IsInjective
    <2> QED BY <2>1, <2>4
<1>4. \A x : Absent(h, x) => Absent(g, x)
    BY <1>1 DEF Absent
<1> QED BY <1>2, <1>3, <1>4 DEF Single

(* Nor does what comes at the end of a line and is nowhere else.           *)
LEMMA Pushed ==
    ASSUME NEW n \in Nat, NEW h, Single(h, n), NEW k \in Lines, NEW x \in 0 .. n, Absent(h, x),
           NEW g, g = [h EXCEPT ![k] = Append(h[k], x)]
    PROVE  Single(g, n)
<1> DEFINE s == h[k]
           t == Append(s, x)
<1>1. h \in [Lines -> Seq(Nat)] /\ s \in Seq(Nat) /\ x \in Nat
    BY DEF Single
<1>2. /\ t \in Seq(Nat) /\ Len(s) \in Nat /\ Len(t) = Len(s) + 1
      /\ DOMAIN s = 1 .. Len(s) /\ DOMAIN t = 1 .. Len(s) + 1
      /\ \A i \in 1 .. Len(s) : t[i] = s[i]
      /\ t[Len(s) + 1] = x
    BY <1>1, AppendProperties, LenProperties
<1>3. g = [h EXCEPT ![k] = t]
    OBVIOUS
<1> HIDE DEF t
<1>4. g \in [Lines -> Seq(Nat)] /\ \A l \in Lines : g[l] = IF l = k THEN t ELSE h[l]
    BY <1>1, <1>2, <1>3
<1> DEFINE e == Len(s) + 1
<1>5. \A i \in DOMAIN t : i \in DOMAIN s \/ i = e
    BY <1>2
<1>6. ASSUME NEW l \in Lines, NEW i \in DOMAIN g[l]
      PROVE  (i \in DOMAIN h[l] /\ g[l][i] = h[l][i]) \/ (l = k /\ i = e /\ g[l][i] = x)
    <2>1. CASE l # k
        BY <1>4, <2>1
    <2>2. CASE l = k /\ i \in DOMAIN s
        BY <1>2, <1>4, <2>2
    <2>3. CASE l = k /\ i = e
        BY <1>2, <1>4, <2>3
    <2> QED BY <1>4, <1>5, <2>1, <2>2, <2>3
<1> HIDE DEF e, s
<1>7. \A l \in Lines : \A i \in DOMAIN g[l] : g[l][i] <= n
    BY <1>6 DEF Single
<1>8. ASSUME NEW l \in Lines, NEW m \in Lines, NEW i \in DOMAIN g[l], NEW j \in DOMAIN g[m],
             g[l][i] = g[m][j], g[l][i] # NoFeed
      PROVE  l = m /\ i = j
    <2>1. CASE i \in DOMAIN h[l] /\ g[l][i] = h[l][i] /\ j \in DOMAIN h[m] /\ g[m][j] = h[m][j]
        BY <1>8, <2>1 DEF Single
    <2>2. CASE i \in DOMAIN h[l] /\ g[l][i] = h[l][i] /\ g[m][j] = x
        BY <1>8, <2>2 DEF Absent
    <2>3. CASE j \in DOMAIN h[m] /\ g[m][j] = h[m][j] /\ g[l][i] = x
        BY <1>8, <2>3 DEF Absent
    <2>4. CASE l = k /\ i = e /\ m = k /\ j = e
        BY <2>4
    <2> QED BY <1>6, <2>1, <2>2, <2>3, <2>4
<1> QED BY <1>4, <1>7, <1>8 DEF Single

(* A new feed comes, and others may go.                                    *)
LEMMA Comes ==
    ASSUME NEW n \in Nat, NEW h, Single(h, n), NEW k \in Lines, NEW x \in 0 .. n, Absent(h, x),
           NEW g \in [Lines -> Seq(Nat)], g[k] = Append(h[k], x),
           \A l \in Lines \ {k} : Part(g[l], h[l])
    PROVE  Single(g, n)
<1> DEFINE f == [g EXCEPT ![k] = h[k]]
<1>1. h[k] \in Seq(Nat)
    BY DEF Single
<1>2. f \in [Lines -> Seq(Nat)] /\ \A l \in Lines : f[l] = IF l = k THEN h[k] ELSE g[l]
    BY <1>1
<1>3. g = [f EXCEPT ![k] = Append(f[k], x)]
    BY <1>2
<1> HIDE DEF f
<1>4. \A l \in Lines : Part(f[l], h[l])
    BY <1>2, PartSame
<1>5. Single(f, n) /\ Absent(f, x)
    BY <1>2, <1>4, Cut
<1> QED BY <1>3, <1>5, Pushed

(* The first feed of a line goes to the end of another, and others may go. *)
LEMMA Moves ==
    ASSUME NEW n \in Nat, NEW h, Single(h, n), NEW l \in Lines, NEW k \in Lines, l # k,
           h[l] # <<>>, NEW g \in [Lines -> Seq(Nat)], g[k] = Append(h[k], Head(h[l])),
           Part(g[l], Tail(h[l])), \A m \in Lines \ {l, k} : Part(g[m], h[m])
    PROVE  Single(g, n)
<1> DEFINE x == Head(h[l])
           t == Tail(h[l])
           f == [h EXCEPT ![l] = t]
<1>1. h \in [Lines -> Seq(Nat)] /\ h[l] \in Seq(Nat)
    BY DEF Single
<1>2. /\ t \in Seq(Nat) /\ Len(h[l]) \in Nat /\ Len(h[l]) >= 1 /\ Len(t) = Len(h[l]) - 1
      /\ x = h[l][1] /\ \A i \in 1 .. Len(t) : t[i] = h[l][i + 1]
      /\ DOMAIN h[l] = 1 .. Len(h[l]) /\ DOMAIN t = 1 .. Len(t) /\ Len(t) \in Nat
    BY <1>1, HeadTailProperties, EmptySeq, LenProperties
<1>3. x \in 0 .. n
    <2>1. 1 \in DOMAIN h[l]
        BY <1>2
    <2>2. h[l][1] <= n /\ h[l][1] \in Nat
        BY <1>1, <1>2, <2>1, ElementOfSeq DEF Single
    <2> QED BY <1>2, <2>2
<1>4. Part(t, h[l])
    BY <1>1, PartTail
<1>5. f \in [Lines -> Seq(Nat)] /\ \A m \in Lines : f[m] = IF m = l THEN t ELSE h[m]
    BY <1>1, <1>2
<1> HIDE DEF f, t, x
<1>6. Single(f, n)
    BY <1>4, <1>5, PartSame, Cut
<1>7. Absent(f, x)
    <2> SUFFICES ASSUME x # NoFeed, NEW m \in Lines, NEW i \in DOMAIN f[m], f[m][i] = x
                 PROVE  FALSE
        BY DEF Absent
    <2>1. 1 \in DOMAIN h[l] /\ h[l][1] = x
        BY <1>2
    <2>2. CASE m # l
        BY <1>5, <2>1, <2>2 DEF Single
    <2>3. CASE m = l
        <3>1. i \in 1 .. Len(t) /\ t[i] = x
            BY <1>2, <1>5, <2>3
        <3>2. i + 1 \in 1 .. Len(h[l]) /\ i + 1 # 1
            <4>1. i \in 1 .. Len(t)
                BY <3>1
            <4>2. Len(h[l]) \in Nat /\ Len(t) = Len(h[l]) - 1
                BY <1>2
            <4> QED BY <4>1, <4>2
        <3>3. i + 1 \in DOMAIN h[l] /\ i + 1 # 1 /\ h[l][i + 1] = x
            BY <1>2, <3>1, <3>2
        <3> QED BY <2>1, <3>3 DEF Single
    <2> QED BY <2>2, <2>3
<1>8. g[k] = Append(f[k], x) /\ \A m \in Lines \ {k} : Part(g[m], f[m])
    BY <1>5 DEF x, t
<1> QED BY <1>3, <1>6, <1>7, <1>8, Comes

(* The lines of a state.                                                   *)
Held == [l \in Lines |-> Line(l)]

LEMMA HeldIs ==
    /\ DOMAIN Held = Lines
    /\ \A w \in Works :
         /\ <<"req", w>> \in Lines /\ Held[<<"req", w>>] = FeedsIn(req[w])
         /\ <<"busy", w>> \in Lines /\ Held[<<"busy", w>>] = FeedsIn(busy[w])
         /\ <<"cache", w>> \in Lines /\ Held[<<"cache", w>>] = cache[w]
         /\ <<"resp", w>> \in Lines /\ Held[<<"resp", w>>] = FeedsIn(resp[w])
    /\ \A c \in ConnIds : <<"out", c>> \in Lines /\ Held[<<"out", c>>] = FeedsIn(out[c])
    /\ <<"delivered", 0>> \in Lines /\ Held[<<"delivered", 0>>] = delivered
BY DEF Held, Lines, Line

LEMMA HeldBecomes ==
    /\ DOMAIN Held' = Lines
    /\ \A w \in Works :
         /\ Held'[<<"req", w>>] = FeedsIn(req'[w])
         /\ Held'[<<"busy", w>>] = FeedsIn(busy'[w])
         /\ Held'[<<"cache", w>>] = cache'[w]
         /\ Held'[<<"resp", w>>] = FeedsIn(resp'[w])
    /\ \A c \in ConnIds : Held'[<<"out", c>>] = FeedsIn(out'[c])
    /\ Held'[<<"delivered", 0>>] = delivered'
BY DEF Held, Lines, Line

LEMMA LineIs ==
    ASSUME NEW l \in Lines
    PROVE  \/ \E w \in Works : \/ l = <<"req", w>> \/ l = <<"busy", w>>
                               \/ l = <<"cache", w>> \/ l = <<"resp", w>>
           \/ \E c \in ConnIds : l = <<"out", c>>
           \/ l = <<"delivered", 0>>
BY DEF Lines

LEMMA FeedsOfMessages ==
    ASSUME NEW S, \A m \in S : FeedOf(m) \in Nat, NEW s \in Seq(S)
    PROVE  /\ FeedsIn(s) \in Seq(Nat)
           /\ s # <<>> => /\ FeedsIn(s) # <<>> /\ Head(FeedsIn(s)) = FeedOf(Head(s))
                          /\ Tail(FeedsIn(s)) = FeedsIn(Tail(s))
           /\ \A m \in S : FeedsIn(Append(s, m)) = Append(FeedsIn(s), FeedOf(m))
<1> DEFINE r == FeedsIn(s)
<1>1. /\ Len(s) \in Nat /\ DOMAIN s = 1 .. Len(s) /\ \A i \in 1 .. Len(s) : s[i] \in S
    BY LenProperties, ElementOfSeq
<1>2. r = [i \in 1 .. Len(s) |-> FeedOf(s[i])]
    BY <1>1 DEF FeedsIn
<1>3. r \in [1 .. Len(s) -> Nat]
    BY <1>1, <1>2
<1>4. r \in Seq(Nat)
    BY <1>1, <1>3, SeqDef
<1>5. DOMAIN r = 1 .. Len(s)
    BY <1>2
<1>6. Len(r) = Len(s)
    BY <1>1, <1>4, <1>5, LenProperties
<1> HIDE DEF r
<1>7. ASSUME s # <<>>
      PROVE  r # <<>> /\ Head(r) = FeedOf(Head(s)) /\ Tail(r) = FeedsIn(Tail(s))
    <2> DEFINE t == Tail(s)
               q == Tail(r)
    <2>1. /\ t \in Seq(S) /\ Len(t) = Len(s) - 1 /\ Head(s) = s[1] /\ Len(s) >= 1
          /\ DOMAIN t = 1 .. Len(t) /\ Len(t) \in Nat
          /\ \A i \in 1 .. Len(t) : t[i] = s[i + 1]
        BY <1>1, <1>7, HeadTailProperties, EmptySeq, LenProperties
    <2>2. r # <<>>
        BY <1>6, <2>1, EmptySeq
    <2>3. /\ q \in Seq(Nat) /\ Len(q) = Len(r) - 1 /\ Head(r) = r[1]
          /\ DOMAIN q = 1 .. Len(q) /\ Len(q) \in Nat
          /\ \A i \in 1 .. Len(q) : q[i] = r[i + 1]
        BY <1>4, <2>2, HeadTailProperties, EmptySeq, LenProperties
    <2> HIDE DEF t, q
    <2>4. Head(r) = FeedOf(Head(s))
        BY <1>2, <2>1, <2>3
    <2>5. FeedsIn(t) = [i \in 1 .. Len(t) |-> FeedOf(t[i])]
        BY <2>1 DEF FeedsIn
    <2>6. \A i \in 1 .. Len(t) : q[i] = FeedOf(t[i])
        <3> SUFFICES ASSUME NEW i \in 1 .. Len(t) PROVE q[i] = FeedOf(t[i])
            OBVIOUS
        <3>1. i \in 1 .. Len(q) /\ i + 1 \in 1 .. Len(s)
            BY <1>6, <2>1, <2>3
        <3> QED BY <1>2, <2>1, <2>3, <3>1
    <2>7. q = [i \in 1 .. Len(t) |-> q[i]]
        <3>1. q = [i \in 1 .. Len(q) |-> q[i]]
            BY <2>3, LenProperties
        <3>2. Len(q) = Len(t)
            BY <1>6, <2>1, <2>3
        <3> QED BY <3>1, <3>2
    <2>8. q = FeedsIn(t)
        BY <2>5, <2>6, <2>7
    <2> QED BY <2>2, <2>4, <2>8 DEF t, q
<1>8. ASSUME NEW m \in S
      PROVE  FeedsIn(Append(s, m)) = Append(r, FeedOf(m))
    <2> DEFINE t == Append(s, m)
               q == Append(r, FeedOf(m))
    <2>0. FeedOf(m) \in Nat
        OBVIOUS
    <2>1. /\ t \in Seq(S) /\ Len(t) = Len(s) + 1 /\ DOMAIN t = 1 .. Len(t)
          /\ \A i \in 1 .. Len(s) : t[i] = s[i]
          /\ t[Len(s) + 1] = m
        BY AppendProperties, LenProperties
    <2>2. /\ q \in Seq(Nat) /\ Len(q) = Len(r) + 1 /\ DOMAIN q = 1 .. Len(q)
          /\ \A i \in 1 .. Len(r) : q[i] = r[i]
          /\ q[Len(r) + 1] = FeedOf(m)
        BY <1>4, <2>0, AppendProperties, LenProperties
    <2> HIDE DEF t, q
    <2>3. FeedsIn(t) = [i \in 1 .. Len(t) |-> FeedOf(t[i])]
        BY <2>1 DEF FeedsIn
    <2>4. \A i \in 1 .. Len(t) : q[i] = FeedOf(t[i])
        <3> SUFFICES ASSUME NEW i \in 1 .. Len(t) PROVE q[i] = FeedOf(t[i])
            OBVIOUS
        <3>1. CASE i \in 1 .. Len(s)
            BY <1>2, <1>6, <2>1, <2>2, <3>1
        <3>2. CASE i = Len(s) + 1
            BY <1>6, <2>1, <2>2, <3>2
        <3>3. i \in 1 .. Len(s) \/ i = Len(s) + 1
            BY <1>1, <2>1
        <3> QED BY <3>1, <3>2, <3>3
    <2>5. q = [i \in 1 .. Len(t) |-> q[i]]
        <3>1. q = [i \in 1 .. Len(q) |-> q[i]]
            BY <2>2, LenProperties
        <3>2. Len(q) = Len(t)
            BY <1>6, <2>1, <2>2
        <3> QED BY <3>1, <3>2
    <2> QED BY <2>3, <2>4, <2>5 DEF t, q
<1> QED BY <1>4, <1>7, <1>8 DEF r

LEMMA NoMessages == FeedsIn(<<>>) = <<>>
<1>1. DOMAIN <<>> = {} /\ <<>> = [i \in {} |-> FeedOf(<<>>[i])]
    OBVIOUS
<1> QED BY <1>1 DEF FeedsIn

LEMMA FeedOfMessage ==
    /\ \A f : FeedOf(So(f)) = f
    /\ \A c : FeedOf(Pull(c)) = NoFeed
    /\ \A c, f : FeedOf(Answer(c, f)) = f
    /\ \A m \in Requests : FeedOf(m) \in Nat
    /\ \A m \in Answers : FeedOf(m) \in Nat /\ FeedOf(m) = m.feed
<1>1. \A f : FeedOf(So(f)) = f
    BY DEF FeedOf, So
<1>2. \A c : FeedOf(Pull(c)) = NoFeed
    BY DEF FeedOf, Pull
<1>3. \A c, f : FeedOf(Answer(c, f)) = f
    BY DEF FeedOf, Answer
<1>4. \A m \in Requests : FeedOf(m) \in Nat
    BY <1>1, <1>2 DEF Requests, Feeds, NoFeed
<1>5. \A m \in Answers : FeedOf(m) \in Nat /\ FeedOf(m) = m.feed
    <2> SUFFICES ASSUME NEW m \in Answers PROVE FeedOf(m) \in Nat /\ FeedOf(m) = m.feed
        OBVIOUS
    <2>1. PICK c \in ConnIds : \E f \in Feeds \cup {NoFeed} : m = Answer(c, f)
        BY DEF Answers
    <2>2. PICK f \in Feeds \cup {NoFeed} : m = Answer(c, f)
        BY <2>1
    <2>3. FeedOf(m) = f /\ m.feed = f /\ f \in Nat
        BY <1>3, <2>2 DEF Answer, Feeds, NoFeed
    <2> QED BY <2>3
<1> QED BY <1>1, <1>2, <1>3, <1>4, <1>5

(* The lines of any state the server is in hold numbers.                   *)
LEMMA HeldType ==
    ASSUME IInv
    PROVE  Held \in [Lines -> Seq(Nat)]
<1>1. /\ req \in [Works -> Seq(Requests)] /\ resp \in [Works -> Seq(Answers)]
      /\ busy \in [Works -> Seq(Requests)] /\ cache \in [Works -> Seq(Feeds)]
      /\ out \in [ConnIds -> Seq(Answers)] /\ delivered \in Seq(Feeds)
    BY DEF IInv, Queues, Buffers
<1>2. /\ \A s \in Seq(Requests) : FeedsIn(s) \in Seq(Nat)
      /\ \A s \in Seq(Answers) : FeedsIn(s) \in Seq(Nat)
    BY FeedsOfMessages, FeedOfMessage
<1>3. \A s \in Seq(Feeds) : s \in Seq(Nat)
    <2> SUFFICES ASSUME NEW s \in Seq(Feeds) PROVE s \in Seq(Nat)
        OBVIOUS
    <2>1. Len(s) \in Nat /\ s \in [1 .. Len(s) -> Feeds]
        BY LenProperties
    <2>2. s \in [1 .. Len(s) -> Nat]
        BY <2>1 DEF Feeds
    <2> QED BY <2>1, <2>2, SeqDef
<1>4. ASSUME NEW l \in Lines PROVE Held[l] \in Seq(Nat)
    <2>1. CASE \E w \in Works : \/ l = <<"req", w>> \/ l = <<"busy", w>>
                                 \/ l = <<"cache", w>> \/ l = <<"resp", w>>
        <3>1. PICK w \in Works : \/ l = <<"req", w>> \/ l = <<"busy", w>>
                                 \/ l = <<"cache", w>> \/ l = <<"resp", w>>
            BY <2>1
        <3>2. /\ req[w] \in Seq(Requests) /\ busy[w] \in Seq(Requests)
              /\ resp[w] \in Seq(Answers) /\ cache[w] \in Seq(Feeds)
            BY <1>1
        <3>3. CASE l = <<"req", w>>
            BY <1>2, <3>2, <3>3, HeldIs
        <3>4. CASE l = <<"busy", w>>
            BY <1>2, <3>2, <3>4, HeldIs
        <3>5. CASE l = <<"cache", w>>
            BY <1>3, <3>2, <3>5, HeldIs
        <3>6. CASE l = <<"resp", w>>
            BY <1>2, <3>2, <3>6, HeldIs
        <3> QED BY <3>1, <3>3, <3>4, <3>5, <3>6
    <2>2. CASE \E c \in ConnIds : l = <<"out", c>>
        BY <1>1, <1>2, <2>2, HeldIs
    <2>3. CASE l = <<"delivered", 0>>
        BY <1>1, <1>3, <2>3, HeldIs
    <2> QED BY <2>1, <2>2, <2>3, LineIs
<1> QED BY <1>4, HeldIs DEF Held

LEMMA HeldTypeNext == IInv' => Held' \in [Lines -> Seq(Nat)]
<1>1. IInv => Held \in [Lines -> Seq(Nat)]
    BY HeldType
<1>2. IInv' => (Held \in [Lines -> Seq(Nat)])'
    BY <1>1, PTL
<1>3. Lines' = Lines
    BY DEF Lines, Works
<1> QED BY <1>2, <1>3

OneAtMost == Single(Held, sent)

LEMMA SingleUp ==
    ASSUME NEW n \in Nat, NEW m \in Nat, n <= m, NEW h, Single(h, n)
    PROVE  Single(h, m)
<1>1. \A l \in Lines : \A i \in DOMAIN h[l] : h[l][i] \in Nat /\ h[l][i] <= n
    <2> SUFFICES ASSUME NEW l \in Lines, NEW i \in DOMAIN h[l]
                 PROVE  h[l][i] \in Nat /\ h[l][i] <= n
        OBVIOUS
    <2>1. h[l] \in Seq(Nat)
        BY DEF Single
    <2> QED BY <2>1, LenProperties, ElementOfSeq DEF Single
<1>2. \A l \in Lines : \A i \in DOMAIN h[l] : h[l][i] <= m
    <2> SUFFICES ASSUME NEW l \in Lines, NEW i \in DOMAIN h[l] PROVE h[l][i] <= m
        OBVIOUS
    <2>1. h[l][i] \in Nat /\ h[l][i] <= n
        BY <1>1
    <2> QED BY <2>1
<1> QED BY <1>2 DEF Single

LEMMA OneAtMostNext ==
    ASSUME Single(Held', sent')
    PROVE  OneAtMost'
BY DEF OneAtMost, Single, Lines, Works

(* Lines only lose feeds.                                                  *)
LEMMA LessHeld ==
    ASSUME IInv, IInv', OneAtMost, \A l \in Lines : Part(Held'[l], Held[l]), sent <= sent'
    PROVE  OneAtMost'
<1>1. Held' \in [Lines -> Seq(Nat)] /\ sent \in Nat /\ sent' \in Nat
    BY HeldTypeNext DEF IInv, Buffers
<1> DEFINE h == Held
           g == Held'
<1>2. Single(h, sent) /\ g \in [Lines -> Seq(Nat)] /\ \A l \in Lines : Part(g[l], h[l])
    BY <1>1 DEF OneAtMost
<1> HIDE DEF h, g
<1>3. Single(g, sent')
    BY <1>1, <1>2, Cut, SingleUp
<1> QED BY <1>3, OneAtMostNext DEF g

(* The first feed of a line goes to the end of another one.                *)
LEMMA MovesHeld ==
    ASSUME IInv, IInv', OneAtMost, NEW l \in Lines, NEW k \in Lines, l # k, Held[l] # <<>>,
           Held'[k] = Append(Held[k], Head(Held[l])), Part(Held'[l], Tail(Held[l])),
           \A m \in Lines \ {l, k} : Part(Held'[m], Held[m]), sent' = sent
    PROVE  OneAtMost'
<1>1. Held' \in [Lines -> Seq(Nat)] /\ sent \in Nat
    BY HeldTypeNext DEF IInv, Buffers
<1> DEFINE h == Held
           g == Held'
<1>2. /\ Single(h, sent) /\ g \in [Lines -> Seq(Nat)] /\ h[l] # <<>>
      /\ g[k] = Append(h[k], Head(h[l])) /\ Part(g[l], Tail(h[l]))
      /\ \A m \in Lines \ {l, k} : Part(g[m], h[m])
    BY <1>1 DEF OneAtMost
<1> HIDE DEF h, g
<1>3. Single(g, sent)
    BY <1>1, <1>2, Moves
<1> QED BY <1>3, OneAtMostNext DEF g

(* A message without a feed comes, or one with a new feed.                 *)
LEMMA ComesHeld ==
    ASSUME IInv, IInv', OneAtMost, NEW k \in Lines, NEW x, x = NoFeed \/ x = sent + 1,
           Held'[k] = Append(Held[k], x), \A m \in Lines \ {k} : Part(Held'[m], Held[m]),
           sent' = IF x = NoFeed THEN sent ELSE x
    PROVE  OneAtMost'
<1>1. /\ Held' \in [Lines -> Seq(Nat)] /\ sent \in Nat /\ sent' \in Nat /\ sent <= sent'
      /\ x \in 0 .. sent'
    <2>1. sent \in Nat
        BY DEF IInv, Buffers
    <2> QED BY <2>1, HeldTypeNext DEF NoFeed
<1> DEFINE h == Held
           g == Held'
<1>2. /\ Single(h, sent) /\ g \in [Lines -> Seq(Nat)]
      /\ g[k] = Append(h[k], x) /\ \A m \in Lines \ {k} : Part(g[m], h[m])
    BY <1>1 DEF OneAtMost
<1> HIDE DEF h, g
<1>3. Absent(h, x)
    <2> SUFFICES ASSUME x = sent + 1, NEW l \in Lines, NEW i \in DOMAIN h[l] PROVE h[l][i] # x
        BY DEF Absent
    <2>1. h[l] \in Seq(Nat) /\ h[l][i] <= sent
        BY <1>2 DEF Single
    <2>2. h[l][i] \in Nat
        BY <2>1, LenProperties, ElementOfSeq
    <2> QED BY <1>1, <2>1, <2>2
<1>4. Single(h, sent')
    BY <1>1, <1>2, SingleUp
<1>5. Single(g, sent')
    BY <1>1, <1>2, <1>3, <1>4, Comes
<1> QED BY <1>5, OneAtMostNext DEF g

(* What a step leaves of each line but those in X.                         *)
LEMMA PartsBut ==
    ASSUME NEW X,
           \A w \in Works :
             /\ <<"req", w>> \in X \/ Part(FeedsIn(req'[w]), FeedsIn(req[w]))
             /\ <<"busy", w>> \in X \/ Part(FeedsIn(busy'[w]), FeedsIn(busy[w]))
             /\ <<"cache", w>> \in X \/ Part(cache'[w], cache[w])
             /\ <<"resp", w>> \in X \/ Part(FeedsIn(resp'[w]), FeedsIn(resp[w])),
           \A c \in ConnIds : <<"out", c>> \in X \/ Part(FeedsIn(out'[c]), FeedsIn(out[c])),
           <<"delivered", 0>> \in X \/ Part(delivered', delivered)
    PROVE  \A l \in Lines \ X : Part(Held'[l], Held[l])
<1> SUFFICES ASSUME NEW l \in Lines, l \notin X PROVE Part(Held'[l], Held[l])
    OBVIOUS
<1>1. ASSUME NEW w \in Works, \/ l = <<"req", w>> \/ l = <<"busy", w>>
                              \/ l = <<"cache", w>> \/ l = <<"resp", w>>
      PROVE  Part(Held'[l], Held[l])
    <2>1. CASE l = <<"req", w>>
        BY <2>1, HeldIs, HeldBecomes
    <2>2. CASE l = <<"busy", w>>
        BY <2>2, HeldIs, HeldBecomes
    <2>3. CASE l = <<"cache", w>>
        BY <2>3, HeldIs, HeldBecomes
    <2>4. CASE l = <<"resp", w>>
        BY <2>4, HeldIs, HeldBecomes
    <2> QED BY <1>1, <2>1, <2>2, <2>3, <2>4
<1>2. ASSUME NEW c \in ConnIds, l = <<"out", c>> PROVE Part(Held'[l], Held[l])
    BY <1>2, HeldIs, HeldBecomes
<1>3. CASE l = <<"delivered", 0>>
    BY <1>3, HeldIs, HeldBecomes
<1> QED BY <1>1, <1>2, <1>3, LineIs

LEMMA PartsHeld ==
    ASSUME \A w \in Works : /\ Part(FeedsIn(req'[w]), FeedsIn(req[w]))
                            /\ Part(FeedsIn(busy'[w]), FeedsIn(busy[w]))
                            /\ Part(cache'[w], cache[w])
                            /\ Part(FeedsIn(resp'[w]), FeedsIn(resp[w])),
           \A c \in ConnIds : Part(FeedsIn(out'[c]), FeedsIn(out[c])),
           Part(delivered', delivered)
    PROVE  \A l \in Lines : Part(Held'[l], Held[l])
<1>1. \A l \in Lines \ {} : Part(Held'[l], Held[l])
    BY PartsBut
<1> QED BY <1>1

(* A connection that is closed, or kept.                                   *)
LEMMA OutsLess ==
    ASSUME IInv, NEW c \in ConnIds, Forget(c) \/ out' = out
    PROVE  \A d \in ConnIds : Part(FeedsIn(out'[d]), FeedsIn(out[d]))
<1>1. out \in [ConnIds -> Seq(Answers)]
    BY DEF IInv, Buffers
<1>2. CASE Forget(c)
    <2>1. \A d \in ConnIds : out'[d] = IF d = c THEN <<>> ELSE out[d]
        BY <1>1, <1>2 DEF Forget
    <2> QED BY <2>1, NoMessages, PartEmpty, PartSame
<1>3. CASE out' = out
    BY <1>3, PartSame
<1> QED BY <1>2, <1>3

LEMMA TailLess ==
    /\ \A s \in Seq(Requests) : s # <<>> => Part(FeedsIn(Tail(s)), FeedsIn(s))
    /\ \A s \in Seq(Answers) : s # <<>> => Part(FeedsIn(Tail(s)), FeedsIn(s))
<1>1. ASSUME NEW S, \A m \in S : FeedOf(m) \in Nat, NEW s \in Seq(S), s # <<>>
      PROVE  Part(FeedsIn(Tail(s)), FeedsIn(s))
    <2>1. FeedsIn(s) \in Seq(Nat) /\ FeedsIn(s) # <<>> /\ Tail(FeedsIn(s)) = FeedsIn(Tail(s))
        BY <1>1, FeedsOfMessages
    <2>2. Part(Tail(FeedsIn(s)), FeedsIn(s))
        BY <2>1, PartTail
    <2> QED BY <2>1, <2>2
<1> QED BY <1>1, FeedOfMessage

(* Steps that take feeds out of lines only.                                *)
LEMMA QueuesStay ==
    ASSUME IInv, IInv', OneAtMost, UNCHANGED <<req, busy, cache, delivered, sent>>,
           \/ resp' = resp
           \/ resp' = [w \in Works |-> <<>>]
           \/ \E w \in Works : resp[w] # <<>> /\ resp' = [resp EXCEPT ![w] = Tail(@)],
           \A c \in ConnIds : Part(FeedsIn(out'[c]), FeedsIn(out[c]))
    PROVE  OneAtMost'
<1>1. /\ resp \in [Works -> Seq(Answers)] /\ sent \in Nat
    BY DEF IInv, Queues, Buffers
<1>2. \A w \in Works : Part(FeedsIn(resp'[w]), FeedsIn(resp[w]))
    <2>1. CASE resp' = resp
        BY <2>1, PartSame
    <2>2. CASE resp' = [w \in Works |-> <<>>]
        <3>1. \A w \in Works : resp'[w] = <<>>
            BY <2>2
        <3> QED BY <3>1, NoMessages, PartEmpty
    <2>3. ASSUME NEW w \in Works, resp[w] # <<>>, resp' = [resp EXCEPT ![w] = Tail(@)]
          PROVE  \A v \in Works : Part(FeedsIn(resp'[v]), FeedsIn(resp[v]))
        <3>1. Part(FeedsIn(Tail(resp[w])), FeedsIn(resp[w]))
            BY <1>1, <2>3, TailLess
        <3>2. \A v \in Works : resp'[v] = IF v = w THEN Tail(resp[w]) ELSE resp[v]
            BY <1>1, <2>3
        <3> QED BY <3>1, <3>2, PartSame
    <2> QED BY <2>1, <2>2, <2>3
<1>3. \A l \in Lines : Part(Held'[l], Held[l])
    BY <1>2, PartSame, PartsHeld
<1>4. sent <= sent'
    BY <1>1
<1> QED BY <1>3, <1>4, LessHeld

LEMMA OutsGone ==
    ASSUME NetGone
    PROVE  \A c \in ConnIds : Part(FeedsIn(out'[c]), FeedsIn(out[c]))
<1>1. \A c \in ConnIds : out'[c] = <<>>
    BY DEF NetGone
<1> QED BY <1>1, NoMessages, PartEmpty

LEMMA WorkLosesHeld ==
    ASSUME IInv, IInv', OneAtMost, NEW w \in Works, WorkLoses(w) \/ WorkDies(w)
    PROVE  OneAtMost'
<1>1. /\ busy \in [Works -> Seq(Requests)] /\ cache \in [Works -> Seq(Feeds)] /\ sent \in Nat
    BY DEF IInv, Queues, Buffers
<1>2. /\ UNCHANGED <<req, resp, out, delivered, sent>>
      /\ busy' = [busy EXCEPT ![w] = <<>>]
    BY DEF WorkLoses, WorkDies, server, history
<1>3. \A v \in Works : Part(cache'[v], cache[v])
    <2>1. CASE cache' = cache
        BY <2>1, PartSame
    <2>2. ASSUME NEW kept \in Remains(cache[w]), cache' = [cache EXCEPT ![w] = kept]
          PROVE  \A v \in Works : Part(cache'[v], cache[v])
        <3>1. Part(kept, cache[w])
            BY <1>1, PartRemains
        <3> QED BY <1>1, <2>2, <3>1, PartSame
    <2> QED BY <2>1, <2>2 DEF WorkLoses, WorkDies
<1>4. \A v \in Works : Part(FeedsIn(busy'[v]), FeedsIn(busy[v]))
    <2>1. \A v \in Works : busy'[v] = IF v = w THEN <<>> ELSE busy[v]
        BY <1>1, <1>2
    <2> QED BY <2>1, NoMessages, PartEmpty, PartSame
<1>5. \A l \in Lines : Part(Held'[l], Held[l])
    BY <1>2, <1>3, <1>4, PartSame, PartsHeld
<1>6. sent <= sent'
    BY <1>1, <1>2
<1> QED BY <1>5, <1>6, LessHeld

(* Requests that come in.                                                  *)
LEMMA EnqueuedHeld ==
    ASSUME IInv, IInv', OneAtMost, NEW w \in Works, NEW r \in Requests,
           req' = [req EXCEPT ![w] = Append(@, r)],
           UNCHANGED <<resp, busy, cache, delivered>>,
           FeedOf(r) = NoFeed \/ FeedOf(r) = sent + 1,
           sent' = IF FeedOf(r) = NoFeed THEN sent ELSE FeedOf(r),
           \A c \in ConnIds : Part(FeedsIn(out'[c]), FeedsIn(out[c]))
    PROVE  OneAtMost'
<1> DEFINE k == <<"req", w>>
           x == FeedOf(r)
<1>1. req \in [Works -> Seq(Requests)] /\ req[w] \in Seq(Requests)
    BY DEF IInv, Queues
<1>2. \A v \in Works : req'[v] = IF v = w THEN Append(req[w], r) ELSE req[v]
    BY <1>1
<1>3. FeedsIn(Append(req[w], r)) = Append(FeedsIn(req[w]), x)
    BY <1>1, FeedsOfMessages, FeedOfMessage
<1>4. k \in Lines /\ Held'[k] = Append(Held[k], x)
    <2>1. k \in Lines /\ Held[k] = FeedsIn(req[w])
        BY HeldIs
    <2>2. Held'[k] = FeedsIn(req'[w])
        BY HeldBecomes
    <2> QED BY <1>2, <1>3, <2>1, <2>2
<1>5. \A m \in Lines \ {k} : Part(Held'[m], Held[m])
    <2>1. \A v \in Works : <<"req", v>> \in {k} \/ Part(FeedsIn(req'[v]), FeedsIn(req[v]))
        BY <1>2, PartSame
    <2> HIDE DEF k
    <2> QED BY <2>1, PartSame, PartsBut
<1> HIDE DEF k, x
<1>6. (x = NoFeed \/ x = sent + 1) /\ sent' = IF x = NoFeed THEN sent ELSE x
    BY DEF x
<1> QED BY <1>4, <1>5, <1>6, ComesHeld

LEMMA FeedRequestHeld ==
    ASSUME IInv, IInv', OneAtMost, NEW c \in ConnIds, FeedRequest(c)
    PROVE  OneAtMost'
<1>1. UNCHANGED <<resp, busy, cache, delivered, sent>>
    BY DEF FeedRequest
<1>2. CASE Registered(c) /\ Len(req[QueueOf(task_map[c])]) < QueueCap
    <2> DEFINE w == QueueOf(task_map[c])
    <2>1. w \in Works
        BY <1>2, Indices DEF IInv, Tasks, Registered
    <2>2. Pull(c) \in Requests /\ FeedOf(Pull(c)) = NoFeed
        BY FeedOfMessage DEF Requests
    <2>3. req' = [req EXCEPT ![w] = Append(@, Pull(c))] /\ out' = out
        BY <1>2 DEF FeedRequest, KeepConns
    <2> HIDE DEF w
    <2>4. \A d \in ConnIds : Part(FeedsIn(out'[d]), FeedsIn(out[d]))
        BY <2>3, PartSame
    <2> QED BY <1>1, <2>1, <2>2, <2>3, <2>4, EnqueuedHeld
<1>3. CASE ~ (Registered(c) /\ Len(req[QueueOf(task_map[c])]) < QueueCap)
    <2>1. Forget(c) /\ req' = req
        BY <1>3 DEF FeedRequest
    <2>2. \A d \in ConnIds : Part(FeedsIn(out'[d]), FeedsIn(out[d]))
        BY <2>1, OutsLess
    <2> QED BY <1>1, <2>1, <2>2, QueuesStay
<1> QED BY <1>2, <1>3

LEMMA SoRequestHeld ==
    ASSUME IInv, IInv', OneAtMost, NEW c \in ConnIds, SoRequest(c)
    PROVE  OneAtMost'
<1> DEFINE f == sent + 1
           w == Owner(f)
<1>1. UNCHANGED <<resp, busy, cache, delivered>> /\ sent' = f /\ sent \in Nat
    BY DEF SoRequest, IInv, Buffers
<1>2. f \in Nat /\ f \in Feeds /\ w \in Works /\ f # NoFeed
    <2>1. sent < MaxFeeds
        BY DEF SoRequest
    <2> QED BY <1>1, <2>1, Indices, FeedCacheAssumption DEF Feeds, NoFeed
<1>3. So(f) \in Requests /\ FeedOf(So(f)) = f
    BY <1>2, FeedOfMessage DEF Requests
<1>4. \A d \in ConnIds : Part(FeedsIn(out'[d]), FeedsIn(out[d]))
    BY OutsLess DEF SoRequest, KeepConns
<1>5. \/ req' = [req EXCEPT ![w] = Append(@, So(f))]
      \/ req' = req
    BY DEF SoRequest
<1> HIDE DEF w
<1>6. CASE req' = [req EXCEPT ![w] = Append(@, So(f))]
    BY <1>1, <1>2, <1>3, <1>4, <1>6, EnqueuedHeld
<1>7. CASE req' = req
    <2>1. \A l \in Lines : Part(Held'[l], Held[l])
        BY <1>1, <1>4, <1>7, PartSame, PartsHeld
    <2>2. sent <= sent'
        BY <1>1
    <2> QED BY <2>1, <2>2, LessHeld
<1> QED BY <1>5, <1>6, <1>7

(* The work process hands feeds from its request queue to its cache queue, *)
(* and from there to the answers.                                          *)
LEMMA WorkPopHeld ==
    ASSUME IInv, IInv', OneAtMost, NEW w \in Works, WorkPop(w)
    PROVE  OneAtMost'
<1> DEFINE l == <<"req", w>>
           k == <<"busy", w>>
           m == Head(req[w])
<1>1. /\ req \in [Works -> Seq(Requests)] /\ req[w] \in Seq(Requests)
      /\ busy \in [Works -> Seq(Requests)]
    BY DEF IInv, Queues
<1>2. /\ req[w] # <<>> /\ busy[w] = <<>>
      /\ busy' = [busy EXCEPT ![w] = <<m>>] /\ req' = [req EXCEPT ![w] = Tail(@)]
      /\ UNCHANGED <<resp, cache, out, delivered, sent>>
    BY DEF WorkPop, server, history, bounds
<1>3. m \in Requests
    BY <1>1, <1>2, TailRange
<1>4. /\ FeedsIn(req[w]) # <<>> /\ Head(FeedsIn(req[w])) = FeedOf(m)
      /\ Tail(FeedsIn(req[w])) = FeedsIn(Tail(req[w]))
    BY <1>1, <1>2, FeedsOfMessages, FeedOfMessage
<1>5. FeedsIn(<<m>>) = Append(FeedsIn(<<>>), FeedOf(m))
    <2>1. <<>> \in Seq(Requests) /\ Append(<<>>, m) = <<m>>
        BY EmptySeq
    <2>2. FeedsIn(Append(<<>>, m)) = Append(FeedsIn(<<>>), FeedOf(m))
        <3> HIDE DEF m
        <3> QED BY <1>3, <2>1, FeedsOfMessages, FeedOfMessage
    <2> QED BY <2>1, <2>2
<1>6. /\ \A v \in Works : req'[v] = IF v = w THEN Tail(req[w]) ELSE req[v]
      /\ \A v \in Works : busy'[v] = IF v = w THEN <<m>> ELSE busy[v]
    BY <1>1, <1>2
<1> HIDE DEF m
<1>7. l \in Lines /\ Held[l] = FeedsIn(req[w]) /\ Held'[l] = FeedsIn(Tail(req[w]))
    <2>1. l \in Lines /\ Held[l] = FeedsIn(req[w]) /\ Held'[l] = FeedsIn(req'[w])
        BY HeldIs, HeldBecomes
    <2> QED BY <1>6, <2>1
<1>8. k \in Lines /\ Held[k] = FeedsIn(<<>>) /\ Held'[k] = FeedsIn(<<m>>)
    <2>1. k \in Lines /\ Held[k] = FeedsIn(busy[w]) /\ Held'[k] = FeedsIn(busy'[w])
        BY HeldIs, HeldBecomes
    <2> QED BY <1>2, <1>6, <2>1
<1>9. \A x \in Lines \ {l, k} : Part(Held'[x], Held[x])
    <2>1. \A v \in Works : <<"req", v>> \in {l, k} \/ Part(FeedsIn(req'[v]), FeedsIn(req[v]))
        BY <1>6, PartSame
    <2>2. \A v \in Works : <<"busy", v>> \in {l, k} \/ Part(FeedsIn(busy'[v]), FeedsIn(busy[v]))
        BY <1>6, PartSame
    <2> HIDE DEF l, k
    <2> QED BY <1>2, <2>1, <2>2, PartSame, PartsBut
<1>10. l # k
    OBVIOUS
<1> HIDE DEF l, k
<1>11. /\ Held[l] # <<>> /\ Held'[k] = Append(Held[k], Head(Held[l]))
       /\ Part(Held'[l], Tail(Held[l]))
    BY <1>4, <1>5, <1>7, <1>8, PartSame
<1> QED BY <1>2, <1>7, <1>8, <1>9, <1>10, <1>11, MovesHeld

LEMMA WorkStoreHeld ==
    ASSUME IInv, IInv', OneAtMost, NEW w \in Works, WorkStore(w)
    PROVE  OneAtMost'
<1> DEFINE l == <<"busy", w>>
           k == <<"cache", w>>
           m == busy[w][1]
<1>1. /\ cache \in [Works -> Seq(Feeds)]
      /\ busy \in [Works -> Seq(Requests)] /\ busy[w] \in Seq(Requests)
    BY DEF IInv, Queues
<1>2. /\ busy[w] # <<>> /\ m.kind = "so"
      /\ busy' = [busy EXCEPT ![w] = <<>>] /\ cache' = [cache EXCEPT ![w] = Append(@, m.feed)]
      /\ UNCHANGED <<req, resp, out, delivered, sent>>
    BY DEF WorkStore, server, history, bounds
<1>3. m \in Requests
    BY <1>2, Popped DEF IInv
<1>4. FeedOf(m) = m.feed
    <2>1. PICK f \in Feeds : m = So(f)
        BY <1>2, <1>3 DEF Requests, Pull
    <2> QED BY <2>1, FeedOfMessage DEF So
<1>5. FeedsIn(busy[w]) # <<>> /\ Head(FeedsIn(busy[w])) = FeedOf(m)
    <2>1. Head(busy[w]) = m
        OBVIOUS
    <2> QED BY <1>1, <1>2, <2>1, FeedsOfMessages, FeedOfMessage
<1>6. /\ \A v \in Works : cache'[v] = IF v = w THEN Append(cache[w], m.feed) ELSE cache[v]
      /\ \A v \in Works : busy'[v] = IF v = w THEN <<>> ELSE busy[v]
    BY <1>1, <1>2
<1> HIDE DEF m
<1>7. l \in Lines /\ Held[l] = FeedsIn(busy[w]) /\ Held'[l] = <<>>
    <2>1. l \in Lines /\ Held[l] = FeedsIn(busy[w]) /\ Held'[l] = FeedsIn(busy'[w])
        BY HeldIs, HeldBecomes
    <2> QED BY <1>6, <2>1, NoMessages
<1>8. k \in Lines /\ Held[k] = cache[w] /\ Held'[k] = Append(cache[w], m.feed)
    <2>1. k \in Lines /\ Held[k] = cache[w] /\ Held'[k] = cache'[w]
        BY HeldIs, HeldBecomes
    <2> QED BY <1>6, <2>1
<1>9. \A x \in Lines \ {l, k} : Part(Held'[x], Held[x])
    <2>1. \A v \in Works : <<"busy", v>> \in {l, k} \/ Part(FeedsIn(busy'[v]), FeedsIn(busy[v]))
        BY <1>6, PartSame
    <2>2. \A v \in Works : <<"cache", v>> \in {l, k} \/ Part(cache'[v], cache[v])
        BY <1>6, PartSame
    <2> HIDE DEF l, k
    <2> QED BY <1>2, <2>1, <2>2, PartSame, PartsBut
<1>10. l # k
    OBVIOUS
<1> HIDE DEF l, k
<1>11. /\ Held[l] # <<>> /\ Held'[k] = Append(Held[k], Head(Held[l]))
       /\ Part(Held'[l], Tail(Held[l]))
    BY <1>4, <1>5, <1>7, <1>8, PartEmpty
<1> QED BY <1>2, <1>7, <1>8, <1>9, <1>10, <1>11, MovesHeld

LEMMA WorkAnswerHeld ==
    ASSUME IInv, IInv', OneAtMost, NEW w \in Works, WorkAnswer(w)
    PROVE  OneAtMost'
<1> DEFINE l == <<"cache", w>>
           k == <<"resp", w>>
           feed == IF cache[w] = <<>> THEN NoFeed ELSE Head(cache[w])
           a == Answer(busy[w][1].conn, feed)
           s == IF cache[w] = <<>> THEN cache[w] ELSE Tail(cache[w])
           r == IF Len(resp[w]) >= QueueCap THEN resp[w] ELSE Append(resp[w], a)
<1>1. /\ cache \in [Works -> Seq(Feeds)] /\ cache[w] \in Seq(Feeds)
      /\ busy \in [Works -> Seq(Requests)]
      /\ resp \in [Works -> Seq(Answers)] /\ resp[w] \in Seq(Answers) /\ sent \in Nat
    BY DEF IInv, Queues, Buffers
<1>2. /\ busy' = [busy EXCEPT ![w] = <<>>]
      /\ cache' = IF cache[w] = <<>> THEN cache ELSE [cache EXCEPT ![w] = Tail(@)]
      /\ resp' = IF Len(resp[w]) >= QueueCap THEN resp ELSE [resp EXCEPT ![w] = Append(@, a)]
      /\ busy[w] # <<>> /\ busy[w][1].kind = "pull"
      /\ UNCHANGED <<req, out, delivered, sent>>
    BY DEF WorkAnswer, server
<1>3. a \in Answers /\ FeedOf(a) = feed
    <2>1. busy[w][1] \in Requests
        BY <1>2, Popped DEF IInv
    <2>2. PICK c \in ConnIds : busy[w][1] = Pull(c)
        BY <1>2, <2>1 DEF Requests, So
    <2>3. busy[w][1].conn = c
        BY <2>2 DEF Pull
    <2>4. feed \in Feeds \cup {NoFeed}
        BY <1>1, TailRange
    <2> HIDE DEF feed
    <2> QED BY <2>3, <2>4, FeedOfMessage DEF Answers
<1>4. /\ \A v \in Works : cache'[v] = IF v = w THEN s ELSE cache[v]
      /\ \A v \in Works : busy'[v] = IF v = w THEN <<>> ELSE busy[v]
      /\ \A v \in Works : resp'[v] = IF v = w THEN r ELSE resp[v]
    BY <1>1, <1>2
<1>5. Part(s, cache[w])
    BY <1>1, PartTail, PartSame
<1> HIDE DEF a
<1>6. /\ l \in Lines /\ Held[l] = cache[w] /\ Held'[l] = s
      /\ k \in Lines /\ Held[k] = FeedsIn(resp[w]) /\ Held'[k] = FeedsIn(r)
    <2>1. /\ l \in Lines /\ Held[l] = cache[w] /\ Held'[l] = cache'[w]
          /\ k \in Lines /\ Held[k] = FeedsIn(resp[w]) /\ Held'[k] = FeedsIn(resp'[w])
        BY HeldIs, HeldBecomes
    <2> HIDE DEF r, s
    <2> QED BY <1>4, <2>1
<1> HIDE DEF s
<1>7. \A v \in Works : Part(FeedsIn(busy'[v]), FeedsIn(busy[v])) /\ Part(cache'[v], cache[v])
    BY <1>4, <1>5, NoMessages, PartEmpty, PartSame
<1>8. CASE Len(resp[w]) >= QueueCap
    <2>1. resp' = resp
        BY <1>2, <1>8
    <2>2. \A x \in Lines : Part(Held'[x], Held[x])
        BY <1>2, <1>7, <2>1, PartSame, PartsHeld
    <2>3. sent <= sent'
        BY <1>1, <1>2
    <2> QED BY <2>2, <2>3, LessHeld
<1>9. CASE ~ (Len(resp[w]) >= QueueCap)
    <2>1. r = Append(resp[w], a)
        BY <1>9
    <2> HIDE DEF r
    <2>2. FeedsIn(r) = Append(FeedsIn(resp[w]), feed)
        <3> HIDE DEF feed
        <3>1. FeedsIn(Append(resp[w], a)) = Append(FeedsIn(resp[w]), FeedOf(a))
            BY <1>1, <1>3, FeedsOfMessages, FeedOfMessage
        <3> QED BY <1>3, <2>1, <3>1
    <2>3. \A v \in Works : <<"resp", v>> = k \/ Part(FeedsIn(resp'[v]), FeedsIn(resp[v]))
        BY <1>4, PartSame
    <2>4. CASE cache[w] = <<>>
        <3>1. \A x \in Lines \ {k} : Part(Held'[x], Held[x])
            <4> HIDE DEF k
            <4> QED BY <1>2, <1>7, <2>3, PartSame, PartsBut
        <3>2. feed = NoFeed
            BY <2>4
        <3> HIDE DEF k, feed
        <3>3. Held'[k] = Append(Held[k], NoFeed)
            BY <1>6, <2>2, <3>2
        <3> QED BY <1>2, <1>6, <3>1, <3>3, ComesHeld
    <2>5. CASE cache[w] # <<>>
        <3>1. \A x \in Lines \ {l, k} : Part(Held'[x], Held[x])
            <4> HIDE DEF k, l
            <4> QED BY <1>2, <1>7, <2>3, PartSame, PartsBut
        <3>2. l # k
            OBVIOUS
        <3>3. feed = Head(cache[w]) /\ s = Tail(cache[w])
            BY <2>5 DEF s
        <3> HIDE DEF k, l, feed
        <3>4. /\ Held[l] # <<>> /\ Held'[k] = Append(Held[k], Head(Held[l]))
              /\ Part(Held'[l], Tail(Held[l]))
            BY <1>6, <2>2, <2>5, <3>3, PartSame
        <3> QED BY <1>2, <1>6, <3>1, <3>2, <3>4, MovesHeld
    <2> QED BY <2>4, <2>5
<1> QED BY <1>8, <1>9

(* The net process hands answers to connections.                           *)
LEMMA HandsOver ==
    ASSUME IInv, IInv', OneAtMost, NEW l \in Lines, NEW s \in Seq(Answers), s # <<>>,
           Held[l] = FeedsIn(s), Held'[l] = FeedsIn(Tail(s)), l # <<"delivered", 0>>,
           delivered' = Handed(Head(s).feed), sent' = sent,
           \A m \in Lines \ {l, <<"delivered", 0>>} : Part(Held'[m], Held[m])
    PROVE  OneAtMost'
<1> DEFINE k == <<"delivered", 0>>
           f == Head(s).feed
<1>1. Head(s) \in Answers /\ sent \in Nat
    BY TailRange DEF IInv, Buffers
<1>2. f = FeedOf(Head(s))
    BY <1>1, FeedOfMessage
<1>3. /\ FeedsIn(s) \in Seq(Nat) /\ FeedsIn(s) # <<>> /\ Head(FeedsIn(s)) = f
      /\ Tail(FeedsIn(s)) = FeedsIn(Tail(s))
    BY <1>2, FeedsOfMessages, FeedOfMessage
<1>4. k \in Lines /\ Held[k] = delivered /\ Held'[k] = delivered'
    BY HeldIs, HeldBecomes
<1>5. Part(FeedsIn(Tail(s)), FeedsIn(s))
    BY TailLess
<1>6. delivered' = IF f = NoFeed THEN delivered ELSE Append(delivered, f)
    BY DEF Handed
<1> HIDE DEF k, f
<1>7. CASE f = NoFeed
    <2>1. \A m \in Lines : Part(Held'[m], Held[m])
        <3>1. Part(Held'[k], Held[k])
            BY <1>4, <1>6, <1>7, PartSame
        <3>2. Part(Held'[l], Held[l])
            BY <1>5
        <3> QED BY <3>1, <3>2 DEF k
    <2>2. sent <= sent'
        BY <1>1
    <2> QED BY <2>1, <2>2, LessHeld
<1>8. CASE f # NoFeed
    <2>1. Held'[k] = Append(Held[k], Head(Held[l])) /\ Held[l] # <<>>
        BY <1>3, <1>4, <1>6, <1>8
    <2>2. Part(Held'[l], Tail(Held[l]))
        BY <1>3, PartSame
    <2>3. l # k /\ \A m \in Lines \ {l, k} : Part(Held'[m], Held[m])
        BY DEF k
    <2> QED BY <1>4, <2>1, <2>2, <2>3, MovesHeld
<1> QED BY <1>7, <1>8

LEMMA DealResponseHeld ==
    ASSUME IInv, IInv', OneAtMost, NEW w \in Works, DealResponse(w)
    PROVE  OneAtMost'
<1> DEFINE l == <<"resp", w>>
           a == Head(resp[w])
           c == a.conn
<1>1. /\ resp \in [Works -> Seq(Answers)] /\ resp[w] \in Seq(Answers)
      /\ out \in [ConnIds -> Seq(Answers)] /\ conns \subseteq ConnIds
    BY DEF IInv, Queues, Buffers, Tasks
<1>2. /\ resp[w] # <<>> /\ resp' = [resp EXCEPT ![w] = Tail(@)]
      /\ UNCHANGED <<req, busy, cache, sent>>
    BY DEF DealResponse, bounds
<1>3. \/ c \in conns /\ delivered' = Handed(a.feed) /\ out' = out
      \/ c \in conns /\ out' = [out EXCEPT ![c] = Append(@, a)] /\ UNCHANGED delivered
      \/ c \in ConnIds /\ Forget(c) /\ UNCHANGED delivered
      \/ out' = out /\ UNCHANGED delivered
    BY <1>1 DEF DealResponse, KeepConns
<1>4. a \in Answers
    BY <1>1, <1>2, TailRange
<1>5. \A v \in Works : resp'[v] = IF v = w THEN Tail(resp[w]) ELSE resp[v]
    BY <1>1, <1>2
<1>6. l \in Lines /\ Held[l] = FeedsIn(resp[w]) /\ Held'[l] = FeedsIn(Tail(resp[w]))
    <2>1. l \in Lines /\ Held[l] = FeedsIn(resp[w]) /\ Held'[l] = FeedsIn(resp'[w])
        BY HeldIs, HeldBecomes
    <2> QED BY <1>5, <2>1
<1>7. \A v \in Works : <<"resp", v>> = l \/ Part(FeedsIn(resp'[v]), FeedsIn(resp[v]))
    BY <1>5, PartSame
<1> HIDE DEF a, c
<1>8. CASE c \in conns /\ delivered' = Handed(a.feed) /\ out' = out
    <2>1. l # <<"delivered", 0>>
        OBVIOUS
    <2> HIDE DEF l
    <2>2. \A m \in Lines \ {l, <<"delivered", 0>>} : Part(Held'[m], Held[m])
        BY <1>2, <1>7, <1>8, PartSame, PartsBut
    <2> QED BY <1>1, <1>2, <1>6, <1>8, <2>1, <2>2, HandsOver DEF a
<1>9. CASE c \in conns /\ out' = [out EXCEPT ![c] = Append(@, a)] /\ UNCHANGED delivered
    <2> DEFINE k == <<"out", c>>
    <2>1. c \in ConnIds /\ out[c] \in Seq(Answers)
        BY <1>1, <1>9
    <2>2. \A d \in ConnIds : out'[d] = IF d = c THEN Append(out[c], a) ELSE out[d]
        BY <1>1, <1>9
    <2>3. k \in Lines /\ Held[k] = FeedsIn(out[c]) /\ Held'[k] = FeedsIn(Append(out[c], a))
        <3>1. k \in Lines /\ Held[k] = FeedsIn(out[c]) /\ Held'[k] = FeedsIn(out'[c])
            BY <2>1, HeldIs, HeldBecomes
        <3> QED BY <2>1, <2>2, <3>1
    <2>4. FeedsIn(Append(out[c], a)) = Append(FeedsIn(out[c]), FeedOf(a))
        BY <1>4, <2>1, FeedsOfMessages, FeedOfMessage
    <2>5. /\ FeedsIn(resp[w]) # <<>> /\ Head(FeedsIn(resp[w])) = FeedOf(a)
          /\ Tail(FeedsIn(resp[w])) = FeedsIn(Tail(resp[w]))
        BY <1>1, <1>2, FeedsOfMessages, FeedOfMessage DEF a
    <2>6. \A d \in ConnIds : <<"out", d>> = k \/ Part(FeedsIn(out'[d]), FeedsIn(out[d]))
        BY <2>2, PartSame
    <2>7. l # k
        OBVIOUS
    <2> HIDE DEF l, k
    <2>8. \A m \in Lines \ {l, k} : Part(Held'[m], Held[m])
        BY <1>2, <1>7, <1>9, <2>6, PartSame, PartsBut
    <2>9. /\ Held[l] # <<>> /\ Held'[k] = Append(Held[k], Head(Held[l]))
          /\ Part(Held'[l], Tail(Held[l]))
        BY <1>6, <2>3, <2>4, <2>5, PartSame
    <2> QED BY <1>2, <1>6, <2>3, <2>7, <2>8, <2>9, MovesHeld
<1>10. CASE \/ c \in ConnIds /\ Forget(c) /\ UNCHANGED delivered
            \/ out' = out /\ UNCHANGED delivered
    <2>1. \A d \in ConnIds : Part(FeedsIn(out'[d]), FeedsIn(out[d]))
        BY <1>10, OutsLess, PartSame
    <2> QED BY <1>2, <1>10, <2>1, QueuesStay
<1> QED BY <1>3, <1>8, <1>9, <1>10

LEMMA SendBufferHeld ==
    ASSUME IInv, IInv', OneAtMost, NEW c \in ConnIds, SendBuffer(c)
    PROVE  OneAtMost'
<1> DEFINE l == <<"out", c>>
<1>1. out \in [ConnIds -> Seq(Answers)] /\ out[c] \in Seq(Answers)
    BY DEF IInv, Buffers
<1>2. /\ out[c] # <<>> /\ out' = [out EXCEPT ![c] = Tail(@)]
      /\ delivered' = Handed(Head(out[c]).feed)
      /\ UNCHANGED <<req, busy, cache, resp, sent>>
    BY DEF SendBuffer, queues, bounds
<1>3. \A d \in ConnIds : out'[d] = IF d = c THEN Tail(out[c]) ELSE out[d]
    BY <1>1, <1>2
<1>4. l \in Lines /\ Held[l] = FeedsIn(out[c]) /\ Held'[l] = FeedsIn(Tail(out[c]))
    <2>1. l \in Lines /\ Held[l] = FeedsIn(out[c]) /\ Held'[l] = FeedsIn(out'[c])
        BY HeldIs, HeldBecomes
    <2> QED BY <1>3, <2>1
<1>5. \A d \in ConnIds : <<"out", d>> = l \/ Part(FeedsIn(out'[d]), FeedsIn(out[d]))
    BY <1>3, PartSame
<1>6. l # <<"delivered", 0>>
    OBVIOUS
<1> HIDE DEF l
<1>7. \A m \in Lines \ {l, <<"delivered", 0>>} : Part(Held'[m], Held[m])
    BY <1>2, <1>5, PartSame, PartsBut
<1> QED BY <1>1, <1>2, <1>4, <1>6, <1>7, HandsOver

LEMMA OneIsKept == IInv /\ IInv' /\ OneAtMost /\ [Next]_vars => OneAtMost'
<1> SUFFICES ASSUME IInv, IInv', OneAtMost, [Next]_vars PROVE OneAtMost'
    OBVIOUS
<1>0. out' = out => \A c \in ConnIds : Part(FeedsIn(out'[c]), FeedsIn(out[c]))
    BY PartSame
<1>1. CASE Monitor \/ Signals \/ RebootFails \/ UNCHANGED vars
    <2>1. UNCHANGED <<req, busy, cache, resp, out, delivered, sent>>
        BY <1>1 DEF Monitor, Look, RebootWork, RebootNet, RebootDone, Pause, StopWorks, Down,
                    Signals, Terminate, Interrupt, RebootFails, vars, server, queues, history, bounds
    <2> QED BY <1>0, <2>1, QueuesStay
<1>2. CASE Net
    <2>1. CASE NetLeaves
        BY <2>1, OutsGone, QueuesStay DEF NetLeaves, queues, bounds
    <2>2. CASE NetEnds
        BY <1>0, <2>2, QueuesStay DEF NetEnds, bounds
    <2> QED BY <1>2, <2>1, <2>2, DealResponseHeld, SendBufferHeld DEF Net
<1>3. ASSUME NEW w \in Works, Work(w) PROVE OneAtMost'
    <2>1. CASE WorkEnds(w)
        BY <1>0, <2>1, QueuesStay DEF WorkEnds, queues, history, bounds
    <2> QED BY <1>3, <2>1, WorkPopHeld, WorkStoreHeld, WorkAnswerHeld DEF Work
<1>4. CASE Clients
    <2>1. PICK c \in ConnIds : \/ NewConnection(c) \/ Closed(c) \/ ConnRequest(c)
                               \/ FeedRequest(c) \/ SoRequest(c)
        BY <1>4 DEF Clients
    <2>2. CASE NewConnection(c)
        <3>1. /\ out' = [out EXCEPT ![c] = <<>>]
              /\ UNCHANGED <<req, busy, cache, resp, delivered, sent>>
            BY <2>2 DEF NewConnection, queues, history
        <3>2. \A d \in ConnIds : out'[d] = IF d = c THEN <<>> ELSE out[d]
            BY <3>1 DEF IInv, Buffers
        <3>3. \A d \in ConnIds : Part(FeedsIn(out'[d]), FeedsIn(out[d]))
            BY <3>2, NoMessages, PartEmpty, PartSame
        <3> QED BY <3>1, <3>3, QueuesStay
    <2>3. CASE Closed(c)
        BY <2>3, OutsLess, QueuesStay DEF Closed, queues, bounds
    <2>4. CASE ConnRequest(c)
        BY <2>4, OutsLess, QueuesStay DEF ConnRequest, KeepConns, queues, bounds
    <2> QED BY <2>1, <2>2, <2>3, <2>4, FeedRequestHeld, SoRequestHeld
<1>5. CASE NetDies
    BY <1>5, OutsGone, QueuesStay DEF NetDies, queues
<1>6. ASSUME NEW w \in Works, WorkLoses(w) \/ WorkDies(w) PROVE OneAtMost'
    BY <1>6, WorkLosesHeld
<1> QED BY <1>1, <1>2, <1>3, <1>4, <1>5, <1>6 DEF Next, Faults

(* A feed a producer sent is at one place at most, for any number of work  *)
(* processes, connections and restarts: no queue hands on what it keeps,   *)
(* and an answer for a connection id that is used again goes to one task   *)
(* only (deal_response_msg, send_response_buffer, deal_task_request).      *)
THEOREM NeverDoubled == Spec => []NoDuplicate
<1>1. Init => OneAtMost
    <2> SUFFICES ASSUME Init PROVE OneAtMost
        OBVIOUS
    <2>1. \A l \in Lines : Held[l] = <<>>
        <3> SUFFICES ASSUME NEW l \in Lines PROVE Held[l] = <<>>
            OBVIOUS
        <3>1. /\ \A w \in Works : /\ FeedsIn(req[w]) = <<>> /\ FeedsIn(busy[w]) = <<>>
                                  /\ FeedsIn(resp[w]) = <<>> /\ cache[w] = <<>>
              /\ \A c \in ConnIds : FeedsIn(out[c]) = <<>>
              /\ delivered = <<>>
            BY NoMessages DEF Init
        <3>2. ASSUME NEW w \in Works, \/ l = <<"req", w>> \/ l = <<"busy", w>>
                                      \/ l = <<"cache", w>> \/ l = <<"resp", w>>
              PROVE  Held[l] = <<>>
            BY <3>1, <3>2, HeldIs
        <3>3. ASSUME NEW c \in ConnIds, l = <<"out", c>> PROVE Held[l] = <<>>
            BY <3>1, <3>3, HeldIs
        <3>4. CASE l = <<"delivered", 0>>
            BY <3>1, <3>4, HeldIs
        <3> QED BY <3>2, <3>3, <3>4, LineIs
    <2>2. DOMAIN <<>> = {}
        BY EmptySeq
    <2>3. Held \in [Lines -> Seq(Nat)]
        BY InitHolds, HeldType
    <2> QED BY <2>1, <2>2, <2>3 DEF OneAtMost, Single
<1>2. OneAtMost => NoDuplicate
    <2>1. \A l \in Lines : Held[l] = Line(l)
        BY DEF Held
    <2> QED BY <2>1 DEF OneAtMost, Single, NoDuplicate
<1> QED BY <1>1, <1>2, OneIsKept, Invariance, PTL DEF Spec

=============================================================================
