------------------------------- MODULE Outbox -------------------------------
(***************************************************************************)
(* The outbox of a user: the list of his newest feeds that the outbox      *)
(* server (feed/outbox_serv) keeps in memcached, in front of the storage   *)
(* server.  The children of feed/process write a feed to the storage first *)
(* and tell the outbox server after; readers make it fill a list that      *)
(* memcached does not have from the storage.                               *)
(*                                                                         *)
(* A feed is its timestamp.  memcached is external and may forget a list   *)
(* at any time; the storage does each request as one step.                 *)
(***************************************************************************)
EXTENDS Integers, Sequences, FiniteSets, SequencesExt

CONSTANTS
    Users,
    MaxStamp,    \* feeds ever written
    Size,        \* m_size (outbox_size, 30 where it is not configured)
    Workers,     \* the worker process of the outbox server
    MaxFaults    \* broken connections, failures of memcached

Feeds == 1 .. MaxStamp
Gone == <<>>                       \* memcached has no list for the user
NoOp == [kind |-> "none"]
Insert(f) == [kind |-> "insert", new |-> f]
Update(f, g) == [kind |-> "update", new |-> f, old |-> g]
Delete(g) == [kind |-> "delete", old |-> g]

ASSUME OutboxAssumption ==
    /\ IsFiniteSet(Users) /\ Users \cap {"idle", "fill"} = {}
    /\ MaxStamp \in Nat /\ Size \in Nat \ {0} /\ MaxFaults \in Nat
\* worker_num=1 (bench.conf:69).  A second worker could change a list while the first one
\* waits for the storage, and nothing would keep the first from storing what it then gets.
ASSUME OneWorker == \A v, w \in Workers : v = w

VARIABLES
    storage,     \* the storage server: the feeds of each user
    memc,        \* memcached: the list of each user
    op,          \* what the child that handles the user's feeds tells the outbox
    linked,      \* the child's connection to the outbox server is good
    worker,      \* what each worker is doing, and the list it has read
    written,     \* history: feeds written so far
    late,        \* history: users who got a feed older than one they had
    missed,      \* history: users whose outbox did not take a change
    faults

vars == <<storage, memc, op, linked, worker, written, late, missed, faults>>

Idle == [task |-> "idle"]

Init ==
    /\ storage = [u \in Users |-> {}] /\ memc = [u \in Users |-> Gone]
    /\ op = [u \in Users |-> NoOp] /\ linked = [u \in Users |-> TRUE]
    /\ worker = [w \in Workers |-> Idle]
    /\ written = {} /\ late = {} /\ missed = {} /\ faults = 0

(***************************************************************************)
(* The lists.                                                              *)
(***************************************************************************)

Sorted(S) ==
    CHOOSE s \in [1 .. Cardinality(S) -> S] : \A i, j \in DOMAIN s : i < j => s[i] > s[j]
Cut(list) == SubSeq(list, 1, Min({Len(list), Size}))
Newest(u) == Cut(Sorted(storage[u]))

\* local_outbox_insert: before the first feed that is not newer, else at the end.
AppendedTo(f, list) == Append(list, f)    \* plausible bug: always at the end
InsertedInto(f, list) ==
    LET older == {i \in DOMAIN list : list[i] <= f}
    IN InsertAt(list, IF older = {} THEN Len(list) + 1 ELSE Min(older), f)

\* local_outbox_remove: the first entry that is the feed.
WithoutLast(g, list) == SubSeq(list, 1, Len(list) - 1)    \* plausible bug: the last entry
Without(g, list) ==
    IF g \in Range(list) THEN RemoveAt(list, Min({i \in DOMAIN list : list[i] = g})) ELSE list

\* What insert, update and del write back, given the list they have read.
AddedOr(f, list) == IF f \in Range(list) THEN list ELSE InsertedInto(f, list)
Changed(o, list) ==
    CASE o.kind = "insert" -> Cut(AddedOr(o.new, list))
      [] o.kind = "update" -> Cut(Without(o.old, AddedOr(o.new, list)))
      [] o.kind = "delete" -> Cut(Without(o.old, list))

(***************************************************************************)
(* The children of feed/process.                                           *)
(***************************************************************************)

\* feedhandle, feeddelete: the storage is written, then outbox_handle sends the change.
\* The feeds of a user come to one child after the other.
Write(u, o, feeds) ==
    /\ op[u] = NoOp
    /\ op' = [op EXCEPT ![u] = o]
    /\ storage' = [storage EXCEPT ![u] = feeds]
    /\ UNCHANGED <<memc, linked, worker, missed, faults>>
WriteNew(u, o, f, feeds) ==
    /\ f \notin written
    /\ written' = written \cup {f}
    /\ late' = IF \E g \in storage[u] : g > f THEN late \cup {u} ELSE late
    /\ Write(u, o, feeds)

ProcessInsert(u, f) == WriteNew(u, Insert(f), f, storage[u] \cup {f})
ProcessUpdate(u, f, g) ==
    /\ g \in storage[u]
    /\ WriteNew(u, Update(f, g), f, (storage[u] \ {g}) \cup {f})
ProcessDelete(u, g) ==
    /\ g \in storage[u]
    /\ Write(u, Delete(g), storage[u] \ {g})
    /\ UNCHANGED <<written, late>>

\* outbox_handle with a bad connection: the change is skipped.  A new connection is made
\* in a copy of the socket and of the flag (both passed by value), so the next call
\* finds them as they were.
Skip(u) ==
    /\ op[u] # NoOp /\ ~ linked[u]
    /\ \A w \in Workers : worker[w].task # u
    /\ op' = [op EXCEPT ![u] = NoOp]
    /\ missed' = missed \cup {u}
    /\ UNCHANGED <<storage, memc, linked, worker, written, late, faults>>

\* The outbox server or the network drops the connection; a new child connects again.
Break(u) ==
    /\ linked[u] /\ faults < MaxFaults
    /\ linked' = [linked EXCEPT ![u] = FALSE]
    /\ faults' = faults + 1
    /\ UNCHANGED <<storage, memc, op, worker, written, late, missed>>
NewChild(u) ==
    /\ ~ linked[u] /\ op[u] = NoOp
    /\ linked' = [linked EXCEPT ![u] = TRUE]
    /\ UNCHANGED <<storage, memc, op, worker, written, late, missed, faults>>

(***************************************************************************)
(* The workers of the outbox server.                                       *)
(***************************************************************************)

\* The child has its answer, whatever it says.
AnsweredNotGone(u) ==              \* plausible bug: nothing to do, nothing answered
    op' = IF memc[u] = Gone THEN op ELSE [op EXCEPT ![u] = NoOp]
Answered(u) == op' = [op EXCEPT ![u] = NoOp]

\* update answers an error when the new feed is older than the one it replaces.
Refused(o) == o.kind = "update" /\ o.new < o.old

\* insert, update, del: get_memc_outbox.  Without a list there is nothing to do.
Start(w, u) ==
    /\ worker[w] = Idle /\ op[u] # NoOp /\ linked[u]
    /\ \A v \in Workers : worker[v].task # u
    /\ IF Refused(op[u]) \/ memc[u] = Gone
       THEN Answered(u) /\ UNCHANGED worker
       ELSE /\ worker' = [worker EXCEPT ![w] = [task |-> u, list |-> memc[u]]]
            /\ UNCHANGED op
    /\ missed' = IF Refused(op[u]) THEN missed \cup {u} ELSE missed
    /\ UNCHANGED <<storage, memc, linked, written, late, faults>>

\* set_memc_outbox, or del_memc_outbox when no feed is left.
Finish(w, u) ==
    /\ worker[w].task = u
    /\ memc' = [memc EXCEPT ![u] = Changed(op[u], worker[w].list)]
    /\ Answered(u)
    /\ worker' = [worker EXCEPT ![w] = Idle]
    /\ UNCHANGED <<storage, linked, written, late, missed, faults>>

\* memcached fails: the error is answered, and logged by the child.
Fail(w, u) ==
    /\ worker[w].task = u /\ faults < MaxFaults
    /\ Answered(u)
    /\ worker' = [worker EXCEPT ![w] = Idle]
    /\ missed' = missed \cup {u} /\ faults' = faults + 1
    /\ UNCHANGED <<storage, memc, linked, written, late>>

\* get: the lists memcached has are answered, the others are asked from the storage.
Answer(keys) == FlattenSeq([i \in DOMAIN keys |->
                   [j \in DOMAIN Newest(keys[i]) |-> <<keys[i], Newest(keys[i])[j]>>]])
Ask(w, keys) ==
    /\ worker[w] = Idle
    /\ \E order \in SetToSeqs({u \in keys : memc[u] = Gone}) :
         /\ order # <<>>
         /\ worker' = [worker EXCEPT ![w] = [task |-> "fill", feeds |-> Answer(order)]]
    /\ UNCHANGED <<storage, memc, op, linked, written, late, missed, faults>>

\* get_stor_outbox: one answer holds the feeds of all the users asked for, and each run of
\* feeds of one user becomes his list.  A user without feeds gets none.
RunStarts(feeds) == {i \in DOMAIN feeds : i = 1 \/ feeds[i][1] # feeds[i - 1][1]}
RunEnd(feeds, i) == Min({j \in i .. Len(feeds) :
                           j = Len(feeds) \/ feeds[j + 1][1] # feeds[i][1]})
ListOf(feeds, i) == [j \in 1 .. RunEnd(feeds, i) - i + 1 |-> feeds[i + j - 1][2]]
Fill(w) ==
    /\ worker[w].task = "fill"
    /\ LET feeds == worker[w].feeds
       IN memc' = [u \in Users |->
            LET runs == {i \in RunStarts(feeds) : feeds[i][1] = u}
            IN IF runs = {} THEN memc[u] ELSE ListOf(feeds, Max(runs))]
    /\ worker' = [worker EXCEPT ![w] = Idle]
    /\ UNCHANGED <<storage, op, linked, written, late, missed, faults>>

\* The storage or memcached fails: the error is logged, the list is not kept.
FailFill(w) ==
    /\ worker[w].task = "fill" /\ faults < MaxFaults
    /\ worker' = [worker EXCEPT ![w] = Idle]
    /\ faults' = faults + 1
    /\ UNCHANGED <<storage, memc, op, linked, written, late, missed>>

\* memcached forgets a list.
Evict(u) ==
    /\ memc[u] # Gone
    /\ memc' = [memc EXCEPT ![u] = Gone]
    /\ UNCHANGED <<storage, op, linked, worker, written, late, missed, faults>>

Process(u) ==
    \/ \E f \in Feeds : ProcessInsert(u, f)
    \/ \E f, g \in Feeds : ProcessUpdate(u, f, g)
    \/ \E g \in Feeds : ProcessDelete(u, g)
Serve(w) == Fill(w) \/ (\E u \in Users : Start(w, u) \/ Finish(w, u))
Next ==
    \/ \E u \in Users : Process(u) \/ Skip(u) \/ Break(u) \/ NewChild(u) \/ Evict(u)
    \/ \E w \in Workers : Serve(w) \/ FailFill(w)
    \/ \E w \in Workers, u \in Users : Fail(w, u)
    \/ \E w \in Workers, keys \in SUBSET Users : Ask(w, keys)

Spec == Init /\ [][Next]_vars

\* The server's loop takes every request that waits at its connections; a child goes on
\* after its time limit.
FairSpec ==
    /\ Spec
    /\ \A w \in Workers : WF_vars(Serve(w))
    /\ \A u \in Users : WF_vars(Skip(u)) /\ SF_vars(\E w \in Workers : Start(w, u))

(***************************************************************************)
(* Properties.                                                             *)
(***************************************************************************)

\* Nothing is on its way for the user: neither a change nor a list for memcached.
Settled(u) ==
    /\ op[u] = NoOp
    /\ \A w \in Workers :
         /\ worker[w].task # u
         /\ worker[w].task = "fill" =>
              \A i \in DOMAIN worker[w].feeds : worker[w].feeds[i][1] # u

\* Once the outbox took every change, a list shows only feeds that are still in
\* the storage, newest first and none twice: also when a reader's fill was on its way
\* while the storage changed, when memcached forgot the list, or a feed came late.
NoGhost ==
    \A u \in Users \ missed : Settled(u) =>
        /\ Range(memc[u]) \subseteq storage[u]
        /\ \A i, j \in DOMAIN memc[u] : i < j => memc[u][i] > memc[u][j]

\* And it leaves none out: what it shows are the newest ones, at most m_size of them, as
\* long as no feed older than another one of the user comes in.
NewestShown ==
    \A u \in Users \ (missed \cup late) : Settled(u) =>
        /\ Len(memc[u]) <= Size
        /\ memc[u] = SubSeq(Sorted(storage[u]), 1, Len(memc[u]))

\* A change the storage has is brought to the outbox, or given up by the child.
Told == \A u \in Users : op[u] # NoOp ~> op[u] = NoOp
=============================================================================
