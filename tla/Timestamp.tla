----------------------------- MODULE Timestamp -----------------------------
(***************************************************************************)
(* The timestamp server (feed/timestamp_serv): one worker process answers  *)
(* get and set requests from an LRU cache in front of Berkeley DB files.   *)
(* The cache is a red-black tree and a list over the same nodes; the nodes *)
(* come from a memory pool that keeps the freed ones on a stack.           *)
(*                                                                         *)
(* The tree is modelled as the set of its nodes (a search finds the node   *)
(* with the user's id), a node's address as its index in the pool.  The    *)
(* database is external: what a put stored is in the library's memory      *)
(* until the page is written out.  A user's database file is chosen by     *)
(* his id, always the same one, so the files are one function here.        *)
(***************************************************************************)
EXTENDS Integers, Sequences, FiniteSets, SequencesExt

CONSTANTS
    Users,       \* user ids
    Stamps,      \* timestamps
    NoUser,      \* the id in a node never used
    NoStamp,     \* no record in the database
    MaxNodes,    \* max_node_num: 300000 in server.cpp
    Items        \* total_alloc_item of the pool

\* mempool_create: how many nodes fit into the block it allocates for max_node_num
\* nodes, with the sizes of a 64-bit build.
WordSize == 8
NodeSize == 48
PageSize == 4096
DefaultItems == 100
RoundUp(n, unit) == ((n + unit - 1) \div unit) * unit
TotalItems(item, wanted) ==
    LET least == item * DefaultItems + WordSize
        enough == IF wanted <= least THEN least ELSE wanted
        pages == IF enough <= DefaultItems * PageSize THEN DefaultItems * PageSize
                 ELSE enough
    IN (RoundUp(pages, PageSize) - WordSize) \div item

\* tm_cache_insert takes a node before it gives one back, so the pool must hold one
\* node more than the cache.  It does, thanks to the rounding of mempool_create.
ASSUME TimestampAssumption ==
    /\ MaxNodes \in Nat \ {0}
    /\ Items \in Nat /\ Items > MaxNodes
    /\ NoStamp \notin Stamps /\ NoUser \notin Users
ASSUME PoolHoldsOneMore ==
    \A n \in {1, 100, 8500, 300000} : TotalItems(NodeSize, n * NodeSize) > n

VARIABLES
    user, stamp, \* contents of the nodes
    lru,         \* lru_list_head: the addresses from front to back
    tree,        \* tm_tree_head: the addresses linked into it
    num,         \* current_node_num
    reuse,       \* reuse_ptr: the freed addresses, the last one first
    pos,         \* alloc_pool_pos
    blocks,      \* blocks the pool has allocated
    refs,        \* ref_count of the pool
    memory,      \* the database as its library sees it
    disk,        \* the database files
    reply,       \* the last answer
    recency      \* history: users by their last use of the cache

pool == <<reuse, pos, blocks, refs>>
cache == <<user, stamp, lru, tree, num, pool, recency>>
vars == <<cache, memory, disk, reply>>

Addresses == 1 .. 2 * Items

\* tm_cache_create and mempool_create
Unused(x) == [a \in Addresses |-> x]
Init ==
    /\ user = Unused(NoUser) /\ stamp = Unused(NoStamp)
    /\ lru = <<>> /\ tree = {} /\ num = 0
    /\ reuse = <<>> /\ pos = 0 /\ blocks = 1 /\ refs = 0
    /\ recency = <<>>
    /\ memory = [u \in Users |-> NoStamp] /\ disk = memory
    /\ reply = <<"none">>

\* A node is unlinked from its list, wherever it stands.
Without(s, x) ==
    IF x \in Range(s) THEN RemoveAt(s, CHOOSE i \in DOMAIN s : s[i] = x) ELSE s
NodesOf(u, nodes) == {a \in nodes : user[a] = u}

\* mempool_alloc: the node freed last, or the next one of the block, or the first one
\* of another block if there is memory for it.
PoolEmpty == reuse = <<>> /\ pos = Items
Fresh ==
    IF reuse # <<>> THEN Head(reuse)
    ELSE IF pos = Items THEN Items * blocks + 1 ELSE Items * (blocks - 1) + pos + 1
Rest == IF reuse = <<>> THEN <<>> ELSE Tail(reuse)
AdvanceAlways ==                   \* plausible bug: the block goes on with reused nodes
    pos' = pos + 1 /\ UNCHANGED blocks
Advance ==
    /\ pos' = IF reuse # <<>> THEN pos ELSE IF pos = Items THEN 1 ELSE pos + 1
    /\ blocks' = IF PoolEmpty THEN blocks + 1 ELSE blocks

\* tm_cache_insert evicts when the cache is full, before it looks for the user.
Victim == IF num >= MaxNodes THEN <<lru[Len(lru)]>> ELSE <<>>
Kept == IF num >= MaxNodes THEN SubSeq(lru, 1, Len(lru) - 1) ELSE lru
KeptTreeWithVictim == tree         \* plausible bug: no rb_erase of the last node
KeptTree == tree \ Range(Victim)

\* Plausible bug: the user's node keeps its stamp.
InsertKeepsStamp(u, t, b) ==
    /\ user' = [user EXCEPT ![Fresh] = u]
    /\ stamp' = [stamp EXCEPT ![Fresh] = t]
    /\ lru' = <<b>> \o Without(Kept, b) /\ tree' = KeptTree
    /\ num' = num - Len(Victim)
    /\ reuse' = <<Fresh>> \o Victim \o Rest /\ refs' = refs - Len(Victim)
    /\ Advance

\* The user has a node: it is changed, and the node just taken is given back.
InsertOld(u, t, b) ==
    /\ user' = [user EXCEPT ![Fresh] = u]
    /\ stamp' = [stamp EXCEPT ![Fresh] = t, ![b] = t]
    /\ lru' = <<b>> \o Without(Kept, b)
    /\ tree' = KeptTree
    /\ num' = num - Len(Victim)
    /\ reuse' = <<Fresh>> \o Victim \o Rest
    /\ refs' = refs - Len(Victim)
    /\ Advance

InsertNew(u, t) ==
    /\ user' = [user EXCEPT ![Fresh] = u]
    /\ stamp' = [stamp EXCEPT ![Fresh] = t]
    /\ lru' = <<Fresh>> \o Kept
    /\ tree' = KeptTree \cup {Fresh}
    /\ num' = num - Len(Victim) + 1
    /\ reuse' = Victim \o Rest
    /\ refs' = refs - Len(Victim) + 1
    /\ Advance

Used(u) == recency' = <<u>> \o Without(recency, u)

\* tm_cache_insert.  Its callers do not look at the result.
Insert(u, t) ==
    \/ /\ PoolEmpty                  \* malloc fails
       /\ UNCHANGED cache
    \/ /\ Used(u)
       /\ IF NodesOf(u, KeptTree) # {}
          THEN \E b \in NodesOf(u, KeptTree) : InsertOld(u, t, b)
          ELSE InsertNew(u, t)

\* Plausible bug: a hit does not move the node.
TouchNothing(u, a) == Used(u) /\ UNCHANGED <<user, stamp, lru, tree, num, pool>>

\* tm_cache_search, a hit: list_move to the front.
Touch(u, a) ==
    /\ lru' = <<a>> \o Without(lru, a)
    /\ Used(u)
    /\ UNCHANGED <<user, stamp, tree, num, pool>>

\* get_timestamp
Get(u) ==
    /\ IF NodesOf(u, tree) # {}
       THEN \E a \in NodesOf(u, tree) :
              /\ Touch(u, a)
              /\ reply' = <<"get", u, stamp[a]>>
       ELSE \/ /\ memory[u] # NoStamp
               /\ Insert(u, memory[u])
               /\ reply' = <<"get", u, memory[u]>>
            \/ /\ memory[u] = NoStamp
               /\ reply' = <<"get", u, NoStamp>>
               /\ UNCHANGED cache
            \/ /\ reply' = <<"error">>
               /\ UNCHANGED cache
    /\ UNCHANGED <<memory, disk>>

\* Plausible bug: the cache is changed although the database refused the value.
SetCacheFirst(u, t) ==
    /\ Insert(u, t)
    /\ \/ /\ memory' = [memory EXCEPT ![u] = t]
          /\ reply' = <<"set", u, t>>
       \/ /\ reply' = <<"error">>
          /\ UNCHANGED memory
    /\ UNCHANGED disk

\* set_timestamp and c_uvalue::set: the database first, and the cache only if it did not fail.
Set(u, t) ==
    /\ \/ /\ memory' = [memory EXCEPT ![u] = t]
          /\ Insert(u, t)
          /\ reply' = <<"set", u, t>>
       \/ /\ reply' = <<"error">>
          /\ UNCHANGED <<cache, memory>>
    /\ UNCHANGED disk

\* Berkeley DB writes a page out when it likes: nothing in the server asks it to.
Flush(u) ==
    /\ disk' = [disk EXCEPT ![u] = memory[u]]
    /\ UNCHANGED <<cache, memory, reply>>

\* handle_fini closes the databases, handle_init of the next worker opens them again.  A
\* worker that dies closes nothing.
Restart ==
    /\ user' = Unused(NoUser) /\ stamp' = Unused(NoStamp)
    /\ lru' = <<>> /\ tree' = {} /\ num' = 0
    /\ reuse' = <<>> /\ pos' = 0 /\ blocks' = 1 /\ refs' = 0
    /\ recency' = <<>>
    /\ reply' = <<"none">>
    /\ \/ disk' = memory /\ UNCHANGED memory
       \/ memory' = disk /\ UNCHANGED disk

Next ==
    \/ \E u \in Users : Get(u) \/ Flush(u) \/ (\E t \in Stamps : Set(u, t))
    \/ Restart

Spec == Init /\ [][Next]_vars

(***************************************************************************)
(* Properties.                                                             *)
(***************************************************************************)

\* Nodes hold users, timestamps or nothing yet, and every address is one of the pool's
\* blocks, of which there are two at most (mempool_alloc).
TypeOK ==
    /\ user \in [Addresses -> Users \cup {NoUser}]
    /\ stamp \in [Addresses -> Stamps \cup {NoStamp}]
    /\ lru \in Seq(Addresses) /\ tree \subseteq Addresses /\ num \in Nat
    /\ reuse \in Seq(Addresses) /\ pos \in 0 .. Items /\ blocks \in {1, 2} /\ refs \in Nat
    /\ memory \in [Users -> Stamps \cup {NoStamp}]
    /\ disk \in [Users -> Stamps \cup {NoStamp}]

\* The list, the tree, the counter and the pool agree on the nodes in use: each is in
\* the list once and in the tree, none is on the stack of freed nodes, no user has two,
\* there are never more than max_node_num, and ref_count is what mempool_destroy needs
\* to free the pool (timestamp_cache.cpp, mempool.cpp).  tm_cache_insert takes a node
\* before it gives one back, and still the pool has another one: it never has to allocate
\* a second block, so no insert fails and leaves an old value in the cache.
Structure ==
    /\ IsInjective(lru) /\ Range(lru) = tree
    /\ num = Len(lru) /\ num <= MaxNodes /\ refs = num
    /\ IsInjective(reuse) /\ Range(reuse) \cap tree = {}
    /\ Range(reuse) \cup tree = 1 .. pos
    /\ \A a, b \in tree : user[a] = user[b] => a = b
    /\ blocks = 1 /\ ~ PoolEmpty

\* What a get is answered from the cache is what the database holds: through evictions,
\* failing databases, nodes used again and restarts.
Coherent == \A a \in tree : stamp[a] = memory[user[a]]

\* The cache is the last used users in the order of their use, all of them while they
\* fit, and never fewer than one below the limit (tm_cache_insert evicts even where it
\* then finds the user and takes no room).
Recent ==
    /\ [i \in DOMAIN lru |-> user[lru[i]]] = SubSeq(recency, 1, Len(lru))
    /\ Len(lru) >= Min({Len(recency), MaxNodes - 1})

\* The server with its cache does what the values alone would do.
Abstract == INSTANCE UserValues WITH value <- memory, saved <- disk
ImplementsUserValues == Abstract!Spec
=============================================================================
