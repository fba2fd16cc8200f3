# MeFan in TLA+

MeFan is the back end of a social-feed service: a multi-process TCP server
framework (`src/async_server`), an evolved copy of it with client-side libraries
and a proxy (`src/friend_serv`), servers that keep feeds, outboxes and timestamps
(`src/feed`), a recommendation pipeline (`src/mifan-recommend`) and a picture
service. Every C++ server of the repository is a plugin of the framework or is
built the same way, so the framework is the core: what it loses, reorders or
delivers to the wrong client, no plugin can repair. Four modules and their
abstractions are about the framework, and one about the bytes of its sockets; four
more are about the servers of `src/feed`, the parts of the repository that keep
state of their own or a copy of somebody else's.

The modules here are read from the source; where the text below says "the code",
it means the lines that `PROJECT.json` names for each definition.

1. [Inventory](#1-inventory)
2. [The modules and the code](#2-the-modules-and-the-code)
3. [What each run checks](#3-what-each-run-checks)
4. [Fairness](#4-fairness)
5. [What is proved](#5-what-is-proved)
6. [Disagreements between code and documents](#6-disagreements-between-code-and-documents)
7. [Not modelled](#7-not-modelled)

How to run: `tlc -config X.cfg M.tla` for each pair of section 3, and
`tlapm M_proofs.tla` for each proof module.

## 1. Inventory

### async_server

```
            accept/recv/send
 clients  <------------------>  conn process            worker process i (one per channel)
                                c_tcp_accept            c_revent  -> plugin handlers
                                c_tcp_socket            net_send_cli / net_close_cli
                                c_sevent                      |
                                   |  recv_queue[i]: ring + pipe   ^
                                   +------------------------------>+
                                   ^  send_queue[i]: ring + pipe   |
                                   +<------------------------------+
                     main process: forks, reaps, restarts, stops them all
```

**Shared-memory ring** (`shmq.cpp:14-121`). State: a buffer of `size` bytes in
shared memory, `w_pos` stored by the producer only, `r_pos` by the consumer only;
the consumer's `pull_buf`/`pull_len` in its own memory. Operations: `shmq_push`
(all or nothing), `shmq_pull` (a block, nothing, or -1 for a block it had to skip).
No lock: the two processes read each other's position while it moves. Hard: every
interleaving of the copies, wrap-around inside headers and bodies, the boundary
between full and empty, a death inside a copy, `realloc` failing in a pull.
Correct when no unread byte is overwritten, blocks come out once, whole and in
order, and the positions always encode the number of unread bytes.

**Channel** (`shmq.cpp:189-330`, `shm_revent.cpp`, `shm_sevent.cpp`). State: a ring,
a pipe whose bytes wake the consumer, the producer's `push_list` of blocks that did
not fit. Operations: `recv_push`/`send_push` (safe or unsafe), `pruge_recv`/
`pruge_send` once per turn of the main loop, `write_pipe`, `pruge_pipe`, and the
consumer's batch of up to 1024 pulls. Hard: a wake-up lost between a token
swallowed and a block still to be pulled, a block overtaking the list, a list that
never moves again, deaths on either side, a full pipe. Correct when what was
promised arrives, in order, at most once, and nobody sleeps on a ring with blocks.

**Connections and links** (`tcp_accept.cpp`, `tcp_socket.cpp`, `net.cpp`,
`shm_revent.cpp:43-77`, `shm_sevent.cpp:45-100`). State: in conn, the socket object
on each descriptor with its id, `m_is_closed` and send backlog; in each worker,
`g_link_flags[fd]`, the id it believes to be there, and what its plugin still has to
answer. Blocks LOGIN, PROTO and CLOSE tell workers of connections; replies and
closes come back and are resolved to a socket. Hard: descriptors are reused while
blocks about their former owners are in flight, either side may close first, a
connection may be closed with a backlog, workers die. Correct when a worker's
beliefs converge to the truth and a reply or close acts on its own connection only.

**Process supervision** (`main.cpp:226-310`, `conn.cpp:40-95`, `work.cpp:14-135`).
State: `g_stop`, `pid` of each role, exit codes, the `inited` flags in shared memory.
Operations: fork at start, `waitpid` and fork again, SIGTERM, the stop with its
second loop of `waitpid`. Hard: SIGTERM at any instruction, children dying or
failing to come up at any time, failing forks. Correct when no role ever has two
processes, main knows every child, children that died come back, and a stop ends.

**Reactor** (`reactor.cpp`). epoll, a vector of handlers by descriptor, ids, batches
of up to 128 events. Hard: an event of a batch whose handler an earlier event of the
same batch has replaced or deleted; handlers that delete themselves.

**Sockets' byte streams** (`tcp_socket.cpp:79-230`, `285-357`). Framing of packages
from arbitrary reads into a buffer that grows and is compacted; a send list of at
most 1024 buffers written by `writev` and partial sends. Correct when the stream of
bytes is the concatenation of whole packages, whatever the reads and writes return.

**Back-end links** (`tcp_linker.cpp`, friend_serv's `tcp_async_linker.cpp`),
**configuration, log, plugin loader, memory pool** (`config.cpp`, `log.cpp`,
`plugin.cpp`, `global.cpp`, `mem_pool.h`): sequential support code;
`get_idle_work_idx_conn` (`global.cpp:118`) reads the workers' `idle` flags without
a lock and uses the answer as a hint.

### friend_serv

**Copy of async_server** (`friend_serv/async-server`). The same program, developed
further; the difference that matters to the modelled part is that `c_sevent`
compares the connection id of a reply with the socket's (`shm_sevent.cpp:62`).

**Services** (`common/strategy.cpp`, `service.cpp`, `service_group.cpp`,
`service_replicas.cpp`). A tree of elements that are enabled when a child is, one
strategy per inner node (roll, region of integers, random), services that reconnect
through `AsyncService`. Hard: the order of enabling, disabling and adding, sets
changed while they are walked (`service.cpp:37`), an index outside every region.

**Client library and configuration centre** (`common/tcp_client.cpp`,
`proto_handler.cpp`, `center_config_manager.cpp`, ...): socket I/O and parsing.

**Proxy** (`async-proxy`). Attention lists (who follows whom, groups) in redis by
pipelined commands, fail-over between servers. Hard: some commands of a pipeline
failing and leaving a list and its counters apart (`buf_processor.cpp:27`).

### feed

```
  producers, tasks          feed/process child            readers
      |                       |          |                   |
  cache server           storage server  +--> outbox server -+-> storage server
  net process            N workers            1 worker
  work process i         MySQL, memcached     memcached
                                              timestamp server: 1 worker, LRU, Berkeley DB
```

**Cache server** (`cache_serv`). State: in the net process, the connections, the task
registered on each (`m_task_map`), the `used_flag` of every queue and the answers not
yet sent; in each work process, a queue of feeds; between them a request and a response
queue in shared memory; in the monitor, which processes are alive. Operations: a
producer's feed goes to the queue of its user's work process, a task registers for a
queue and asks it for feeds one by one; the monitor sleeps in `pause()` until a signal comes,
starts dead processes again and stops the net process before the work processes. Hard: a connection that closes while its
answer is on the way, ids used again, a restart that finds the vectors of the first
start, the order of the stop, signals that come between a test and `pause()`, children that
are dead when the stop begins. Correct when a feed is at one place only, a queue serves
one task, requests are answered, a stop loses nothing and ends.

**Outbox server** (`outbox_serv`). State: each user's newest feeds in memcached, with the
storage server as the truth. Operations: insert, update and delete of a feed, sent by
`feed/process` after it wrote the storage; a reader's request, which fills missing
lists from the storage. Hard: read-modify-write against memcached that may forget, fills
that race with changes, the child's connection that breaks. Correct when a list that is
there shows the newest feeds of the storage.

**Storage server** (`storage-serv`). State: rows in MySQL, entries in memcached, no lock
over the two. Operations: insert, update, update2 (a feed becomes another), set, del,
del2, the passive variants, and gets that fill memcached. Hard: the calls of several
workers interleave, any of them may fail, a worker may die between two. Correct when
memcached shows a row or nothing, but for the requests that overlapped, and what went
wrong then goes away. The tables have no unique key: requests can give a feed a second row.

**Timestamp server** (`timestamp_serv`). State: a red-black tree and a list over the same
nodes, a counter, a pool with a stack of freed nodes, the database. Operations: get, set,
the end and the death of the worker. Hard: eviction before the look-up, nodes used again,
a database that refuses or forgets, a comparison of ids that is an order only for ids within
2^31 of each other. Correct when a get answers what was set last.

**Process and view**: PHP programs. `process` writes the storage, then tells the outbox
server; `view` reads.

### mifan-recommend, pic_server, the rest

**recommend-inbox and active-mimi-cache**: pools in redis, masters announced by
sentinels (`redis_sentinel.cpp`); hard: a change of master between two commands.
**recommend-score and recommend-process**: PHP jobs. **pic_server**: CGI programs
over fastDFS. hiredis, fastDFS, lighttpd, varnish and serverbench are third-party code.

`PROJECT.json` lists the components with the reason for everything not modelled,
and under `hazards` each of the hard behaviours at the line where it bites.

## 2. The modules and the code

| module | models | used by |
| --- | --- | --- |
| `ShmFifo` | abstract: a bounded FIFO of whole blocks | refined by `ShmRing`, instantiated by `ShmChannel` |
| `ShmRing` | `shmq_push`, `shmq_pull`, `shmq_init`, deaths | `ShmRing_proofs` |
| `LossyFifo` | abstract: a FIFO that may lose blocks at its two ends | refined by `ShmChannel` |
| `ShmChannel` | `recv_push`, `pruge_recv`, pipe, batch, deaths | `ShmChannel_proofs` |
| `Links` | sockets in conn, link flags in workers, the blocks between them | `Links_proofs` |
| `TcpSocket` | the bytes of one connection in both directions | `Links_proofs` |
| `Supervisor` | the main process and its children | `Supervisor_proofs` |
| `FeedCache` | the cache server: net process, work processes, monitor | `FeedCache_proofs` |
| `Outbox` | the outbox server with `feed/process` and memcached | `Outbox_proofs` |
| `FeedStore` | the storage server's workers over MySQL and memcached | `FeedStore_proofs` |
| `UserValues` | abstract: one value per user, saved now and then | refined by `Timestamp` |
| `Timestamp` | the timestamp server: tree, list, pool, database | `Timestamp_proofs` |

The chain of abstractions is: bytes in shared memory (`ShmRing`) implement a FIFO of
blocks (`ShmFifo`); that FIFO with a pipe and a list in memory (`ShmChannel`)
implements a lossy FIFO (`LossyFifo`); sequences of blocks that lose their latest
entries with their producer are what `Links` has between processes. `TcpSocket` is what
lies before and behind them: the packages that `Links` takes and sends as wholes.

### ShmRing

`PushBegin` is the entry of `shmq_push`: the load of `r_pos`, the computation of the
room and the early return. `PushByte` copies one byte of header or body and advances
the producer's local `pos` (with the wrap of lines 34-54), `PushEnd` stores `w_pos`.
`PullBegin`, `PullByte`, `PullHead` (the point where the header is whole and
`pull_buf` may have to grow), `PullNoMemory` (the path of line 98 that skips the
block) and `PullEnd` do the same for `shmq_pull`. `ProducerCrash` and
`ConsumerCrash` reset what a process has in its own memory; the ring, mapped by
main before the forks, stays. A byte of the ring is a record: the block it belongs
to, its place there and the length that the header spells, which is all that
properties and control flow look at. `sent`, `got`, `wrote` and `read` are histories.

The positions are read and stored without atomics or barriers. The model has the
outcomes of a build for x86: aligned words are loaded and stored whole, stores of
one process become visible in program order, and the copies are library calls the
compiler does not move the position's store across. A weaker machine is outside the
model.

### ShmChannel

The producer's `p_pc` says where it is: between calls, at the loop of `pruge_recv`,
past it with the list empty (`push`) or stuck (`refused`), or between a `shmq_push`
and its `write_pipe` (`listtoken` for a block of the list, `token` for its own). The
actions are one `shmq_push`, one `write_pipe` or one return each, because those are
the points at which the consumer can act. `Fits` is the ring's room, `TooLong` the
length check of `recv_push`. A call that found its block unable to go in ends in
`PushDrop` (unsafe) or `PushWait` (safe: on to the list, or -1 if `malloc` fails).
`TooLong` leaves out the block's header, as the code does: a block whose length is in
`Size - HeadLen .. Size - 1` passes it and fits into no empty ring, and a safe one of these
stays on the list with all that come behind it (`Stuck`).
The consumer's `WakeUp` is the return of epoll and `pruge_pipe`, with at most
`TokenMax` tokens read; `Pull`, `Handle`, `PullFails` and `PullDone` are the loop of
`handle_input` with its `count` of at most `BatchMax` blocks. `send_push` and
`c_sevent` are the same code with the roles exchanged, so one module stands for both
directions.

`calls` keeps each call's arguments and result: what the callers were told is as
much a part of the properties as what happened to the block.

### Links

`sock[fd]` is the `c_tcp_socket` on a descriptor: `m_id`, `m_is_closed` (`closing`)
and whether `m_send_list` is empty (`backlog`). `Accept` is
`c_tcp_accept::handle_input` with `start`, `Request` a package complete in
`handle_input`, `Hangup` the false returns that lead to `handle_error`, `Flush`
`handle_output`, and `SendEvent` one turn of `c_sevent::handle_input` with `Shut` or
`SendPkg`. In a worker, `RecvEvent` is one turn of `c_revent::handle_input`, `Reply`
and `CloseLink` are `net_send_cli` and `net_close_cli` called by the plugin. The
plugin itself is external: it answers what it was asked, in any order, at any time
or never, and drops a link's requests when the link goes down. `asker` in a block is
the connection a reply was made for, which the code does not carry; only
properties look at it.

`check_link_id` is chosen in `Init` and never changes: FALSE is async_server, TRUE is
friend_serv's copy, and the runs cover both.

### Supervisor

Main's `m_pc` separates the test of `g_stop` from the `fork` or `waitpid` after it,
since a signal may come between. `Wait` reaps one child: code 10 is not forked
again, anything else is. `Kill` and `Reap` are the stop. A child initialises
(`Start`, `StartFails`), conn waits for the workers' `inited` flags (`Listen`), a
child told to stop winds up with code 10 (`Finish`), and `Crash` is any other death.
A SIGTERM reaches main only: one sent to a child itself, which ends it with code 10 and for
good, is left out, and so is a listener that cannot be opened (`conn.cpp:80` does not look at
the result, and conn goes on without one).
The copy of `g_stop` that a child inherits from `fork` is `stop` in its record.

### TcpSocket

`buf`, `size` and `pos` are `m_recv_buf` up to `m_recv_pos`, `m_recv_buf_size` and the
`pos` of `handle_input`; a byte is the pair of its package and its place there. `Recv` is
one `recv` with any number of bytes up to the room, `Read` one turn of the READ loop:
close, grow, hand over, or `Move` the rest to the front. `memcpy` of overlapping ranges
is undefined: `Move` copies from the front or from the back, and `smeared` remembers
that it was from the back and mattered. `SocketSendPkg`, `HandleOutput`, `SocketShut` and
`SocketHandleError` are `send_pkg`, `handle_output`, `shut` and `handle_error`, with any
number of bytes taken by the kernel; `Buffers` and `Appended` cut a package over buffers of
`BufLen`. `Links` has its own view of three of these handlers, and `Links_proofs` extends both
modules: hence the prefix, also of `SocketInit`, `SocketNext` and `SocketSpec`.

### FeedCache

One action per handler of the net process (`NewConnection`, `Closed`, `ConnRequest`,
`FeedRequest`, `SoRequest`, `DealResponse`, `SendBuffer`), of a work process (`WorkPop`,
then `WorkStore` or `WorkAnswer`) and of the monitor. `monitor` is where that stands in its
main loop: `Look` tests the flags that the signal handler has set (`term`, `chld`), `RebootWork`
and `RebootNet` are the turns of `reboot_children`, `RebootDone` leads back to the loop and
`Pause` into `pause()`. `Terminate`, `Interrupt` and every death (`ChildSignal`) are signals:
they end a `pause()`, and at any other time only set their flag. `RebootFails` is a child whose
initialisation fails, which ends the monitor, or that ends without having set `inited`, for
which the monitor waits for ever. `StopWorks` and `Down` are `uninit_instance`. `slots` is the length of `m_request_queue_vec`, which
grows with each restart, and `QueueOf` the queue behind an entry. `NetLeaves` and
`NetEnds` are the end of `child_main`. A connection in `waiting` has sent a request that
has no answer yet and sends no other meanwhile.

### Outbox

`Process` actions write the storage and leave the change in `op`, which stays until the
child's `outbox_handle` has an answer or gives up (`Skip`): the child does nothing else
meanwhile. `Start` reads the list from memcached and `Finish` writes it back, since
memcached may forget it in between. `Ask` is `get_memc_outbox` for a reader's users with
the request to the storage, `Fill` the loop of `get_stor_outbox` over the answer. The
sequence operators are `local_outbox_insert` and `local_outbox_remove`.

### FeedStore

A request is the sequence of calls it makes, chosen from what it finds with its first
one; each later call of MySQL or memcached is a step, so those of two workers
interleave. `DbCall`, `Fetch`, `McCall` and `McHit` are the calls, `McFails`, `DbFails`,
`FetchFails`, `Del2Blind` and `Die` what may go wrong with them: a failing query may have
been carried out, and a failing select ends `get_p_pkgs`, is passed over by the others, and
without a connection ends the selects of `get_key_pkgs`. `db[f]` is the set of the data of a
feed's rows, since nothing keeps it from having two: racing inserts and a `set` onto a feed
that is there add one, an UPDATE or DELETE meets both, a get takes one of them. `torn` is a history: the feeds of which a change overlapped another
request or was cut short.

### Timestamp and UserValues

A node's address is its index in the pool, the tree the set of its nodes, `lru` the list
from front to back. `Insert` is `tm_cache_insert` with `mempool_calloc`, the eviction,
`InsertOld` and `InsertNew`; `Get` and `Set` are the two commands with the database
answering or failing; `Restart` is an end in order or a death. `UserValues` has neither
cache nor pool. The database is taken for a function of the user's id. The order of its B-tree
is the server's own `userid_compare_func` (`server.cpp:28-35`), which returns the difference of
two `uint32_t` as an `int`: it orders ids that lie within 2^31 of each other, and for others
neither the model nor the refinement says anything.

## 3. What each run checks

| run | configuration | checks | states |
| --- | --- | --- | --- |
| `shm_ring` | `ShmRing.cfg` | `TypeOK` `NoOverwrite` `IntactFifo` `Accounting` `ImplementsFifo` | 145,413 |
| `channel` | `ShmChannel.cfg` | `TypeOK` `WakeUpPending` `SafeKept` `Delivered` | 425,502 |
| `channel_faults` | `ShmChannelFaults.cfg` | `ImplementsLossyFifo` | 134,016 |
| `links` | `Links.cfg` | `TypeOK` `StaleIsTold` `CheckedConnection` `UpAfterDown` `StaleForgotten` | 316,198 |
| `links_unchecked` | `LinksUnchecked.cfg` | `RightConnection`, violated | |
| `supervisor` | `Supervisor.cfg` | `TypeOK` `OneOfARole` `Managed` `Restarted` `StopCompletes` | 49,219 |
| `feed_cache` | `FeedCache.cfg` | `TypeOK` `OneTaskPerQueue` `NoDuplicate` `StopKeeps` `Answered` `Stops` | 420,937 |
| `timestamp` | `Timestamp.cfg` | `TypeOK` `Structure` `Coherent` `Recent` `ImplementsUserValues` | 186,381 |
| `outbox` | `Outbox.cfg` | `NoGhost` `NewestShown` `Told` | 96,416 |
| `feed_store` | `FeedStore.cfg` | `TypeOK` `Coherent` `Heals` | 396,874 |
| `store_update2` | `FeedStoreUpdate2.cfg` | `MatchTold`, violated | |
| `tcp_socket` | `TcpSocket.cfg` | `Framed` `Stream` `Progress` | 75,111 |

**shm_ring.** A ring of 7 bytes, headers of 2, bodies of 0, 1 or 3. Blocks of 2, 3
and 5 bytes are coprime to 7, so in four blocks headers and bodies begin and wrap at
every offset, the ring is full after one, two or three blocks, down to its last usable
byte, and bodies need `pull_buf` to grow or not. Deaths and failing `realloc`s at any step.
No byte still to be read is overwritten (`NoOverwrite`), what a pull returns is the
next block as it was pushed, or -1 for a skipped one (`IntactFifo`), positions and
unread bytes agree (`Accounting`), and all of it is a bounded FIFO
(`ImplementsFifo`). The proofs of section 5 lift the four safety properties and the
refinement to every size. Deadlock is not checked: after `MaxBlocks` pushes there is
nothing more to do.

**channel.** Two of the shortest blocks fill the ring, or one of the longest, a batch takes
two, one wake-up swallows two tokens, four calls: a block must wait on the list or be
dropped, the list has to be flushed by a later turn of the main loop, and three blocks need a
second wake-up. Nothing fails and the pipe has room; what a full pipe does to wake-ups is not
part of this run. The four lengths are a short one, the longest that fits, one that passes the
length check and never fits, and one that is refused. No wake-up is lost (`WakeUpPending`),
what a safe call returned is true (`SafeKept`), everything in the ring is handled in the end,
and so is everything on the list (`Delivered`), except a block of the third kind and what is
behind it. That exception is the code's (`shmq.cpp:202`), and without it `Delivered` is false.

**channel_faults.** Deaths of both processes at any step, failing `malloc` and
`realloc`, a pipe of one token. Whatever happens, the channel is a `LossyFifo`
(`ImplementsLossyFifo`): order is kept across ring and list, a block is handled at
most once, a death loses only blocks at its own end of the queue.

**links.** Two workers, one descriptor used by two connections one after the other,
two requests, one death of a worker, either program. A worker that holds a dead link
has the CLOSE for it on the way (`StaleIsTold`) and lets go of it (`StaleForgotten`);
`link_up_cli` is never called on a link that is still up (`UpAfterDown`); with ids
compared, no reply or close acts on another connection (`CheckedConnection`). A
second descriptor adds nothing: all state and every block are per descriptor, and
reuse of one is what the properties are about. A third connection on it repeats what
the second does to the first.

**supervisor.** Two workers and conn, two deaths, SIGTERM at any time, any
initialisation or fork failing. No role has two processes (`OneOfARole`), main knows
all of its children until it returns (`Managed`), a child that died serves again
unless something has given up for good (`Restarted`), a stop that has begun ends
(`StopCompletes`). Two workers are the least at which a worker, another worker and
conn are all different; two deaths let a replacement die too.

**feed_cache.** Two work processes, two connections, beside each other on two ids or one after
the other on one, two feeds, two requests of tasks, one fault, queues of one message, SIGTERM
and other signals at any time. An id used again makes an answer meet a
connection that has its task's old id; two queues and two tasks are the least at which two
entries of the vector stand for one queue. `OneTaskPerQueue` holds in spite of the doubled
vectors, since the first free entry is taken and at most as many tasks as queues are
let in. `NoDuplicate`: a feed moves, is lost at worst, and is never at two places.
`StopKeeps`: the order of the stop loses no accepted feed. `Answered`: a task that waits
is answered or closed while nothing fails. `Stops`: a server told to stop comes down, also if
a process died before or during the stop, except in three cases that are the code's: the
monitor sleeps on with the flag set (`Overslept`), the net process waits for the requests of a
dead work process (`Orphaned`), or a restart before the stop has ended the monitor or hung it.
Each is needed: without any one of them TLC finds the property violated.

**timestamp.** Three users over a cache of two nodes, a pool of three, two timestamps,
every failure of the database, ends and deaths. Three users make every insert evict; the
node evicted, the node found and the node just taken are all different or not. The pool
holds one node more than the cache, which `ASSUME PoolHoldsOneMore` computes from
`mempool_create`'s rounding for the sizes in use. Its `Structure`, the values in the
cache (`Coherent`), the order of eviction (`Recent`) and the whole against `UserValues`.

**outbox.** One worker, as the configuration of the outbox server has it
(`feed/outbox_serv/conf/bench.conf:69`): with two, a fill may overtake a change and
`NewestShown` is false. Two users so that one answer of the storage is cut into two
lists; three feeds over a list of two, so that one does not fit; one broken connection or
failure. Nobody looks at an outbox whose change is on its way or whose list is being
filled (`Settled`), nor at one that has missed a change (`missed`): the code does not
repair it until memcached forgets the list. `late` excuses lists into which a feed older
than others came, where the last place of a shortened list is not known to be right.

**feed_store.** Two workers, two active feeds of which one is a start user's, one passive
feed, two requests, one fault: two requests are the least that overlap, and any two of the
fourteen kinds do, between any two of their calls, from every state that earlier requests
may have left. Feeds of overlapping or cut-short changes are `torn`, and `Coherent` says
nothing of them: it is about each kind of request by itself, from any state of rows and
entries, beside requests for other feeds and among gets of the same one. The races
and the partial failures are covered by `Heals` alone: even those feeds recover, because what
memcached gets expires, all but the entries of start users, which stay for good.

**tcp_socket.** Heads of two bytes, packages of two to five and one that is too long, a
receive buffer of four that must grow to five, up to three packages in; send buffers of
two bytes, a list of two, up to three packages out. Every cut of the stream. The long
sequences of one direction are combined with a short one of the other, since the two meet
in `m_is_closed` only.

In `Links`, `Supervisor` and the modules of the feed servers deadlock is not checked where
the system may really stop: no client may ever come, a server that has been stopped does
nothing, and a bound on requests is used up. `Timestamp` always has another request.

Each property has a mutant of the code it is about (the definitions commented "plausible
bug" in the modules): a bound off by one, a token not written, a flag not
looked at, a wait that forgets a child. TLC finds the property violated when its
mutant takes the place of the original.

The runs marked "violated" check one property each that a document of the repository
states and the code does not have; section 6 describes them.

## 4. Fairness

- `ShmChannel!FairSpec`: weak fairness of each process's steps except new calls,
  faults and deaths. The producer's main loop runs at least once a second, since
  `epoll_wait` has a timeout, and calls `pruge_recv` every time; the consumer's epoll
  is level triggered on the pipe.
- `Links!FairSpec`: weak fairness of `RecvEvent` only. That a worker's reactor keeps
  taking blocks is what `ShmChannel` shows; clients and plugins owe nothing.
- `Supervisor!FairSpec`: weak fairness of main and of each child's own steps: a
  process that can run does. No signal and no death is assumed to come. A child that
  spends its life initialising is thereby excluded, which the code cannot ensure for a
  plugin's `init`; `Restarted` and `StopCompletes` hold for plugins that return.

- `TcpSocket!FairSocketSpec`: weak fairness of `Recv`, `Read` and `HandleOutput`. The loop of
  `handle_input` goes on by itself, epoll is level triggered, and the client is assumed
  to read: one that never does keeps its list full for ever, rightly.
- `FeedCache!FairSpec`: weak fairness of the monitor (its tests, restarts, the call of
  `pause()` and the stop), of each work process, and in the net
  process of each queue's answers, each connection's buffer and the end of the loop.
  `child_main` visits all of them in each turn. No client owes anything, no fault has to
  come, and no signal either: nothing promises that one comes to a monitor that sleeps.
- `Outbox!FairSpec`: weak fairness of the worker and of a child that gives up; strong
  fairness of taking a user's change. The worker takes other requests between two chances
  for this one, each of which disables it for a while; its loop hands it every
  request that waits at its connections, so a change is not passed over for ever.
- `FeedStore!FairSpec`: weak fairness of each worker's next call, and of the expiry of an
  entry that has a time to expire: memcached gives it up at the latest when asked for it.

## 5. What is proved

For every value of the constants, by TLAPS. The assumptions on the constants are the
named `ASSUME`s of the modules (sizes are naturals, headers not empty, and for the
channel `TokenMax <= BatchMax`, which in the code is 1024 and 1024; for the timestamp
server a pool of one node more than the cache; for the outbox server one worker, and users
that are finitely many; for the storage server finitely many feeds and some data to write; for
a connection's bytes a first buffer and a longest package that hold a head).
Thirty-one results in eight modules; each proof module's head says what its invariant
adds to the properties.

**ShmRing_proofs**: `TypeCorrect`, `NeverOverwrites` (`NoOverwrite`),
`DeliversIntact` (`IntactFifo`), `CountsRight` (`Accounting`), `RingImplementsFifo`
(`ImplementsFifo`). None of the properties is inductive: that a pull returns the right
bytes depends on what lies in the ring, and that on what a push in the middle of its
copy may touch. The invariant `IInv` is `TypeOK`, `Positions` (`w_pos` is the number
of unread bytes after `r_pos`, and one byte is free), `Stream` (blocks follow each
other without gaps and `read` stands at a boundary), `Content` (each unread cell holds
its byte of the stream), `Pushing` (the block being pushed fits and its bytes so far
lie behind `w_pos`), `Pulling` (what has been copied out is a prefix of the next
block) and `IntactFifo` itself. The lemmas on `Advance` and distances in a ring come
first; a push's byte falls outside every unread cell because the two are at different
distances from `r_pos`.

**ShmChannel_proofs**: `TypeCorrect`, `NoLostWakeUp` (`WakeUpPending`),
`ChannelIsLossyFifo` (`ImplementsLossyFifo`), `SafePushesKept` (`SafeKept`). `IInv` is `TypeOK`, `Shape` (what each
position of the two processes implies), `Older` (every block anywhere is older than
the call being served while that call's block is still to be put somewhere),
`Counted` (no more tokens than blocks, no more blocks than calls) and `Tokens` (blocks
in the ring are covered by tokens and the batch). `Counted` is what makes the pipe
large enough in `NoLostWakeUp`; `TokenMax <= BatchMax` is what lets one wake-up answer
for all the tokens it swallows. For the refinement, `PushPut` and the appending
`PushWait` are sends, `Handle` is the receive, `PullFails` and a consumer's death with
a block in hand lose the oldest, a producer's death loses the latest; all other steps
change nothing `LossyFifo` sees, among them `PrugePut` and `Pull`, which move a block
from one place to the next. `SafePushesKept` needs one more invariant, `Kept`: while
nothing fails, the blocks under way or handled only become more, a block whose call has
returned is among them or not as the call said, and so is one whose token is still to be
written.

**Links_proofs**: `TypeCorrect`, `DeadLinksTold` (`StaleIsTold`), `RepliesReachTheirAsker`
(`CheckedConnection`), `LoginsFindNoLink` (`UpAfterDown`), for every number of workers,
descriptors, connections and deaths. `StaleIsTold` alone is not inductive, since taking a
LOGIN or a request makes the worker believe in whatever link the block names. `IInv` reads
the worker's flags and its queue together. *Told*: whoever believes in a dead link, be it
the worker or a block still in its queue, is followed in the queue by the link's CLOSE.
*Apart*: a block that names another link on the same descriptor than the worker or an
earlier block comes after a CLOSE for that descriptor, which is why a LOGIN finds no link.
*Owned*: a pending request is one of the link that the worker believes in, so the id in a
reply is its asker's, and the comparison in `c_sevent` decides rightly.

The same module proves of `TcpSocket`: `PackagesAreFramed` (`Framed`), `StreamIsKept`
(`Stream`), for every size of the buffers, limit and list of packages, and wherever `recv` and
`send` cut the bytes. The invariant `SocketInv` has a part for each direction. *Incoming*, as
long as `memcpy` has smeared nothing: the buffer is the piece of the client's stream that ends
with the last byte received and has `pos` at the start of the first package not handed on
(`Cut`), so the head that `get_pkg_len_cli` sees is that package's; and outside the READ loop
there is room in the buffer, since the rest of a package whose length is known is shorter than
the buffer and one whose length is not is shorter than a head. *Outgoing*: what `send` has taken,
followed by what the list holds behind `m_send_pos`, is the queued packages joined; no buffer of
the list is empty or longer than `BufLen`, and `m_send_pos` lies inside the first. The lemmas
say what `FlattenSeq` does with an element more, with two lists joined and with a list cut in
two (`FlattenMore`, `FlattenConcat`, `FlattenSplit`), where its parts end (`FlattenEnds`), how
many buffers a package takes (`CountIs`, `BuffersAre`), and how many an output empties
(`WholeIs`). `FlattenSeq` is a recursive function; since the induction theorems are out of
reach, that its values exist is shown by the least number where they would not (`AlwaysJoins`).

**Timestamp_proofs**: `TypeCorrect`, `CacheAndPoolAgree` (`Structure`), `CacheCoherent`
(`Coherent`), `ServerIsUserValues` (`ImplementsUserValues`), `CacheIsRecent` (`Recent`), for
every set of users and
limit of nodes. The addresses ever taken from the pool's block, `1 .. pos`, are split into
the nodes in use, which the list lists once each, and the freed ones, which the stack lists
once each (`Books`). With an empty stack there are therefore as many nodes in use as were
taken, at most `MaxNodes`, and the block has one left: an insert cannot fail, so the cache
never keeps a value that the database has replaced, which is `Coherent`, and an eviction
loses nothing, which is the refinement. `CacheIsRecent` has an invariant of its own, `Order`:
the list mirrors the front of the history of users, and it is the whole history until the
cache has filled up once.

**FeedCache_proofs**: `TypeCorrect`, `TasksApart` (`OneTaskPerQueue`), `StopLosesNothing`
(`StopKeeps`), `NeverDoubled` (`NoDuplicate`), for every number of processes, connections,
feeds and faults. The vector of
queues may have grown to any multiple of `NWorks`, and two of its entries may stand for
one queue. The invariant `Tasks` says that the entries in use are those of registered
tasks, one each, and among the first `NWorks`: a task is let in while fewer than `NWorks`
are registered, so one of the first `NWorks` entries is free and the first free one lies
at or before it. `Kept` follows an accepted feed from the request queue through its work process
into the cache queue, and says what each process that has ended left empty. For
`NeverDoubled` the feeds stand in lines, one for each queue, buffer and process (`Held`), and
no feed stands in two places of them (`OneAtMost`): a step takes feeds out of a line, moves
the first of one line to the end of another, or lets in a feed that is newer than all others.

**Outbox_proofs**: `NothingGone` (`NoGhost`), `NewestAreShown` (`NewestShown`), for every
number of users, feeds and faults and every size of the lists. Both properties speak of a
user for whom nothing is under way, and hold because of what every list that is under way
shows: the one in memcached, the one the worker has read, the one the storage has answered
with. Each holds feeds of the storage and at most the feed that the pending change takes
out (`Shows`); while no feed comes late, the pending new feed is the newest of all (`Top`) and
no other feed that a list leaves out is newer than one it has (`Leaves`). `Neat` keeps the
lists in order and within the limit, and `Book` a change pending from the write of the
storage to the answer of the outbox. The lemmas are about sorting, cutting, inserting and
flattening: what `Sorted` returns, that a front of a front is one, that an answer, cut
wherever its users change, has each user's list whole. The proof needs `OneWorker`, which is
the server's configuration (`bench.conf:69`): a second worker may fill a list while the first
holds a change.

**FeedStore_proofs**: `TypesHold` (`TypeOK`), `RowsAreShown` (`Coherent`), for every number of
workers, feeds, requests and faults. `Coherent` speaks of feeds that no request is on, and of
what the calls before left there. Two requests that meet on a feed, one of them a change,
have torn all their feeds (`Apart`), and of a change all feeds are torn or none (`Entire`); so a
change whose feeds are not torn has them to itself. Where it stands is one of five states
(`Right`): its query comes next and memcached shows its feeds; it takes entries and then their
rows away; its row is changed and a `replace`, or `update2`'s look for an entry, comes next; the
rows are done and the calls left bring every entry in line. Each call leads from one of them
to one of them with the rest of the calls, forgetting entries stays in them, and with no
calls left all of them say that memcached shows the feeds. A get is told apart by `Reading`: what
it still stores is a row as it is, unless the feed is torn. The lemmas give for each kind of
request the calls it starts with and the state they are in.

**Supervisor_proofs**: `TypeCorrect`, `OneProcessPerRole` (`OneOfARole`),
`NoChildEscapes` (`Managed`), for every number of workers and deaths. `IInv` adds to
`TypeOK`: `Known` (a child not yet reaped, dead or alive, stands in `pid` under its
role), `Vacant` (when main is about to fork for a role, all former processes of that
role have been reaped), `Booting` (while main starts up, it has forked the roles before
the present one and no others) and `Returned`. `OneOfARole` needs `Known`: two living
processes of a role would both be the one entry of `pid`.

Only model-checked: all liveness (`Delivered`, `StaleForgotten`, `Restarted`,
`StopCompletes`, `Answered`, `Stops`, `Told`, `Heals`, `Progress`), which is out of the
prover's reach under fairness. Every safety property of a passing run is proved.
The upper bound
`free <= Size` of the channel's ring is a sum over the blocks in it and not in its type
invariant; the ring's own accounting is proved in `ShmRing_proofs`.

`ShmChannel` uses `ShmFifo`'s operators in place of the ring. That the ring implements
them is `RingImplementsFifo`; the composition of the two levels is by that substitution
and not by a theorem of its own. What makes it sound is that the channel calls the ring
from one producer and one consumer, which `OneProcessPerRole` proves.

## 6. Disagreements between code and documents

Met while modelling; `PROJECT.json` quotes the lines.

- `links_unchecked`: async_server looks up the socket of a reply by its descriptor
  alone, so a late answer reaches the client that took the descriptor over.
- `store_update2`: `update2` of a feed that has no row is answered with success and
  stores nothing, where the protocol has an error for exactly this.

Other behaviours that a reader may not expect, all of them among the hazards, with what the
runs show around them: a child that fails to come up exits with the code of an orderly end
and is not forked again; a `fork` that fails in a restart ends main and leaves its children
alone; SIGTERM between the test of `g_stop` and `waitpid` is noticed with the next death of
a child only (`Supervisor` has all three: `Restarted` excepts the roles that have given up
and `StopCompletes` begins where main has noticed). The monitor of the cache server has a
window of its own: a signal between its tests and `pause()`, or while `reboot_children` runs,
is not looked at before another one comes. A work process of it that is dead when the stop
begins is not started again; if its request queue holds a message, the net process waits for
it and keeps its own heartbeat fresh, so `uninit` has no time-out and the stop hangs. A child
that ends before it has set `inited` hangs the monitor in a restart (`FeedCache` has all three:
they are the exceptions of `Stops`). `recv_push` returns 0 for an unsafe block that was dropped, and a token
that finds the pipe full is not made up for (`ShmChannel` has both; `Delivered` is checked
with room in the pipe). A safe block of `size-16` to `size-1` bytes passes the length check,
never fits and blocks its list (`Stuck`, the exception of `Delivered`). After a death between a push and its token the blocks in
the ring wait for the next push. A child of `feed/process` whose connection to the outbox
server broke skips the outbox for the rest of its life (`Outbox!Skip`). An entry of a start
user that was torn in `FeedStore` stays wrong until somebody changes it. A `set` onto a feed
that is there gives it a second row, as do two inserts at a time. `userid_compare_func` is no
order for ids more than 2^31 apart, so that the timestamp of a user may not be found.

## 7. Not modelled

Within the modelled components:

- Weaker memory models than x86 for the ring; the `idle` and `inited` words of a queue's
  head in `ShmChannel`.
- Deaths of conn in `Links`: its ids start again at 1 while workers keep their links, so
  most of the module's properties are false afterwards and no document promises otherwise.
- The drain loops of a stopping worker, and the answers that a worker writes after conn has
  gone: they are lost by construction.
- In `Supervisor`, a SIGTERM sent to a child itself and a conn without a listener.
- In `FeedCache`, the first start of the processes, the statistics log and the cutting of
  packages; in `Outbox`, the assembly of the reader's answer; in `FeedStore`, the requests
  for lists of ids, which only read, and `set_key`.
- MySQL, memcached, Berkeley DB, plugins, the kernel and the binary libraries of the cache
  server: external, modelled from what the code asks of them.

Components without a module, and why nothing is gained by one:

- *Reactor*. `Links` and `TcpSocket` take one event at a time, which is what the reactor
  does with each event of a batch. What remains is that an earlier event of a batch may
  have deleted the handler of a later one: an access to freed memory, whose outcomes
  cannot be listed at this level. It is a hazard in the list.
- *Back-end links*, *the copy of async_server in friend_serv*, *poutbox*: the same code as
  `tcp_socket.cpp`, `async_server` and `outbox.cpp`. A module would repeat another one.
- *Services* (`strategy.cpp`, `service.cpp`): a tree changed by one thread with no failure
  between two steps, within reach of unit tests.
- *Proxy* and *recommendation pools*: commands to redis, one request at a time. A pipeline
  may be done in part, and a change of master may lose commands; nothing in the repository
  relates the keys afterwards or repairs them, so there is no promise to check.
- *Configuration, log, plugin loader, client library, PHP jobs, CGI programs*: parsing,
  formatting and I/O with little state to relate. *Third-party and generated code*: about
  half of the repository's lines, and not its own logic.
