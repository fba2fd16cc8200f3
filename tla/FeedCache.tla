----------------------------- MODULE FeedCache -----------------------------
(***************************************************************************)
(* The feed cache server (feed/cache_serv): a net process that talks to    *)
(* the producers of feeds and to the tasks that consume them, work         *)
(* processes that each keep one queue of feeds, a pair of shared-memory    *)
(* queues between the net process and each of them, and the monitor        *)
(* process that starts them again and stops them.                          *)
(*                                                                         *)
(* The queues (i_ring_queue, i_cache_queue) and the socket library         *)
(* (i_net_io_server) are binaries outside the repository.  They are        *)
(* modelled from their use: a push succeeds or fails as a whole, a pop     *)
(* takes the oldest message, a connection's id is any number that no open  *)
(* connection has.                                                         *)
(***************************************************************************)
EXTENDS Integers, Sequences, FiniteSets, SequencesExt

CONSTANTS
    NWorks,      \* work processes (work_proc_count)
    ConnIds,     \* connection ids of the socket library
    MaxFeeds,    \* feeds the producers send
    MaxOpens,    \* connections ever opened
    MaxPulls,    \* feed requests of tasks
    MaxFaults,   \* deaths of processes and failing pushes
    QueueCap     \* messages that fit into a shared-memory queue

ASSUME FeedCacheAssumption ==
    /\ NWorks \in Nat \ {0}
    /\ MaxFeeds \in Nat /\ MaxOpens \in Nat /\ MaxPulls \in Nat
    /\ MaxFaults \in Nat /\ QueueCap \in Nat \ {0}

VARIABLES
    monitor,     \* the monitor process, see Loop and TypeOK
    term, chld,  \* g_got_sig_term and g_got_sig_chld
    net,         \* the net process: up, drain, done, dead
    work,        \* the work processes: up, done, dead
    slots,       \* entries of m_request_queue_vec: init appends NWorks each time
    used,        \* entries whose used_flag is set
    conns,       \* m_conn_map: the open connections
    task_map,    \* m_task_map: connection of a task -> its entry
    out,         \* send_buffer of each connection, the whole answers in it
    req, resp,   \* the shared-memory queues of each work process
    busy,        \* the request a work process has popped, if any
    cache,       \* m_p_cache_queue of each work process
    accepted,    \* history: feeds the producers sent and saw accepted
    delivered,   \* history: feeds handed to a connection, in order
    asked,       \* history: feeds popped from a cache for a task
    dropped,     \* history: feeds the net process dropped at its end
    waiting,     \* connections that wait for an answer
    sent, opens, pulls, faults  \* counters for the bounds

flags == <<term, chld>>
server == <<monitor, flags, net, work, slots, used, conns, task_map, out>>
queues == <<req, resp, busy, cache>>
history == <<accepted, delivered, asked, dropped, waiting>>
bounds == <<sent, opens, pulls, faults>>
vars == <<server, queues, history, bounds>>

\* Where the monitor is in its main loop: at the test of g_got_sig_term, in
\* reboot_children, behind the tests and before pause(), in pause().
Loop == {"look", "reboot", "pausing", "asleep"}

Works == 0 .. NWorks - 1
Feeds == 1 .. MaxFeeds
NoFeed == 0                        \* the answer cmd_id 0xFFFF: the cache is empty
UserOf(f) == f                     \* any user: feeds go to the queues in turn
Owner(f) == UserOf(f) % NWorks     \* user_id % m_work_proc_count
QueueOf(s) == (s - 1) % NWorks     \* the queue behind an entry of the vector

\* Messages in the request queues, with the connection id appended to them.
So(f) == [kind |-> "so", feed |-> f]
Pull(c) == [kind |-> "pull", conn |-> c]
Answer(c, f) == [conn |-> c, feed |-> f]
Requests == {So(f) : f \in Feeds} \cup {Pull(c) : c \in ConnIds}
Answers == {Answer(c, f) : c \in ConnIds, f \in Feeds \cup {NoFeed}}

Init ==
    /\ monitor = "look" /\ term = FALSE /\ chld = FALSE
    /\ net = "up" /\ work = [w \in Works |-> "up"]
    /\ slots = NWorks /\ used = {} /\ conns = {} /\ task_map = <<>>
    /\ out = [c \in ConnIds |-> <<>>]
    /\ req = [w \in Works |-> <<>>] /\ resp = [w \in Works |-> <<>>]
    /\ busy = [w \in Works |-> <<>>] /\ cache = [w \in Works |-> <<>>]
    /\ accepted = {} /\ delivered = <<>> /\ asked = {} /\ dropped = {}
    /\ waiting = {}
    /\ sent = 0 /\ opens = 0 /\ pulls = 0 /\ faults = 0

(***************************************************************************)
(* The net process.                                                        *)
(***************************************************************************)

\* on_new_connection
NewConnection(c) ==
    /\ net = "up" /\ c \notin conns /\ opens < MaxOpens
    /\ conns' = conns \cup {c}
    /\ out' = [out EXCEPT ![c] = <<>>]
    /\ opens' = opens + 1
    /\ UNCHANGED <<monitor, flags, net, work, slots, used, task_map, queues, history,
                   sent, pulls, faults>>

Registered(c) == c \in DOMAIN task_map

\* on_connection_closed: the task's entry is free again.
FreedByNothing(c) == used        \* plausible bug: used_flag is not given back
FreedBy(c) == IF Registered(c) THEN used \ {task_map[c]} ELSE used
Forget(c) ==
    /\ conns' = conns \ {c}
    /\ used' = FreedBy(c)
    /\ task_map' = Restrict(task_map, DOMAIN task_map \ {c})
    /\ out' = [out EXCEPT ![c] = <<>>]
    /\ waiting' = waiting \ {c}
KeepConns == UNCHANGED <<conns, used, task_map, out>>

\* The peer closes, or on_recv_data returned -1 and the library closes.
Closed(c) ==
    /\ net = "up" /\ c \in conns
    /\ Forget(c)
    /\ UNCHANGED <<monitor, flags, net, work, slots, queues, accepted, delivered,
                   asked, dropped, bounds>>

\* deal_task_conn_request: a full map is answered 0xFFFF; a second request of a
\* connection that has an entry is refused and closes it; otherwise the first
\* free entry is taken.  With no free entry nothing is answered (line 334).
FreeSlotsUnchecked == 1 .. slots \* plausible bug: used_flag is not looked at
FreeSlots == (1 .. slots) \ used
ConnRequest(c) ==
    /\ net = "up" /\ c \in conns \ waiting
    /\ IF Cardinality(DOMAIN task_map) = NWorks THEN UNCHANGED waiting /\ KeepConns
       ELSE IF FreeSlots = {} THEN waiting' = waiting \cup {c} /\ KeepConns
       ELSE IF Registered(c) THEN Forget(c)
       ELSE /\ task_map' = [d \in DOMAIN task_map \cup {c} |->
                              IF d = c THEN Min(FreeSlots) ELSE task_map[d]]
            /\ used' = used \cup {Min(FreeSlots)}
            /\ UNCHANGED <<conns, out, waiting>>
    /\ UNCHANGED <<monitor, flags, net, work, slots, queues, accepted, delivered,
                   asked, dropped, bounds>>

\* deal_task_feed_request: only a registered task is served; a request that does
\* not go into the queue closes the connection.
FeedRequest(c) ==
    /\ net = "up" /\ c \in conns \ waiting /\ pulls < MaxPulls
    /\ pulls' = pulls + 1
    /\ IF Registered(c) /\ Len(req[QueueOf(task_map[c])]) < QueueCap
       THEN /\ req' = [req EXCEPT ![QueueOf(task_map[c])] = Append(@, Pull(c))]
            /\ waiting' = waiting \cup {c}
            /\ KeepConns
       ELSE /\ Forget(c)
            /\ UNCHANGED req
    /\ UNCHANGED <<monitor, flags, net, work, slots, resp, busy, cache, accepted,
                   delivered, asked, dropped, sent, opens, faults>>

\* deal_so_request: a producer's feed goes to the queue of its user.  The answer
\* says whether it went in; if that answer cannot be sent the connection is closed.
SoRequest(c) ==
    LET f == sent + 1
        w == Owner(f)
    IN /\ net = "up" /\ c \in conns \ waiting /\ sent < MaxFeeds
       /\ sent' = f
       /\ IF Len(req[w]) < QueueCap
          THEN /\ req' = [req EXCEPT ![w] = Append(@, So(f))]
               /\ accepted' = accepted \cup {f}
          ELSE UNCHANGED <<req, accepted>>
       /\ \/ /\ KeepConns
             /\ UNCHANGED waiting
          \/ Forget(c)
       /\ UNCHANGED <<monitor, flags, net, work, slots, resp, busy, cache, delivered,
                      asked, dropped, opens, pulls, faults>>

HandedAll(f) == Append(delivered, f) \* plausible bug: 0xFFFF is taken for a feed
Handed(f) == IF f = NoFeed THEN delivered ELSE Append(delivered, f)

\* deal_response_msg and send_data, one answer: the library takes it whole, or part
\* of it stays in send_buffer; behind an answer in send_buffer it waits; a failure
\* closes the connection.  An answer for a connection that has gone is dropped.
DealResponse(w) ==
    /\ net = "up" /\ resp[w] # <<>>
    /\ resp' = [resp EXCEPT ![w] = Tail(@)]
    /\ LET a == Head(resp[w])
           c == a.conn
       IN \/ /\ c \in conns /\ out[c] = <<>>
             /\ delivered' = Handed(a.feed)
             /\ waiting' = waiting \ {c}
             /\ KeepConns
          \/ /\ c \in conns
             /\ out' = [out EXCEPT ![c] = Append(@, a)]
             /\ UNCHANGED <<delivered, waiting, conns, used, task_map>>
          \/ /\ c \in conns
             /\ Forget(c)
             /\ UNCHANGED delivered
          \/ /\ c \notin conns
             /\ KeepConns
             /\ UNCHANGED <<delivered, waiting>>
    /\ UNCHANGED <<monitor, flags, net, work, slots, req, busy, cache, accepted, asked,
                   dropped, bounds>>

\* Plausible bug: send_buffer_data_len is not reduced by what was sent.
SendBufferStays(c) ==
    /\ net = "up" /\ c \in conns /\ out[c] # <<>>
    /\ delivered' = Handed(Head(out[c]).feed)
    /\ waiting' = waiting \ {c}
    /\ UNCHANGED <<monitor, flags, net, work, slots, used, conns, task_map, out, queues,
                   accepted, asked, dropped, bounds>>

\* send_response_buffer: what was left in send_buffer goes out.
SendBuffer(c) ==
    /\ net = "up" /\ c \in conns /\ out[c] # <<>>
    /\ delivered' = Handed(Head(out[c]).feed)
    /\ out' = [out EXCEPT ![c] = Tail(@)]
    /\ waiting' = waiting \ {c}
    /\ UNCHANGED <<monitor, flags, net, work, slots, used, conns, task_map, queues,
                   accepted, asked, dropped, bounds>>

\* A signal wakes the monitor only out of pause(); at any other time its handler
\* just sets the flag.
Woken == IF monitor = "asleep" THEN "look" ELSE monitor
ChildSignal == chld' = TRUE /\ monitor' = Woken /\ UNCHANGED term

NetGone ==
    /\ conns' = {} /\ used' = {} /\ task_map' = <<>> /\ waiting' = {}
    /\ out' = [c \in ConnIds |-> <<>>]

\* The net process dies, or send_response_buffer meets a failing connection and
\* child_main returns (line 191): every connection goes with it.
NetDies ==
    /\ net \in {"up", "drain"} /\ faults < MaxFaults
    /\ net' = "dead" /\ NetGone /\ ChildSignal
    /\ faults' = faults + 1
    /\ UNCHANGED <<work, slots, queues, accepted, delivered, asked, dropped, sent,
                   opens, pulls>>

\* The end of the main loop in child_main: the library is closed first.
NetLeaves ==
    /\ net = "up" /\ monitor = "stopnet"
    /\ net' = "drain" /\ NetGone
    /\ UNCHANGED <<monitor, flags, work, slots, queues, accepted, delivered, asked,
                   dropped, bounds>>

\* Plausible bugs: child_main does not wait, or waits for the answers too, which nobody
\* but itself takes.
NetEndsWhen(cond) ==
    /\ net = "drain" /\ cond
    /\ net' = "done"
    /\ resp' = [w \in Works |-> <<>>]
    /\ UNCHANGED <<monitor, flags, work, slots, used, conns, task_map, out, req, busy,
                   cache, history, bounds>>
NetEndsEarly == NetEndsWhen(TRUE)
NetEndsEmpty == NetEndsWhen(\A w \in Works : req[w] = <<>> /\ resp[w] = <<>>)

\* child_main after the loop: wait until the request queues are empty, then pop the
\* answers.  The library has been released (line 197): nothing can be sent, and the
\* calls on it may also end the process.
NetEnds ==
    /\ net = "drain" /\ \A w \in Works : req[w] = <<>>
    /\ net' \in {"done", "dead"}
    /\ resp' = [w \in Works |-> <<>>]
    /\ dropped' = dropped \cup
         ({a.feed : a \in UNION {Range(resp[w]) : w \in Works}} \ {NoFeed})
    /\ UNCHANGED <<monitor, flags, work, slots, used, conns, task_map, out, req, busy,
                   cache, accepted, delivered, asked, waiting, bounds>>

(***************************************************************************)
(* The work processes.                                                     *)
(***************************************************************************)

\* c_work_proc::deal_request_msg: pop_data
WorkPop(w) ==
    /\ work[w] = "up" /\ busy[w] = <<>> /\ req[w] # <<>>
    /\ busy' = [busy EXCEPT ![w] = <<Head(req[w])>>]
    /\ req' = [req EXCEPT ![w] = Tail(@)]
    /\ UNCHANGED <<server, resp, cache, history, bounds>>

\* deal_so_request: push into the cache queue.
WorkStore(w) ==
    /\ work[w] = "up" /\ busy[w] # <<>> /\ busy[w][1].kind = "so"
    /\ cache' = [cache EXCEPT ![w] = Append(@, busy[w][1].feed)]
    /\ busy' = [busy EXCEPT ![w] = <<>>]
    /\ UNCHANGED <<server, req, resp, history, bounds>>

\* deal_task_request: pop from the cache queue, or answer that it is empty.  A push
\* into a full response queue fails: the answer, and the feed in it, are gone.
WorkAnswer(w) ==
    /\ work[w] = "up" /\ busy[w] # <<>> /\ busy[w][1].kind = "pull"
    /\ LET feed == IF cache[w] = <<>> THEN NoFeed ELSE Head(cache[w])
           a == Answer(busy[w][1].conn, feed)
           full == Len(resp[w]) >= QueueCap
       IN /\ resp' = IF full THEN resp ELSE [resp EXCEPT ![w] = Append(@, a)]
          /\ faults' = IF full THEN faults + 1 ELSE faults
          /\ asked' = asked \cup ({feed} \ {NoFeed})
    /\ cache' = IF cache[w] = <<>> THEN cache ELSE [cache EXCEPT ![w] = Tail(@)]
    /\ busy' = [busy EXCEPT ![w] = <<>>]
    /\ UNCHANGED <<server, req, accepted, delivered, dropped, waiting, sent, opens,
                   pulls>>

\* The cache queue fails to push or to pop: the message is gone.
WorkLoses(w) ==
    /\ work[w] = "up" /\ busy[w] # <<>> /\ faults < MaxFaults
    /\ busy' = [busy EXCEPT ![w] = <<>>]
    /\ faults' = faults + 1
    /\ UNCHANGED <<server, req, resp, cache, history, sent, opens, pulls>>

\* What may be left of a queue that loses some of its feeds.
Remains(queue) ==
    LET picks == {p \in UNION {[1 .. n -> DOMAIN queue] : n \in 0 .. Len(queue)} :
                    \A i, j \in DOMAIN p : i < j => p[i] < p[j]}
    IN {[i \in DOMAIN p |-> queue[p[i]]] : p \in picks}

\* A work process dies; what its cache queue had only in memory is lost.
WorkDies(w) ==
    /\ work[w] = "up" /\ faults < MaxFaults
    /\ work' = [work EXCEPT ![w] = "dead"]
    /\ busy' = [busy EXCEPT ![w] = <<>>]
    /\ \E kept \in Remains(cache[w]) : cache' = [cache EXCEPT ![w] = kept]
    /\ faults' = faults + 1
    /\ ChildSignal
    /\ UNCHANGED <<net, slots, used, conns, task_map, out, req, resp, history, sent,
                   opens, pulls>>

\* The end of the main loop of a work process, told by uninit in main's order.
WorkEnds(w) ==
    /\ monitor = "stopwork" /\ work[w] = "up" /\ busy[w] = <<>>
    /\ \A v \in Works : v < w => work[v] # "up"
    /\ work' = [work EXCEPT ![w] = "done"]
    /\ UNCHANGED <<monitor, flags, net, slots, used, conns, task_map, out, queues,
                   history, bounds>>

(***************************************************************************)
(* The monitor process (main.cpp).                                         *)
(***************************************************************************)

\* The head of the main loop: SIGTERM ends it, SIGCHLD is dealt with first.
Look ==
    /\ monitor = "look"
    /\ monitor' = IF term THEN "stopnet" ELSE IF chld THEN "reboot" ELSE "pausing"
    /\ chld' = (chld /\ term)
    /\ UNCHANGED <<term, net, work, slots, used, conns, task_map, out, queues,
                   history, bounds>>

\* reboot_children: a new work process takes over the queues of the dead one.
RebootWork(w) ==
    /\ monitor = "reboot" /\ work[w] = "dead"
    /\ work' = [work EXCEPT ![w] = "up"]
    /\ UNCHANGED <<monitor, flags, net, slots, used, conns, task_map, out, queues,
                   history, bounds>>

\* reboot_children: c_net_proc::init appends to the vectors that main still has
\* from the first start, so the new process has every queue once more.
RebootNet ==
    /\ monitor = "reboot" /\ net = "dead"
    /\ net' = "up"
    /\ slots' = slots + NWorks
    /\ UNCHANGED <<monitor, flags, work, used, conns, task_map, out, queues, history,
                   bounds>>

ChildDead == "dead" \in {net} \cup {work[w] : w \in Works}

\* init of the new child fails: main returns -1 and its children run on.  Or the
\* new child ends before it has set inited: main waits for that for ever.
RebootFails ==
    /\ monitor = "reboot" /\ ChildDead
    /\ monitor' \in {"gone", "stuck"}
    /\ UNCHANGED <<flags, net, work, slots, used, conns, task_map, out, queues,
                   history, bounds>>

\* waitpid finds no more: back in the loop, on the way to pause().
RebootDone ==
    /\ monitor = "reboot" /\ ~ChildDead
    /\ monitor' = "pausing"
    /\ UNCHANGED <<flags, net, work, slots, used, conns, task_map, out, queues,
                   history, bounds>>

\* pause(): what came since the tests has set its flag and is not looked at.
Pause ==
    /\ monitor = "pausing"
    /\ monitor' = "asleep"
    /\ UNCHANGED <<flags, net, work, slots, used, conns, task_map, out, queues,
                   history, bounds>>

\* SIGTERM, which may be sent again to a monitor that sleeps on.
Terminate ==
    /\ monitor \in Loop /\ (term => monitor = "asleep")
    /\ term' = TRUE /\ monitor' = Woken
    /\ UNCHANGED <<chld, net, work, slots, used, conns, task_map, out, queues,
                   history, bounds>>

\* SIGINT and SIGQUIT do nothing but end a pause().
Interrupt ==
    /\ monitor = "asleep"
    /\ monitor' = Woken
    /\ UNCHANGED <<flags, net, work, slots, used, conns, task_map, out, queues,
                   history, bounds>>

\* uninit_instance: the net process has ended, or its heartbeat has stopped.
StopWorks ==
    /\ monitor = "stopnet" /\ net \in {"done", "dead"}
    /\ monitor' = "stopwork"
    /\ UNCHANGED <<flags, net, work, slots, used, conns, task_map, out, queues, history,
                   bounds>>

Down ==
    /\ monitor = "stopwork" /\ \A w \in Works : work[w] # "up"
    /\ monitor' = "down"
    /\ UNCHANGED <<flags, net, work, slots, used, conns, task_map, out, queues, history,
                   bounds>>

Monitor ==
    \/ Look \/ (\E w \in Works : RebootWork(w)) \/ RebootNet \/ RebootDone \/ Pause
    \/ StopWorks \/ Down
Net == (\E w \in Works : DealResponse(w)) \/ (\E c \in ConnIds : SendBuffer(c))
         \/ NetLeaves \/ NetEnds
Work(w) == WorkPop(w) \/ WorkStore(w) \/ WorkAnswer(w) \/ WorkEnds(w)
Clients ==
    \E c \in ConnIds :
        \/ NewConnection(c)
        \/ Closed(c)
        \/ ConnRequest(c)
        \/ FeedRequest(c)
        \/ SoRequest(c)
Signals == Terminate \/ Interrupt
Faults == NetDies \/ RebootFails \/ (\E w \in Works : WorkLoses(w) \/ WorkDies(w))

Next == Monitor \/ Net \/ (\E w \in Works : Work(w)) \/ Clients \/ Faults \/ Signals
Spec == Init /\ [][Next]_vars

\* Each loop goes on while its process lives, and visits every queue and every
\* connection in each turn; the peer of a connection reads what it is sent.
FairSpec ==
    /\ Spec
    /\ WF_vars(Monitor)
    /\ \A w \in Works : WF_vars(Work(w)) /\ WF_vars(DealResponse(w))
    /\ \A c \in ConnIds : WF_vars(SendBuffer(c))
    /\ WF_vars(NetLeaves) /\ WF_vars(NetEnds)

(***************************************************************************)
(* Properties.                                                             *)
(***************************************************************************)

\* Every variable holds what the code can store in it.
TypeOK ==
    /\ monitor \in Loop \cup {"stopnet", "stopwork", "down", "gone", "stuck"}
    /\ term \in BOOLEAN /\ chld \in BOOLEAN
    /\ net \in {"up", "drain", "done", "dead"}
    /\ work \in [Works -> {"up", "done", "dead"}]
    /\ slots \in Nat /\ used \subseteq 1 .. slots
    /\ conns \subseteq ConnIds /\ waiting \subseteq conns
    /\ DOMAIN task_map \subseteq conns
    /\ Range(task_map) \subseteq used
    /\ \A c \in ConnIds : Range(out[c]) \subseteq Answers
    /\ \A w \in Works :
         /\ Range(req[w]) \cup Range(busy[w]) \subseteq Requests
         /\ Range(resp[w]) \subseteq Answers
         /\ Range(cache[w]) \subseteq Feeds
         /\ Len(busy[w]) <= 1
         /\ Len(req[w]) <= QueueCap /\ Len(resp[w]) <= QueueCap
    /\ Range(delivered) \cup accepted \cup asked \cup dropped \subseteq Feeds

\* No queue of feeds serves two tasks at a time, and the entries in use are exactly
\* those of the tasks that are connected: not even after the net process was started
\* again, when every queue stands in m_request_queue_vec twice (deal_task_conn_request
\* takes the first entry that is free, on_connection_closed gives it back).
OneTaskPerQueue ==
    /\ used = Range(task_map)
    /\ \A c, d \in DOMAIN task_map :
         c # d => QueueOf(task_map[c]) # QueueOf(task_map[d])

\* Lines in which feeds stand, and the feeds in them; a message without one has NoFeed.
FeedOf(m) == IF "feed" \in DOMAIN m THEN m.feed ELSE NoFeed
FeedsIn(messages) == [i \in DOMAIN messages |-> FeedOf(messages[i])]
Lines == ({"req", "busy", "cache", "resp"} \X Works) \cup ({"out"} \X ConnIds)
           \cup {<<"delivered", 0>>}
Line(l) ==
    CASE l[1] = "req" -> FeedsIn(req[l[2]])
      [] l[1] = "busy" -> FeedsIn(busy[l[2]])
      [] l[1] = "cache" -> cache[l[2]]
      [] l[1] = "resp" -> FeedsIn(resp[l[2]])
      [] l[1] = "out" -> FeedsIn(out[l[2]])
      [] l[1] = "delivered" -> delivered

\* A feed that was accepted is at one place only, and is handed to a task once: moved
\* from queue to queue, through deaths and restarts of either process and a connection
\* id that is used again, it is lost at worst and never doubled.
NoDuplicate ==
    \A l, k \in Lines : \A i \in DOMAIN Line(l), j \in DOMAIN Line(k) :
        Line(l)[i] = Line(k)[j] /\ Line(l)[i] # NoFeed => l = k /\ i = j

\* A stop loses no feed: when the monitor has stopped the server and nothing failed,
\* each feed a producer was told is accepted is in a cache queue, unless it was
\* popped for a task (child_main of the net process waits for the request queues,
\* uninit_instance stops it before the work processes).
StopKeeps ==
    monitor = "down" /\ faults = 0 =>
        accepted \ asked \subseteq UNION {Range(cache[w]) : w \in Works}

\* The monitor fell asleep with SIGTERM's flag set: the signal came between the
\* test and pause(), or while reboot_children ran.
Overslept == monitor = "asleep" /\ term

\* The net process waits for a request queue whose work process is dead.  It keeps
\* its own heartbeat fresh, so uninit waits for it, and nobody reads that queue.
Orphaned ==
    /\ monitor = "stopnet" /\ net = "drain"
    /\ \E w \in Works : work[w] = "dead" /\ req[w] # <<>>

\* Told to stop by SIGTERM, the server comes down, whatever dies meanwhile: the net
\* process finds its request queues empty once, each work process leaves its loop, a
\* dead one is given up.  Unless one of three things lasts: the monitor sleeps on
\* with the flag set (no signal comes after it), the net process waits for the
\* queue of a dead work process, or starting a child again failed before the stop,
\* which ends the monitor or leaves it waiting for ever.
Stops ==
    <>term => \/ <>(monitor \in {"down", "gone", "stuck"})
              \/ <>[]Overslept \/ <>[]Orphaned

\* A task that asked for a feed gets an answer, or its connection is closed, while no
\* process dies and no queue fails.  Its recv_data has no time limit.
Answered == \A c \in ConnIds : c \in waiting ~> (c \notin waiting \/ faults > 0)

=============================================================================
