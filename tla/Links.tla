------------------------------- MODULE Links --------------------------------
(***************************************************************************)
(* Client connections across processes.  The connection process owns the   *)
(* sockets (tcp_socket.cpp) and tells every worker of each connection that *)
(* opens or closes; a worker keeps g_link_flags, the connection id it      *)
(* believes to be on each fd, and answers requests through its reply       *)
(* queue, which c_sevent resolves back to a socket by fd.  The kernel      *)
(* gives the fd of a closed connection to the next one.                    *)
(*                                                                         *)
(* The queues are the FIFO channels of ShmChannel with their ring and      *)
(* push_list taken together.  The plugin is external: it answers the       *)
(* requests it got in any order and at any time, may close a link, and     *)
(* forgets a link's requests when it closes it or link_down_cli is called. *)
(*                                                                         *)
(* async_server resolves a reply by fd alone; its fork in friend_serv also *)
(* compares the connection id: check_link_id tells them apart.             *)
(***************************************************************************)
EXTENDS Integers, Sequences, FiniteSets, FiniteSetsExt

CONSTANTS
  Workers,
  Fds,            (* descriptors the kernel gives to connections          *)
  Programs,       (* {FALSE}: async_server, {TRUE}: friend_serv's copy,   *)
                  (* BOOLEAN: either                                      *)
  MaxConns,       (* bound: connections ever accepted                     *)
  MaxPkgs,        (* bound: requests ever received                        *)
  MaxCrashes      (* bound: deaths of workers                             *)

ASSUME LinksAssumption ==
  /\ Fds \subseteq Nat /\ IsFiniteSet(Fds)
  /\ Programs \subseteq BOOLEAN
  /\ MaxConns \in Nat /\ MaxPkgs \in Nat /\ MaxCrashes \in Nat

VARIABLES
  sock,       (* c_reactor::m_handlers: the c_tcp_socket on each fd       *)
  m_id,       (* c_reactor::m_id: the id given last                       *)
  recv_queue, (* blocks on their way to each worker                       *)
  send_queue, (* blocks on their way from each worker                     *)
  g_link_flags,  (* in each worker: the id on each fd, 0 for none         *)
  pending,    (* in each plugin: requests not yet answered                *)
  acted,      (* history: the last block c_sevent applied to a socket     *)
  pkgs, crashes, (* counters for the bounds                               *)
  check_link_id  (* c_sevent compares ids; never changes                  *)

connVars == <<sock, m_id, acted>>
workVars == <<g_link_flags, pending>>
vars == <<connVars, recv_queue, send_queue, workVars, pkgs, crashes,
          check_link_id>>

Ids == 1 .. MaxConns

(* A socket object: its m_id, m_is_closed, and whether m_send_list holds   *)
(* anything.                                                               *)
Closed == [id |-> 0, closing |-> FALSE, backlog |-> FALSE]
Open(fd) == sock[fd].id # 0

(* A block; "asker" is the connection it is meant for, which the code does *)
(* not carry.                                                              *)
Block(type, fd, id, asker) ==
  [type |-> type, fd |-> fd, id |-> id, asker |-> asker]

-----------------------------------------------------------------------------
Init ==
  /\ sock = [fd \in Fds |-> Closed]
  /\ m_id = 0
  /\ recv_queue = [w \in Workers |-> <<>>]
  /\ send_queue = [w \in Workers |-> <<>>]
  /\ g_link_flags = [w \in Workers |-> [fd \in Fds |-> 0]]
  /\ pending = [w \in Workers |-> {}]
  /\ acted = [on |-> 0, for |-> 0]
  /\ pkgs = 0 /\ crashes = 0
  /\ check_link_id \in Programs

-----------------------------------------------------------------------------
(* The connection process.                                                 *)

(* recv_push of one block to every worker, all of them safe. *)
NotifyAll(b) == recv_queue' = [w \in Workers |-> Append(recv_queue[w], b)]

(* handle_fini: off the reactor, closed, deleted. *)
Fini(fd) == sock' = [sock EXCEPT ![fd] = Closed]

CloseOf(fd) == Block("CLOSE", fd, sock[fd].id, sock[fd].id)

(* Mutant of HandleError: the workers are not told. *)
HandleErrorQuiet(fd) == Fini(fd) /\ UNCHANGED recv_queue

(* handle_error: workers are told, unless shut has told them already. *)
HandleError(fd) ==
  /\ IF sock[fd].closing THEN UNCHANGED recv_queue ELSE NotifyAll(CloseOf(fd))
  /\ Fini(fd)

(* c_tcp_accept::handle_input: accept returns the lowest free fd, start    *)
(* gives it the next id and announces it; or the plugin's check_open_cli   *)
(* turns the client away before anything is announced.                     *)
Accept ==
  LET free == {fd \in Fds : ~Open(fd)}
      fd   == Min(free)
      id   == m_id + 1
  IN /\ free # {} /\ m_id < MaxConns
     /\ m_id' = id
     /\ \/ /\ sock' = [sock EXCEPT ![fd] = [Closed EXCEPT !.id = id]]
           /\ NotifyAll(Block("LOGIN", fd, id, id))
        \/ UNCHANGED <<sock, recv_queue>>
     /\ UNCHANGED <<acted, send_queue, workVars, pkgs, crashes, check_link_id>>

(* Mutant of Request: m_is_closed is not looked at. *)
RequestClosing(fd, w) ==
  /\ Open(fd) /\ pkgs < MaxPkgs
  /\ pkgs' = pkgs + 1
  /\ \/ recv_queue' = [recv_queue EXCEPT ![w] =
          Append(@, Block("PROTO", fd, sock[fd].id, sock[fd].id))]
     \/ UNCHANGED recv_queue
  /\ UNCHANGED <<connVars, send_queue, workVars, crashes, check_link_id>>

(* c_tcp_socket::handle_input finds a whole package and pushes it to one   *)
(* worker, unsafely: a full queue drops it.  What a connection that is     *)
(* being shut still sends is thrown away.                                  *)
Request(fd, w) ==
  /\ Open(fd) /\ pkgs < MaxPkgs
  /\ pkgs' = pkgs + 1
  /\ \/ /\ ~sock[fd].closing
        /\ recv_queue' = [recv_queue EXCEPT ![w] =
             Append(@, Block("PROTO", fd, sock[fd].id, sock[fd].id))]
     \/ UNCHANGED recv_queue
  /\ UNCHANGED <<connVars, send_queue, workVars, crashes, check_link_id>>

(* handle_input returns false (end of stream, error, bad length) or epoll  *)
(* reports an error: handle_error.                                         *)
Hangup(fd) ==
  /\ Open(fd)
  /\ HandleError(fd)
  /\ UNCHANGED <<m_id, acted, send_queue, workVars, pkgs, crashes, check_link_id>>

(* handle_output empties m_send_list.  If the connection is being shut it  *)
(* returns false, and handle_error ends it.                                *)
Flush(fd) ==
  /\ sock[fd].backlog
  /\ IF sock[fd].closing
       THEN HandleError(fd)
       ELSE sock' = [sock EXCEPT ![fd].backlog = FALSE] /\ UNCHANGED recv_queue
  /\ UNCHANGED <<m_id, acted, send_queue, workVars, pkgs, crashes, check_link_id>>

(* Mutant of Shut: with a backlog the workers are to be told at the end. *)
ShutLater(fd) ==
  IF sock[fd].backlog
    THEN sock' = [sock EXCEPT ![fd].closing = TRUE] /\ UNCHANGED recv_queue
    ELSE NotifyAll(CloseOf(fd)) /\ Fini(fd)

(* shut: workers are told each time; a backlog is sent first. *)
Shut(fd) ==
  /\ NotifyAll(CloseOf(fd))
  /\ IF sock[fd].backlog
       THEN sock' = [sock EXCEPT ![fd].closing = TRUE]
       ELSE Fini(fd)

(* send_pkg: the package is sent or joins m_send_list; or send fails or no *)
(* buffer is left.                                                         *)
SendPkg(fd) ==
  \/ UNCHANGED <<sock, recv_queue>>
  \/ /\ ~sock[fd].backlog
     /\ sock' = [sock EXCEPT ![fd].backlog = TRUE]
     /\ UNCHANGED recv_queue
  \/ HandleError(fd)

(* Mutant of Resolves: a missing handler is not noticed. *)
ResolvesClosed(b) == check_link_id => sock[b.fd].id = b.id

(* Mutant of Resolves: ids are compared only for replies. *)
ResolvesReplies(b) ==
  /\ Open(b.fd)
  /\ check_link_id /\ b.type = "PROTO" => sock[b.fd].id = b.id

(* The lookup of c_sevent::handle_input. *)
Resolves(b) ==
  /\ Open(b.fd)
  /\ check_link_id => sock[b.fd].id = b.id

(* One turn of c_sevent::handle_input's loop. *)
SendEvent(w) ==
  /\ send_queue[w] # <<>>
  /\ send_queue' = [send_queue EXCEPT ![w] = Tail(@)]
  /\ LET b == Head(send_queue[w])
     IN IF Resolves(b)
          THEN /\ IF b.type = "CLOSE" THEN Shut(b.fd) ELSE SendPkg(b.fd)
               /\ acted' = [on |-> sock[b.fd].id, for |-> b.asker]
          ELSE UNCHANGED <<sock, recv_queue, acted>>
  /\ UNCHANGED <<m_id, workVars, pkgs, crashes, check_link_id>>

-----------------------------------------------------------------------------
(* A worker and its plugin.                                                *)

SetFlag(w, fd, id) == g_link_flags' = [g_link_flags EXCEPT ![w][fd] = id]

(* The plugin drops what it keeps for a link. *)
Forget(w, fd) == pending' = [pending EXCEPT ![w] = {r \in @ : r.fd # fd}]

(* One turn of c_revent::handle_input's loop. *)
RecvEvent(w) ==
  /\ recv_queue[w] # <<>>
  /\ recv_queue' = [recv_queue EXCEPT ![w] = Tail(@)]
  /\ LET b == Head(recv_queue[w])
     IN CASE b.type = "PROTO" ->
               /\ SetFlag(w, b.fd, b.id)
               /\ pending' = [pending EXCEPT ![w] =
                                @ \cup {[fd |-> b.fd, asker |-> b.asker]}]
          [] b.type = "CLOSE" ->
               IF g_link_flags[w][b.fd] # 0
                 THEN SetFlag(w, b.fd, 0) /\ Forget(w, b.fd)
                 ELSE UNCHANGED workVars
          [] b.type = "LOGIN" ->
               SetFlag(w, b.fd, b.id) /\ UNCHANGED pending
  /\ UNCHANGED <<connVars, send_queue, pkgs, crashes, check_link_id>>

(* net_send_cli: refused if the link is down, else pushed under the id     *)
(* that g_link_flags holds now.                                            *)
Reply(w) ==
  /\ \E r \in pending[w] :
       /\ pending' = [pending EXCEPT ![w] = @ \ {r}]
       /\ IF g_link_flags[w][r.fd] = 0
            THEN UNCHANGED send_queue
            ELSE send_queue' = [send_queue EXCEPT ![w] = Append(@,
                   Block("PROTO", r.fd, g_link_flags[w][r.fd], r.asker))]
  /\ UNCHANGED <<connVars, recv_queue, g_link_flags, pkgs, crashes,
                 check_link_id>>

(* net_close_cli, called by the plugin for a link it sees up. *)
CloseLink(w, fd) ==
  LET id == g_link_flags[w][fd]
  IN /\ id # 0
     /\ send_queue' = [send_queue EXCEPT ![w] =
          Append(@, Block("CLOSE", fd, id, id))]
     /\ SetFlag(w, fd, 0)
     /\ Forget(w, fd)
     /\ UNCHANGED <<connVars, recv_queue, pkgs, crashes, check_link_id>>

(* A worker dies and is forked again: flags and plugin start afresh, what  *)
(* was still on its push_list is lost.                                     *)
WorkerCrash(w) ==
  /\ crashes < MaxCrashes
  /\ crashes' = crashes + 1
  /\ g_link_flags' = [g_link_flags EXCEPT ![w] = [fd \in Fds |-> 0]]
  /\ pending' = [pending EXCEPT ![w] = {}]
  /\ \E n \in 0 .. Len(send_queue[w]) :
       send_queue' = [send_queue EXCEPT ![w] = SubSeq(@, 1, n)]
  /\ UNCHANGED <<connVars, recv_queue, pkgs, check_link_id>>

-----------------------------------------------------------------------------
Conn ==
  \/ Accept
  \/ \E fd \in Fds : Hangup(fd) \/ Flush(fd)
  \/ \E fd \in Fds, w \in Workers : Request(fd, w)
  \/ \E w \in Workers : SendEvent(w)

Work(w) ==
  \/ RecvEvent(w) \/ Reply(w) \/ WorkerCrash(w)
  \/ \E fd \in Fds : CloseLink(w, fd)

Next == Conn \/ \E w \in Workers : Work(w)

Spec == Init /\ [][Next]_vars

(* A worker's reactor keeps taking blocks. *)
FairSpec == Spec /\ \A w \in Workers : WF_vars(RecvEvent(w))

-----------------------------------------------------------------------------
(* Properties.                                                             *)

Blocks == [type : {"LOGIN", "PROTO", "CLOSE"}, fd : Fds, id : Ids, asker : Ids]

TypeOK ==
  /\ sock \in [Fds -> [id : Ids \cup {0}, closing : BOOLEAN, backlog : BOOLEAN]]
  /\ m_id \in Ids \cup {0}
  /\ recv_queue \in [Workers -> Seq(Blocks)]
  /\ send_queue \in [Workers -> Seq(Blocks)]
  /\ g_link_flags \in [Workers -> [Fds -> Ids \cup {0}]]
  /\ pending \in [Workers -> SUBSET [fd : Fds, asker : Ids]]
  /\ acted \in [on : Ids \cup {0}, for : Ids \cup {0}]
  /\ pkgs \in 0 .. MaxPkgs /\ crashes \in 0 .. MaxCrashes
  /\ check_link_id \in Programs

(* A reply or a close that a worker made for one connection acts on that   *)
(* connection or on none: an fd taken over by a new client never gives it  *)
(* the answer to somebody else, nor the close meant for somebody else      *)
(* (c_sevent::handle_input).  The code breaks it where the ids are not     *)
(* compared (async_server's shm_sevent.cpp:77).                            *)
RightConnection == acted.on = acted.for

(* It holds where they are compared, whatever happened to the connection,  *)
(* the worker and the queues meanwhile (friend_serv's shm_sevent.cpp:62).  *)
CheckedConnection == check_link_id => RightConnection

(* The connection that worker w believes to be on fd has gone or is going. *)
Stale(w, fd) ==
  /\ g_link_flags[w][fd] # 0
  /\ sock[fd].id # g_link_flags[w][fd] \/ sock[fd].closing

(* A worker that believes a dead link to be up has its CLOSE block on the  *)
(* way, whatever order shut, handle_error, net_close_cli and requests that *)
(* bring the link back (shm_revent.cpp:58) came in.                        *)
StaleIsTold ==
  \A w \in Workers, fd \in Fds : Stale(w, fd) =>
    \E i \in 1 .. Len(recv_queue[w]) :
      /\ recv_queue[w][i].type = "CLOSE"
      /\ recv_queue[w][i].fd = fd /\ recv_queue[w][i].id = g_link_flags[w][fd]

(* link_up_cli is called for an fd only while the worker has no link on    *)
(* it: the link of the last connection there has been taken down first.    *)
UpAfterDown ==
  [][\A w \in Workers :
       LET b == Head(recv_queue[w])
       IN recv_queue[w] # <<>> /\ recv_queue'[w] = Tail(recv_queue[w])
          /\ b.type = "LOGIN" => g_link_flags[w][b.fd] = 0]_vars

(* A worker does not believe a dead link to be up for ever. *)
StaleForgotten ==
  \A w \in Workers, fd \in Fds : Stale(w, fd) ~> ~Stale(w, fd)

=============================================================================
