----------------------------- MODULE TcpSocket -----------------------------
(***************************************************************************)
(* The bytes of one client's connection (tcp_socket.cpp): packages cut out *)
(* of whatever recv returns, and packages kept in a list of buffers until  *)
(* the client takes them.  Links has the life of connections and what the  *)
(* workers are told of it; here a package is its bytes <<number, index>>.  *)
(***************************************************************************)
EXTENDS Integers, Sequences, FiniteSets, SequencesExt

CONSTANTS
    HeadLen,     \* bytes get_pkg_len_cli needs to tell a package's length
    MaxLen,      \* g_max_pkg_len
    FirstSize,   \* first size of the receive buffer (4096)
    BufLen,      \* BUF_LEN of a send buffer
    ListSize,    \* MAX_SEND_LIST_SIZE (1024)
    MaxIn,       \* packages the client sends
    MaxOut       \* packages it is sent

ASSUME SocketAssumption ==
    /\ HeadLen \in 1 .. FirstSize /\ HeadLen <= MaxLen
    /\ {FirstSize, BufLen, ListSize} \subseteq Nat \ {0} /\ {MaxLen, MaxIn, MaxOut} \subseteq Nat

VARIABLES
    in_lens,     \* lengths of the packages the client sends
    out_lens,    \* lengths of the packages given to send_pkg
    state,       \* "open", "closing" (m_is_closed), or why the connection is gone
    buf,         \* m_recv_buf up to m_recv_pos
    size,        \* m_recv_buf_size
    pos,         \* pos of handle_input
    reading,     \* handle_input is in its loop
    taken,       \* bytes recv has returned
    handed,      \* history: the packages given to recv_push
    smeared,     \* history: memcpy has copied overlapping bytes the wrong way round
    m_send_list, m_send_pos,
    armed,       \* EPOLLOUT is asked for
    queued,      \* history: the packages send_pkg has taken
    tried,       \* history: the packages given to send_pkg
    wire         \* history: the bytes send has taken

in == <<in_lens, buf, size, pos, reading, taken, handed, smeared>>
out == <<out_lens, m_send_list, m_send_pos, armed, queued, tried, wire>>
socket_vars == <<in, out, state>>

Lengths == HeadLen .. MaxLen
TooLong == MaxLen + 1

SocketInit ==
    \* the two directions meet in m_is_closed only: one of them is kept short
    /\ in_lens \in BoundedSeq(Lengths \cup {TooLong}, MaxIn) /\ out_lens \in BoundedSeq(Lengths, MaxOut)
    /\ in_lens = <<HeadLen>> \/ out_lens = <<>>
    /\ state = "open"
    /\ buf = <<>> /\ size = FirstSize /\ pos = 0 /\ reading = FALSE /\ taken = 0
    /\ handed = <<>> /\ smeared = FALSE
    /\ m_send_list = <<>> /\ m_send_pos = 0 /\ armed = FALSE
    /\ queued = <<>> /\ tried = 0 /\ wire = <<>>

Package(k, len) == [i \in 1 .. len |-> <<k, i>>]
Bytes(lens) == FlattenSeq([k \in DOMAIN lens |-> Package(k, lens[k])])
Alive == state \in {"open", "closing"}

(***************************************************************************)
(* handle_input.                                                           *)
(***************************************************************************)

Room == size - Len(buf)
Rest == Len(Bytes(in_lens)) - taken
\* recv is given the room that is left.  A buffer without room would make it return 0,
\* which is taken for the client's end.
Recv ==
    /\ Alive /\ ~ reading /\ Rest > 0 /\ pos' = 0
    /\ IF Room = 0
       THEN state' = "no room" /\ UNCHANGED <<buf, reading, taken>>
       ELSE \E n \in 1 .. Min({Room, Rest}) :
              /\ taken' = taken + n
              /\ IF state = "closing" THEN buf' = <<>> /\ UNCHANGED reading
                 ELSE /\ buf' = buf \o SubSeq(Bytes(in_lens), taken + 1, taken + n)
                      /\ reading' = TRUE
              /\ UNCHANGED state
    /\ UNCHANGED <<in_lens, size, handed, smeared, out>>

\* get_pkg_len_cli, external: 0 as long as the head is not complete, and anything when the
\* bytes are no head.
PkgLens(bytes) ==
    IF Len(bytes) < HeadLen THEN {0}
    ELSE IF \E k \in DOMAIN in_lens : SubSeq(bytes, 1, HeadLen) = Package(k, HeadLen)
         THEN {in_lens[bytes[1][1]]}
         ELSE 0 .. TooLong

\* memcpy of overlapping bytes: undefined.  Libraries copy from the front, which is what
\* is meant, or from the back, which copies bytes it has already overwritten.
After(bytes, p) == SubSeq(bytes, p + 1, Len(bytes))
Backwards(bytes, p) ==
    LET n == Len(bytes) - p
        moved[i \in 1 .. n] == IF p + i <= n THEN moved[p + i] ELSE bytes[p + i]
    IN [i \in 1 .. n |-> moved[i]]
Move(bytes, p) ==
    /\ buf' \in IF p = 0 THEN {bytes} ELSE {After(bytes, p), Backwards(bytes, p)}
    /\ smeared' = (smeared \/ buf' # After(bytes, p))
    /\ pos' = 0 /\ reading' = FALSE

Complete(len) == pos + len <= Len(buf)
GrowsAnywhere(len) == len > size           \* plausible bug: what was handed is not moved out
Grows(len) == pos = 0 /\ len > size        \* realloc, for the first package only
Read ==
    /\ reading
    /\ \E len \in PkgLens(After(buf, pos)) :
         IF len > MaxLen
         THEN state' = "bad length" /\ reading' = FALSE /\ UNCHANGED <<buf, size, pos, handed, smeared>>
         ELSE IF len = 0 /\ pos = 0 /\ Len(buf) = size
         THEN state' = "big head" /\ reading' = FALSE /\ UNCHANGED <<buf, size, pos, handed, smeared>>
         ELSE /\ UNCHANGED state
              /\ IF len = 0 \/ (~ Grows(len) /\ ~ Complete(len))
                 THEN Move(buf, pos) /\ UNCHANGED <<size, handed>>
                 ELSE IF Grows(len)
                 THEN size' = len /\ reading' = FALSE /\ UNCHANGED <<buf, pos, handed, smeared>>
                 ELSE /\ handed' = Append(handed, SubSeq(buf, pos + 1, pos + len))
                      /\ IF pos + len < Len(buf)
                         THEN pos' = pos + len /\ UNCHANGED <<buf, reading, smeared>>
                         ELSE Move(buf, pos + len)
                      /\ UNCHANGED size
    /\ UNCHANGED <<in_lens, taken, out>>

(***************************************************************************)
(* send_pkg, handle_output, shut, handle_error.                            *)
(***************************************************************************)

Listed == FlattenSeq(m_send_list)
Pending == SubSeq(Listed, m_send_pos + 1, Len(Listed))

\* New buffers for the bytes, all of them full but the last.
Buffers(bytes) ==
    [b \in 1 .. (Len(bytes) + BufLen - 1) \div BufLen |->
       SubSeq(bytes, (b - 1) * BufLen + 1, Min({b * BufLen, Len(bytes)}))]
\* The last buffer takes what it has room for.
Appended(bytes) ==
    LET n == Min({BufLen - Len(Last(m_send_list)), Len(bytes)})
    IN [m_send_list EXCEPT ![Len(m_send_list)] = @ \o SubSeq(bytes, 1, n)] \o Buffers(After(bytes, n))

\* After n bytes of the list: whole buffers are given back, m_send_pos is in the first.
Whole(n) == Cardinality({b \in DOMAIN m_send_list : Len(FlattenSeq(SubSeq(m_send_list, 1, b))) <= n})
PosKept(n) == n                              \* plausible bug: m_send_pos is not reset
PosAfter(n) == n - Len(FlattenSeq(SubSeq(m_send_list, 1, Whole(n))))

ArmNever == UNCHANGED armed                  \* plausible bug: EPOLLOUT is not asked for
Arm == armed' = TRUE

SocketSendPkg ==
    /\ Alive /\ tried < Len(out_lens)
    /\ tried' = tried + 1
    /\ LET bytes == Package(tried', out_lens[tried']) IN
       IF m_send_list # <<>>
       THEN /\ IF Len(m_send_list) >= ListSize THEN UNCHANGED <<m_send_list, queued>>
               ELSE m_send_list' = Appended(bytes) /\ queued' = Append(queued, tried')
            /\ UNCHANGED <<armed, wire>>
       ELSE /\ queued' = Append(queued, tried')
            /\ \E n \in 0 .. Len(bytes) :      \* what send takes, 0 for EAGAIN
                 /\ wire' = wire \o SubSeq(bytes, 1, n)
                 /\ m_send_list' = Buffers(After(bytes, n))
                 /\ IF n = Len(bytes) THEN UNCHANGED armed ELSE Arm
    /\ UNCHANGED <<in, state, out_lens, m_send_pos>>

\* Until send takes no more or the list is empty.
HandleOutput ==
    /\ Alive /\ armed
    /\ \E n \in 1 .. Len(Pending) :
         LET end == m_send_pos + n IN
         /\ wire' = wire \o SubSeq(Pending, 1, n)
         /\ m_send_list' = After(m_send_list, Whole(end))
         /\ m_send_pos' = PosAfter(end)
    /\ IF m_send_list' # <<>> THEN UNCHANGED <<state, armed>>
       ELSE IF state = "closing" THEN state' = "shut" /\ UNCHANGED armed
       ELSE armed' = FALSE /\ UNCHANGED state
    /\ UNCHANGED <<in, out_lens, queued, tried>>

SocketShut ==
    /\ state = "open" /\ ~ reading
    /\ state' = IF m_send_list = <<>> THEN "shut" ELSE "closing"
    /\ UNCHANGED <<in, out>>

\* The client hangs up, recv or send fails, memory runs out.
SocketHandleError ==
    /\ Alive
    /\ state' = "error" /\ reading' = FALSE
    /\ UNCHANGED <<in_lens, buf, size, pos, taken, handed, smeared, out>>

SocketNext == Recv \/ Read \/ SocketSendPkg \/ HandleOutput \/ SocketShut \/ SocketHandleError

SocketSpec == SocketInit /\ [][SocketNext]_socket_vars
\* The loop goes on, the reactor calls for what epoll reports, the client reads.
FairSocketSpec == SocketSpec /\ WF_socket_vars(Recv) /\ WF_socket_vars(Read) /\ WF_socket_vars(HandleOutput)

(***************************************************************************)
(* Properties.                                                             *)
(***************************************************************************)

\* However the client's bytes arrive, the workers get its packages one by one, whole and
\* in order; the connection is not closed for want of room, nor for a length that is
\* allowed; and the buffer stays within the longest package.  memcpy from the back is the
\* exception: what it smears is lost.
Framed == ~ smeared =>
    /\ handed = [k \in DOMAIN handed |-> Package(k, in_lens[k])]
    /\ state \notin {"no room", "big head"}
    /\ state = "bad length" => in_lens[Len(handed) + 1] = TooLong
    /\ Len(buf) <= size /\ size <= Max({FirstSize, MaxLen})

\* However the client takes them, it gets the packages send_pkg has taken, whole and in
\* order, in spite of those dropped between them; all of them when the server closes the
\* connection; and one package at most goes beyond the limit of the list.
QueuedBytes == FlattenSeq([i \in DOMAIN queued |-> Package(queued[i], out_lens[queued[i]])])
Stream ==
    /\ IsPrefix(wire, QueuedBytes)
    /\ Alive => wire \o Pending = QueuedBytes
    /\ state = "shut" => wire = QueuedBytes
    /\ Len(m_send_list) <= ListSize + (MaxLen - 1) \div BufLen

\* Nothing is left lying: in the end every byte is taken from the client, every package
\* handed on and every queued byte sent, or the connection is gone.
Progress == <>[](\/ ~ Alive \/ smeared
                 \/ Pending = <<>> /\ state = "open" /\ Rest = 0 /\ Len(handed) = Len(in_lens))
=============================================================================
