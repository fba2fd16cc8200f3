----------------------------- MODULE Links_proofs -----------------------------
(***************************************************************************)
(* Proofs about connections: first about Links, what the workers know of   *)
(* them, then about TcpSocket, the bytes of one of them.                   *)
(*                                                                         *)
(* Links, for every number of workers, descriptors, connections, requests  *)
(* and deaths of workers.                                                  *)
(*                                                                         *)
(* The inductive invariant reads a worker's queue together with the flags  *)
(* the worker has now: whoever believes in a dead link, the worker or a    *)
(* block it has still to take, is followed by the link's CLOSE (Told), and *)
(* a block that names another link on the same fd comes after a CLOSE      *)
(* (Apart).  So a plugin's requests are always those of the link that its  *)
(* worker believes in (Owned), and a reply carries the id of its asker.    *)
(*                                                                         *)
(* TcpSocket, for every size of buffers and every list of packages.  What  *)
(* is in the receive buffer is the client's stream from the first package  *)
(* not yet handed on, short of pos (Cut), so that the head read there is   *)
(* that package's, and the buffer has room for more whenever handle_input  *)
(* is not in its loop.  What send has taken and what is still listed       *)
(* together are the queued packages, every buffer of the list holds        *)
(* something and m_send_pos is in the first of them (Outgoing).            *)
(***************************************************************************)
EXTENDS Links, TcpSocket, SequenceTheorems, FiniteSetTheorems, WellFoundedInduction, TLAPS

-----------------------------------------------------------------------------
(* The inductive invariant, over a queue q, a worker's flags f and the     *)
(* sockets s.                                                              *)

Socks == [Fds -> [id : Ids \cup {0}, closing : BOOLEAN, backlog : BOOLEAN]]
Flags == [Fds -> Ids \cup {0}]
Requests == [fd : Fds, asker : Ids]

Live(s, fd, id) == s[fd].id = id /\ ~s[fd].closing

Closes(b, fd, id) == b.type = "CLOSE" /\ b.fd = fd /\ b.id = id

ToldFlags(q, f, s) ==
  \A fd \in Fds : f[fd] # 0 /\ ~Live(s, fd, f[fd]) =>
    \E j \in 1 .. Len(q) : Closes(q[j], fd, f[fd])

ToldBlocks(q, s) ==
  \A i \in 1 .. Len(q) : q[i].type # "CLOSE" /\ ~Live(s, q[i].fd, q[i].id) =>
    \E j \in 1 .. Len(q) : i < j /\ Closes(q[j], q[i].fd, q[i].id)

Ends(b, fd) == b.type = "CLOSE" /\ b.fd = fd

(* A request of the link id: the only block that may follow without CLOSE. *)
Continues(b, id) == b.type = "PROTO" /\ b.id = id

ApartFlags(q, f) ==
  \A j \in 1 .. Len(q) : q[j].type # "CLOSE" /\ f[q[j].fd] # 0 =>
    \/ Continues(q[j], f[q[j].fd])
    \/ \E k \in 1 .. Len(q) : k < j /\ Ends(q[k], q[j].fd)

ApartBlocks(q) ==
  \A i, j \in 1 .. Len(q) :
    i < j /\ q[i].type # "CLOSE" /\ q[j].type # "CLOSE" /\ q[i].fd = q[j].fd =>
      \/ Continues(q[j], q[i].id)
      \/ \E k \in 1 .. Len(q) : i < k /\ k < j /\ Ends(q[k], q[j].fd)

Owns(q) == \A i \in 1 .. Len(q) : q[i].id = q[i].asker

Good(q, f, s) ==
  /\ ToldFlags(q, f, s) /\ ToldBlocks(q, s)
  /\ ApartFlags(q, f) /\ ApartBlocks(q) /\ Owns(q)

Belongs(p, f) == \A r \in p : f[r.fd] = r.asker

Believing == \A w \in Workers : Good(recv_queue[w], g_link_flags[w], sock)
Owned == \A w \in Workers : Belongs(pending[w], g_link_flags[w]) /\ Owns(send_queue[w])

IInv == TypeOK /\ Believing /\ Owned /\ CheckedConnection

-----------------------------------------------------------------------------
(* Lemmas about numbers and sequences.                                     *)

(* A set of numbers that is not empty has a least one.                     *)
LEMMA Lowest ==
  ASSUME NEW S, S \subseteq Nat, S # {}
  PROVE  Min(S) \in S /\ \A y \in S : Min(S) <= y
<1> DEFINE R == OpToRel(<, Nat)
<1>1. PICK x \in S : \A y \in S : ~(<<y, x>> \in R)
  <2>1. IsWellFoundedOn(R, Nat)
    BY NatLessThanWellFounded
  <2> HIDE DEF R
  <2> QED BY <2>1, WFMin
<1>2. \A y \in S : ~(y < x)
  BY <1>1 DEF OpToRel
<1>3. \A y \in S : x <= y
  BY <1>2
<1> QED BY <1>3 DEF Min

LEMMA AppendFacts ==
  ASSUME NEW q \in Seq(Blocks), NEW b \in Blocks
  PROVE  /\ Append(q, b) \in Seq(Blocks)
         /\ Len(Append(q, b)) = Len(q) + 1 /\ Len(q) \in Nat
         /\ \A i \in 1 .. Len(q) : Append(q, b)[i] = q[i]
         /\ Append(q, b)[Len(q) + 1] = b
BY AppendProperties, LenProperties

LEMMA TailFacts ==
  ASSUME NEW q \in Seq(Blocks), q # <<>>
  PROVE  /\ Tail(q) \in Seq(Blocks) /\ Len(q) \in Nat /\ Len(q) >= 1
         /\ Len(Tail(q)) = Len(q) - 1
         /\ \A i \in 1 .. Len(Tail(q)) : Tail(q)[i] = q[i + 1]
         /\ Head(q) = q[1] /\ Head(q) \in Blocks
BY HeadTailProperties, EmptySeq, LenProperties, ElementOfSeq

LEMMA BlockFacts ==
  ASSUME NEW q \in Seq(Blocks), NEW i \in 1 .. Len(q)
  PROVE  /\ q[i] \in Blocks /\ q[i].fd \in Fds /\ q[i].id \in Ids
         /\ q[i].asker \in Ids /\ q[i].type \in {"LOGIN", "PROTO", "CLOSE"}
<1>1. q[i] \in Blocks
  BY ElementOfSeq
<1> QED BY <1>1 DEF Blocks

-----------------------------------------------------------------------------
(* What happens to a queue, the worker's flags and the sockets.            *)

(* The sockets change and no link dies: nobody is to be told who was not   *)
(* before.                                                                 *)
LEMMA SocketsChange ==
  ASSUME NEW q \in Seq(Blocks), NEW f \in Flags, NEW s \in Socks, NEW t \in Socks,
         Good(q, f, s),
         \A fd \in Fds, id \in Ids : Live(s, fd, id) => Live(t, fd, id)
  PROVE  Good(q, f, t)
<1>1. ToldFlags(q, f, t)
  <2> SUFFICES ASSUME NEW fd \in Fds, f[fd] # 0, ~Live(t, fd, f[fd])
               PROVE  \E j \in 1 .. Len(q) : Closes(q[j], fd, f[fd])
    BY DEF ToldFlags
  <2>1. f[fd] \in Ids
    BY DEF Flags
  <2>2. ~Live(s, fd, f[fd])
    BY <2>1
  <2> QED BY <2>2 DEF Good, ToldFlags
<1>2. ToldBlocks(q, t)
  <2> SUFFICES ASSUME NEW i \in 1 .. Len(q), q[i].type # "CLOSE",
                      ~Live(t, q[i].fd, q[i].id)
               PROVE  \E j \in 1 .. Len(q) : i < j /\ Closes(q[j], q[i].fd, q[i].id)
    BY DEF ToldBlocks
  <2>1. ~Live(s, q[i].fd, q[i].id)
    BY BlockFacts
  <2> QED BY <2>1 DEF Good, ToldBlocks
<1> QED BY <1>1, <1>2 DEF Good

(* A worker gives links up. *)
LEMMA FlagsDown ==
  ASSUME NEW q \in Seq(Blocks), NEW f \in Flags, NEW g \in Flags, NEW s \in Socks,
         Good(q, f, s),
         \A fd \in Fds : g[fd] \in {0, f[fd]}
  PROVE  Good(q, g, s)
<1>1. ToldFlags(q, g, s)
  BY DEF Good, ToldFlags
<1>2. ApartFlags(q, g)
  BY BlockFacts DEF Good, ApartFlags
<1> QED BY <1>1, <1>2 DEF Good

(* A CLOSE for the link on fd joins the queue, and that link dies. *)
LEMMA CloseJoins ==
  ASSUME NEW q \in Seq(Blocks), NEW f \in Flags, NEW s \in Socks, NEW t \in Socks,
         NEW b \in Blocks, Good(q, f, s),
         b.type = "CLOSE", b.id = b.asker, b.id = s[b.fd].id,
         \A fd \in Fds \ {b.fd} : t[fd] = s[fd]
  PROVE  Good(Append(q, b), f, t)
<1> DEFINE r == Append(q, b)
<1> DEFINE n == Len(q) + 1
<1>1. /\ r \in Seq(Blocks) /\ Len(r) = n /\ Len(q) \in Nat
      /\ \A i \in 1 .. Len(q) : r[i] = q[i]
      /\ r[n] = b
  BY AppendFacts
<1>2. /\ n \in 1 .. n
      /\ \A i \in 1 .. Len(q) : i \in 1 .. n /\ i < n
      /\ \A i \in 1 .. n : i \in 1 .. Len(q) \/ i = n
  BY <1>1
<1> HIDE DEF r, n
<1>3. \A fd \in Fds, id \in Ids : Live(s, fd, id) /\ ~Live(t, fd, id) => Closes(b, fd, id)
  BY DEF Live, Closes
<1>4. ToldFlags(r, f, t)
  <2> SUFFICES ASSUME NEW fd \in Fds, f[fd] # 0, ~Live(t, fd, f[fd])
               PROVE  \E j \in 1 .. n : Closes(r[j], fd, f[fd])
    BY <1>1 DEF ToldFlags
  <2>1. f[fd] \in Ids
    BY DEF Flags
  <2>2. CASE Live(s, fd, f[fd])
    BY <2>1, <2>2, <1>1, <1>2, <1>3
  <2>3. CASE ~Live(s, fd, f[fd])
    BY <2>3, <1>1, <1>2 DEF Good, ToldFlags
  <2> QED BY <2>2, <2>3
<1>5. ToldBlocks(r, t)
  <2> SUFFICES ASSUME NEW i \in 1 .. n, r[i].type # "CLOSE",
                      ~Live(t, r[i].fd, r[i].id)
               PROVE  \E j \in 1 .. n : i < j /\ Closes(r[j], r[i].fd, r[i].id)
    BY <1>1 DEF ToldBlocks
  <2>1. i \in 1 .. Len(q) /\ r[i] = q[i]
    BY <1>1, <1>2
  <2>2. q[i].fd \in Fds /\ q[i].id \in Ids
    BY <2>1, BlockFacts
  <2>3. CASE Live(s, q[i].fd, q[i].id)
    BY <2>1, <2>2, <2>3, <1>1, <1>2, <1>3
  <2>4. CASE ~Live(s, q[i].fd, q[i].id)
    BY <2>1, <2>4, <1>1, <1>2 DEF Good, ToldBlocks
  <2> QED BY <2>3, <2>4
<1>6. ApartFlags(r, f)
  BY <1>1, <1>2 DEF Good, ApartFlags
<1>7. ApartBlocks(r)
  BY <1>1, <1>2 DEF Good, ApartBlocks
<1>8. Owns(r)
  BY <1>1, <1>2 DEF Good, Owns
<1> QED BY <1>4, <1>5, <1>6, <1>7, <1>8 DEF Good, r

(* A request of a live link joins, or the LOGIN of a link on an fd that    *)
(* had none.                                                               *)
LEMMA LiveJoins ==
  ASSUME NEW q \in Seq(Blocks), NEW f \in Flags, NEW s \in Socks, NEW t \in Socks,
         NEW b \in Blocks, Good(q, f, s),
         b.type # "CLOSE", b.id = b.asker, Live(t, b.fd, b.id),
         \/ b.type = "PROTO" /\ Live(s, b.fd, b.id)
         \/ \A id \in Ids : ~Live(s, b.fd, id),
         \A fd \in Fds, id \in Ids : Live(s, fd, id) => Live(t, fd, id)
  PROVE  Good(Append(q, b), f, t)
<1> DEFINE r == Append(q, b)
<1> DEFINE n == Len(q) + 1
<1>1. /\ r \in Seq(Blocks) /\ Len(r) = n /\ Len(q) \in Nat
      /\ \A i \in 1 .. Len(q) : r[i] = q[i]
      /\ r[n] = b
  BY AppendFacts
<1>2. /\ n \in 1 .. n
      /\ \A i \in 1 .. Len(q) : i \in 1 .. n /\ i < n
      /\ \A i \in 1 .. n : i \in 1 .. Len(q) \/ i = n
  BY <1>1
<1>3. b.fd \in Fds /\ b.id \in Ids
  BY DEF Blocks
<1> HIDE DEF r, n
(* Whoever believes in another link on the fd is told. *)
<1>4. \A id \in Ids : Continues(b, id) \/ ~Live(s, b.fd, id)
  BY DEF Live, Continues
<1>5. Good(q, f, t)
  BY SocketsChange
<1>6. ToldFlags(r, f, t)
  BY <1>1, <1>2, <1>5 DEF Good, ToldFlags
<1>7. ToldBlocks(r, t)
  BY <1>1, <1>2, <1>5 DEF Good, ToldBlocks
<1>8. ApartFlags(r, f)
  <2> SUFFICES ASSUME NEW j \in 1 .. n, r[j].type # "CLOSE", f[r[j].fd] # 0
               PROVE  \/ Continues(r[j], f[r[j].fd])
                      \/ \E k \in 1 .. n : k < j /\ Ends(r[k], r[j].fd)
    BY <1>1 DEF ApartFlags
  <2>1. CASE j \in 1 .. Len(q)
    BY <2>1, <1>1, <1>2 DEF Good, ApartFlags
  <2>2. CASE j = n
    <3>1. r[j] = b /\ f[b.fd] \in Ids
      BY <2>2, <1>1, <1>3 DEF Flags
    <3>2. CASE ~Live(s, b.fd, f[b.fd])
      <4>1. PICK k \in 1 .. Len(q) : Closes(q[k], b.fd, f[b.fd])
        BY <3>1, <3>2, <1>3 DEF Good, ToldFlags
      <4> QED BY <4>1, <3>1, <2>2, <1>1, <1>2 DEF Closes, Ends
    <3> QED BY <3>1, <3>2, <1>4
  <2> QED BY <2>1, <2>2, <1>2
<1>9. ApartBlocks(r)
  <2> SUFFICES ASSUME NEW i \in 1 .. n, NEW j \in 1 .. n, i < j,
                      r[i].type # "CLOSE", r[j].type # "CLOSE", r[i].fd = r[j].fd
               PROVE  \/ Continues(r[j], r[i].id)
                      \/ \E k \in 1 .. n : i < k /\ k < j /\ Ends(r[k], r[j].fd)
    BY <1>1 DEF ApartBlocks
  <2>1. i \in 1 .. Len(q) /\ r[i] = q[i]
    BY <1>1, <1>2 DEF n
  <2>2. CASE j \in 1 .. Len(q)
    BY <2>1, <2>2, <1>1, <1>2 DEF Good, ApartBlocks
  <2>3. CASE j = n
    <3>1. r[j] = b /\ q[i].id \in Ids /\ q[i].fd = b.fd /\ q[i].type # "CLOSE"
      BY <2>1, <2>3, <1>1, BlockFacts
    <3>2. CASE ~Live(s, b.fd, q[i].id)
      <4>1. PICK k \in 1 .. Len(q) : i < k /\ Closes(q[k], b.fd, q[i].id)
        BY <2>1, <3>1, <3>2 DEF Good, ToldBlocks
      <4> QED BY <4>1, <3>1, <2>3, <1>1, <1>2 DEF Closes, Ends
    <3> QED BY <3>1, <3>2, <2>1, <1>4
  <2> QED BY <2>2, <2>3, <1>2
<1>10. Owns(r)
  BY <1>1, <1>2 DEF Good, Owns
<1> QED BY <1>6, <1>7, <1>8, <1>9, <1>10 DEF Good, r

(* The worker takes the head of its queue. *)
LEMMA HeadLeaves ==
  ASSUME NEW q \in Seq(Blocks), NEW f \in Flags, NEW g \in Flags, NEW s \in Socks,
         q # <<>>, Good(q, f, s),
         \A fd \in Fds \ {Head(q).fd} : g[fd] = f[fd],
         g[Head(q).fd] = IF Head(q).type = "CLOSE" THEN 0 ELSE Head(q).id
  PROVE  Good(Tail(q), g, s)
<1> DEFINE b == Head(q)
<1> DEFINE r == Tail(q)
<1>1. /\ r \in Seq(Blocks) /\ Len(q) \in Nat /\ Len(q) >= 1
      /\ Len(r) = Len(q) - 1
      /\ \A i \in 1 .. Len(r) : r[i] = q[i + 1]
      /\ b = q[1] /\ b \in Blocks
  BY TailFacts
<1>2. /\ b.fd \in Fds /\ b.id \in Ids /\ b.type \in {"LOGIN", "PROTO", "CLOSE"}
      /\ 0 \notin Ids
  BY <1>1 DEF Blocks, Ids
<1>3. /\ 1 \in 1 .. Len(q)
      /\ \A i \in 1 .. Len(r) : i + 1 \in 1 .. Len(q) /\ 1 < i + 1 /\ i \in Int
      /\ \A i \in 1 .. Len(q) : i = 1 \/ (i - 1 \in 1 .. Len(r) /\ i = (i - 1) + 1 /\ i \in Int)
  BY <1>1
<1>shift. \A k \in 1 .. Len(q) : k # 1 => k - 1 \in 1 .. Len(r) /\ r[k - 1] = q[k]
  BY <1>1
<1> HIDE DEF b, r
<1>4. \A fd \in Fds \ {b.fd} : g[fd] = f[fd]
  BY DEF b
<1>5. g[b.fd] = IF b.type = "CLOSE" THEN 0 ELSE b.id
  BY DEF b
(* A CLOSE that is not the head is still to come. *)
<1>6. \A fd \in Fds, id \in Ids, j \in 1 .. Len(q) :
        Closes(q[j], fd, id) /\ j # 1 => \E k \in 1 .. Len(r) : j = k + 1 /\ Closes(r[k], fd, id)
  BY <1>1, <1>3
<1>7. ToldFlags(r, g, s)
  <2> SUFFICES ASSUME NEW fd \in Fds, g[fd] # 0, ~Live(s, fd, g[fd])
               PROVE  \E j \in 1 .. Len(r) : Closes(r[j], fd, g[fd])
    BY DEF ToldFlags
  <2>1. g[fd] \in Ids
    BY DEF Flags
  <2>2. CASE fd = b.fd
    <3>1. b.type # "CLOSE" /\ g[fd] = b.id /\ q[1] = b
      BY <2>2, <1>5, <1>1
    <3>2. PICK j \in 1 .. Len(q) : 1 < j /\ Closes(q[j], fd, b.id)
      BY <3>1, <2>2, <1>3 DEF Good, ToldBlocks
    <3> QED BY <3>1, <3>2, <2>1, <1>3, <1>6
  <2>3. CASE fd # b.fd
    <3>1. g[fd] = f[fd]
      BY <2>3, <1>4
    <3>2. PICK j \in 1 .. Len(q) : Closes(q[j], fd, f[fd])
      BY <3>1 DEF Good, ToldFlags
    <3>3. j # 1
      BY <3>2, <2>3, <1>1 DEF Closes
    <3> QED BY <3>1, <3>2, <3>3, <2>1, <1>6
  <2> QED BY <2>2, <2>3
<1>8. ToldBlocks(r, s)
  <2> SUFFICES ASSUME NEW i \in 1 .. Len(r), r[i].type # "CLOSE",
                      ~Live(s, r[i].fd, r[i].id)
               PROVE  \E j \in 1 .. Len(r) : i < j /\ Closes(r[j], r[i].fd, r[i].id)
    BY DEF ToldBlocks
  <2>1. r[i] = q[i + 1] /\ i + 1 \in 1 .. Len(q) /\ r[i].fd \in Fds /\ r[i].id \in Ids
    BY <1>1, <1>3, BlockFacts
  <2>2. PICK j \in 1 .. Len(q) : i + 1 < j /\ Closes(q[j], r[i].fd, r[i].id)
    BY <2>1 DEF Good, ToldBlocks
  <2>3. j # 1
    BY <2>2, <1>3
  <2>4. PICK k \in 1 .. Len(r) : j = k + 1 /\ Closes(r[k], r[i].fd, r[i].id)
    BY <2>1, <2>2, <2>3, <1>6
  <2>5. i < k
    BY <2>2, <2>4, <1>3
  <2> QED BY <2>4, <2>5
<1>9. ApartFlags(r, g)
  <2> SUFFICES ASSUME NEW j \in 1 .. Len(r), r[j].type # "CLOSE", g[r[j].fd] # 0
               PROVE  \/ Continues(r[j], g[r[j].fd])
                      \/ \E k \in 1 .. Len(r) : k < j /\ Ends(r[k], r[j].fd)
    BY DEF ApartFlags
  <2>1. r[j] = q[j + 1] /\ j + 1 \in 1 .. Len(q) /\ r[j].fd \in Fds
    BY <1>1, <1>3, BlockFacts
  <2>2. \A k \in 1 .. Len(q) : k # 1 /\ k < j + 1 => k - 1 \in 1 .. Len(r) /\ k - 1 < j /\ r[k - 1] = q[k]
    BY <1>3, <1>shift
  <2>3. CASE r[j].fd = b.fd
    <3>1. b.type # "CLOSE" /\ g[r[j].fd] = b.id
      BY <2>3, <1>5
    <3>2. \/ Continues(q[j + 1], b.id)
          \/ \E k \in 1 .. Len(q) : 1 < k /\ k < j + 1 /\ Ends(q[k], q[j + 1].fd)
      BY <3>1, <2>1, <2>3, <1>1, <1>3 DEF Good, ApartBlocks
    <3>3. \A k \in 1 .. Len(q) : 1 < k => k # 1
      BY <1>1
    <3> QED BY <3>1, <3>2, <3>3, <2>1, <2>2
  <2>4. CASE r[j].fd # b.fd
    <3>1. g[r[j].fd] = f[r[j].fd]
      BY <2>1, <2>4, <1>4
    <3>2. \/ Continues(q[j + 1], f[r[j].fd])
          \/ \E k \in 1 .. Len(q) : k < j + 1 /\ Ends(q[k], q[j + 1].fd)
      BY <3>1, <2>1 DEF Good, ApartFlags
    <3>3. \A k \in 1 .. Len(q) : Ends(q[k], r[j].fd) => k # 1
      BY <2>4, <1>1 DEF Ends
    <3> QED BY <3>1, <3>2, <3>3, <2>1, <2>2
  <2> QED BY <2>3, <2>4
<1>10. ApartBlocks(r)
  <2> SUFFICES ASSUME NEW i \in 1 .. Len(r), NEW j \in 1 .. Len(r), i < j,
                      r[i].type # "CLOSE", r[j].type # "CLOSE", r[i].fd = r[j].fd
               PROVE  \/ Continues(r[j], r[i].id)
                      \/ \E k \in 1 .. Len(r) : i < k /\ k < j /\ Ends(r[k], r[j].fd)
    BY DEF ApartBlocks
  <2>1. /\ r[i] = q[i + 1] /\ i + 1 \in 1 .. Len(q)
        /\ r[j] = q[j + 1] /\ j + 1 \in 1 .. Len(q) /\ i + 1 < j + 1
    <3>1. i + 1 < j + 1
      BY <1>3
    <3>2. /\ r[i] = q[i + 1] /\ i + 1 \in 1 .. Len(q)
          /\ r[j] = q[j + 1] /\ j + 1 \in 1 .. Len(q)
      BY <1>1, <1>3
    <3> QED BY <3>1, <3>2
  <2>2. \A k \in 1 .. Len(q) : i + 1 < k /\ k < j + 1 =>
           k - 1 \in 1 .. Len(r) /\ i < k - 1 /\ k - 1 < j /\ r[k - 1] = q[k]
    <3>1. \A k \in 1 .. Len(q) : i + 1 < k /\ k < j + 1 => k # 1 /\ i < k - 1 /\ k - 1 < j
      BY <1>3
    <3> QED BY <3>1, <1>shift
  <2>3. \/ Continues(q[j + 1], q[i + 1].id)
        \/ \E k \in 1 .. Len(q) : i + 1 < k /\ k < j + 1 /\ Ends(q[k], q[j + 1].fd)
    BY <2>1 DEF Good, ApartBlocks
  <2> QED BY <2>1, <2>2, <2>3
<1>11. Owns(r)
  BY <1>1, <1>3 DEF Good, Owns
<1> QED BY <1>7, <1>8, <1>9, <1>10, <1>11 DEF Good, r

(* A link that comes up, or a request, finds its worker without a link on  *)
(* the fd or with that same link.                                          *)
LEMMA HeadFits ==
  ASSUME NEW q \in Seq(Blocks), NEW f \in Flags, NEW s \in Socks,
         q # <<>>, Good(q, f, s), Head(q).type # "CLOSE"
  PROVE  /\ f[Head(q).fd] = 0 \/ f[Head(q).fd] = Head(q).id
         /\ Head(q).type = "LOGIN" => f[Head(q).fd] = 0
         /\ Head(q).id = Head(q).asker
<1>1. Len(q) \in Nat /\ Len(q) >= 1 /\ Head(q) = q[1]
  BY TailFacts
<1>2. 1 \in 1 .. Len(q) /\ \A k \in 1 .. Len(q) : ~(k < 1)
  BY <1>1
<1> QED BY <1>1, <1>2 DEF Good, ApartFlags, Owns, Continues

-----------------------------------------------------------------------------
(* The invariant holds initially and is kept by every action.              *)

LEMMA ClosedSock == Closed \in [id : Ids \cup {0}, closing : BOOLEAN, backlog : BOOLEAN]
BY DEF Closed

LEMMA InitHolds == Init => IInv
<1> SUFFICES ASSUME Init PROVE IInv
  OBVIOUS
<1>1. TypeOK
  <2>1. <<>> \in Seq(Blocks)
    BY EmptySeq
  <2>2. 0 \in 0 .. MaxPkgs /\ 0 \in 0 .. MaxCrashes
    BY LinksAssumption
  <2> QED BY <2>1, <2>2, ClosedSock DEF Init, TypeOK
<1>2. \A w \in Workers : recv_queue[w] = <<>> /\ send_queue[w] = <<>>
  BY DEF Init
<1>3. \A i \in 1 .. Len(<<>>) : FALSE
  OBVIOUS
<1>4. \A w \in Workers, fd \in Fds : g_link_flags[w][fd] = 0
  BY DEF Init
<1>5. Believing
  BY <1>2, <1>3, <1>4 DEF Believing, Good, ToldFlags, ToldBlocks, ApartFlags, ApartBlocks, Owns
<1>6. Owned
  BY <1>2, <1>3 DEF Init, Owned, Belongs, Owns
<1>7. CheckedConnection
  BY DEF Init, CheckedConnection, RightConnection
<1> QED BY <1>1, <1>5, <1>6, <1>7 DEF IInv

(* What the invariant says of one worker and of one block.                 *)
LEMMA WorkerFacts ==
  ASSUME TypeOK, Believing, NEW w \in Workers
  PROVE  /\ recv_queue[w] \in Seq(Blocks) /\ send_queue[w] \in Seq(Blocks)
         /\ g_link_flags[w] \in Flags /\ sock \in Socks
         /\ Good(recv_queue[w], g_link_flags[w], sock)
BY DEF TypeOK, Believing, Flags, Socks

LEMMA NotifyFacts ==
  ASSUME recv_queue \in [Workers -> Seq(Blocks)], NEW b \in Blocks, NotifyAll(b)
  PROVE  /\ recv_queue' \in [Workers -> Seq(Blocks)]
         /\ \A w \in Workers : recv_queue'[w] = Append(recv_queue[w], b)
BY AppendFacts DEF NotifyAll

LEMMA CloseOfFacts ==
  ASSUME TypeOK, NEW fd \in Fds, Open(fd)
  PROVE  /\ CloseOf(fd) \in Blocks
         /\ CloseOf(fd).type = "CLOSE" /\ CloseOf(fd).fd = fd
         /\ CloseOf(fd).id = sock[fd].id /\ CloseOf(fd).asker = sock[fd].id
<1>1. sock[fd].id \in Ids
  BY DEF TypeOK, Open
<1> QED BY <1>1 DEF CloseOf, Block, Blocks

(* Every worker gets the CLOSE of the link on fd, and nothing else changes *)
(* for it but the socket there.                                            *)
LEMMA AllTold ==
  ASSUME TypeOK, Believing, NEW fd \in Fds, Open(fd), NotifyAll(CloseOf(fd)),
         sock' \in Socks, \A d \in Fds \ {fd} : sock'[d] = sock[d],
         UNCHANGED g_link_flags
  PROVE  recv_queue' \in [Workers -> Seq(Blocks)] /\ Believing'
<1> DEFINE b == CloseOf(fd)
<1>1. b \in Blocks /\ b.type = "CLOSE" /\ b.fd = fd /\ b.id = sock[fd].id /\ b.id = b.asker
  BY CloseOfFacts
<1>2. /\ recv_queue' \in [Workers -> Seq(Blocks)]
      /\ \A w \in Workers : recv_queue'[w] = Append(recv_queue[w], b)
  BY <1>1, NotifyFacts DEF TypeOK
<1> HIDE DEF b
<1>3. ASSUME NEW w \in Workers
      PROVE  Good(Append(recv_queue[w], b), g_link_flags[w], sock')
  <2>1. /\ recv_queue[w] \in Seq(Blocks) /\ g_link_flags[w] \in Flags
        /\ sock \in Socks /\ Good(recv_queue[w], g_link_flags[w], sock)
    BY WorkerFacts
  <2>2. \A d \in Fds \ {b.fd} : sock'[d] = sock[d]
    BY <1>1
  <2>3. b.id = sock[b.fd].id
    BY <1>1
  <2> QED BY <1>1, <2>1, <2>2, <2>3, CloseJoins
<1> QED BY <1>2, <1>3 DEF Believing

(* The sockets change, and no link dies: the workers need not be told.     *)
LEMMA NoneTold ==
  ASSUME TypeOK, Believing, sock' \in Socks,
         \A fd \in Fds, id \in Ids : Live(sock, fd, id) => Live(sock', fd, id),
         UNCHANGED <<recv_queue, g_link_flags>>
  PROVE  Believing'
<1>1. ASSUME NEW w \in Workers
      PROVE  Good(recv_queue[w], g_link_flags[w], sock')
  BY WorkerFacts, SocketsChange
<1> QED BY <1>1 DEF Believing

LEMMA FiniFacts ==
  ASSUME sock \in Socks, NEW fd \in Fds, Fini(fd)
  PROVE  sock' \in Socks /\ \A d \in Fds \ {fd} : sock'[d] = sock[d]
BY ClosedSock DEF Fini, Socks

LEMMA HandleErrorKeeps ==
  ASSUME TypeOK, Believing, NEW fd \in Fds, Open(fd) \/ sock[fd].closing, HandleError(fd),
         UNCHANGED g_link_flags
  PROVE  sock' \in Socks /\ recv_queue' \in [Workers -> Seq(Blocks)] /\ Believing'
<1>1. sock' \in Socks /\ \A d \in Fds \ {fd} : sock'[d] = sock[d]
  BY FiniFacts DEF HandleError, TypeOK, Socks
<1>2. CASE sock[fd].closing
  <2>1. UNCHANGED recv_queue
    BY <1>2 DEF HandleError
  <2>2. \A d \in Fds, id \in Ids : Live(sock, d, id) => Live(sock', d, id)
    BY <1>1, <1>2 DEF Live
  <2> QED BY <1>1, <2>1, <2>2, NoneTold DEF TypeOK
<1>3. CASE ~sock[fd].closing
  <2>1. NotifyAll(CloseOf(fd))
    BY <1>3 DEF HandleError
  <2> QED BY <1>1, <1>3, <2>1, AllTold
<1> QED BY <1>2, <1>3

LEMMA ShutKeeps ==
  ASSUME TypeOK, Believing, NEW fd \in Fds, Open(fd), Shut(fd),
         UNCHANGED g_link_flags
  PROVE  sock' \in Socks /\ recv_queue' \in [Workers -> Seq(Blocks)] /\ Believing'
<1>1. sock' \in Socks /\ \A d \in Fds \ {fd} : sock'[d] = sock[d]
  <2>1. CASE sock[fd].backlog
    <3> DEFINE e == [sock[fd] EXCEPT !.closing = TRUE]
    <3>1. sock \in Socks
      BY DEF TypeOK, Socks
    <3>2. e \in [id : Ids \cup {0}, closing : BOOLEAN, backlog : BOOLEAN]
      BY <3>1 DEF Socks
    <3>3. sock' = [sock EXCEPT ![fd] = e]
      BY <2>1 DEF Shut
    <3> HIDE DEF e
    <3> QED BY <3>1, <3>2, <3>3 DEF Socks
  <2>2. CASE ~sock[fd].backlog
    BY <2>2, FiniFacts DEF Shut, TypeOK, Socks
  <2> QED BY <2>1, <2>2
<1>2. NotifyAll(CloseOf(fd))
  BY DEF Shut
<1> QED BY <1>1, <1>2, AllTold

(* A socket's backlog grows or is sent: no link dies.                      *)
LEMMA BacklogKeeps ==
  ASSUME TypeOK, Believing, NEW fd \in Fds, NEW x \in BOOLEAN,
         sock' = [sock EXCEPT ![fd].backlog = x],
         UNCHANGED <<recv_queue, g_link_flags>>
  PROVE  sock' \in Socks /\ recv_queue' \in [Workers -> Seq(Blocks)] /\ Believing'
<1>1. sock \in Socks
  BY DEF TypeOK, Socks
<1> DEFINE e == [sock[fd] EXCEPT !.backlog = x]
<1>2. /\ e \in [id : Ids \cup {0}, closing : BOOLEAN, backlog : BOOLEAN]
      /\ e.id = sock[fd].id /\ e.closing = sock[fd].closing
  BY <1>1 DEF Socks
<1>3. sock' = [sock EXCEPT ![fd] = e]
  OBVIOUS
<1> HIDE DEF e
<1>4. sock' \in Socks
  BY <1>1, <1>2, <1>3 DEF Socks
<1>5. \A d \in Fds, id \in Ids : Live(sock, d, id) => Live(sock', d, id)
  BY <1>1, <1>2, <1>3 DEF Live, Socks
<1> QED BY <1>4, <1>5, NoneTold DEF TypeOK

LEMMA SendPkgKeeps ==
  ASSUME TypeOK, Believing, NEW fd \in Fds, Open(fd), SendPkg(fd),
         UNCHANGED g_link_flags
  PROVE  sock' \in Socks /\ recv_queue' \in [Workers -> Seq(Blocks)] /\ Believing'
<1>1. CASE UNCHANGED <<sock, recv_queue>>
  BY <1>1 DEF TypeOK, Socks, Believing
<1>2. CASE sock' = [sock EXCEPT ![fd].backlog = TRUE] /\ UNCHANGED recv_queue
  BY <1>2, BacklogKeeps
<1>3. CASE HandleError(fd)
  BY <1>3, HandleErrorKeeps
<1> QED BY <1>1, <1>2, <1>3 DEF SendPkg

-----------------------------------------------------------------------------
(* The actions of the connection process.                                  *)

LEMMA AcceptKeeps == ASSUME IInv, Accept PROVE IInv'
<1> DEFINE free == {d \in Fds : ~Open(d)}
<1> DEFINE fd == Min(free)
<1> DEFINE id == m_id + 1
<1>1. fd \in free
  <2>1. free # {} /\ free \subseteq Nat
    BY LinksAssumption DEF Accept
  <2> QED BY <2>1, Lowest
<1>2. fd \in Fds /\ sock[fd].id = 0
  BY <1>1 DEF Open
<1>3. id \in Ids /\ m_id' = id
  BY LinksAssumption DEF Accept, IInv, TypeOK, Ids
<1>4. UNCHANGED <<acted, send_queue, g_link_flags, pending, pkgs, crashes, check_link_id>>
  BY DEF Accept, workVars
<1>5. sock \in Socks /\ recv_queue \in [Workers -> Seq(Blocks)]
  BY DEF IInv, TypeOK, Socks
<1>6. \/ /\ sock' = [sock EXCEPT ![fd] = [Closed EXCEPT !.id = id]]
         /\ NotifyAll(Block("LOGIN", fd, id, id))
      \/ UNCHANGED <<sock, recv_queue>>
  BY DEF Accept
<1> HIDE DEF free, fd, id
<1>7. sock' \in Socks /\ recv_queue' \in [Workers -> Seq(Blocks)] /\ Believing'
  <2>1. CASE UNCHANGED <<sock, recv_queue>>
    BY <2>1, <1>4, <1>5 DEF IInv, Believing
  <2>2. CASE /\ sock' = [sock EXCEPT ![fd] = [Closed EXCEPT !.id = id]]
             /\ NotifyAll(Block("LOGIN", fd, id, id))
    <3> DEFINE e == [Closed EXCEPT !.id = id]
    <3> DEFINE b == Block("LOGIN", fd, id, id)
    <3>1. /\ e \in [id : Ids \cup {0}, closing : BOOLEAN, backlog : BOOLEAN]
          /\ e.id = id /\ e.closing = FALSE
      BY <1>3 DEF Closed
    <3>2. /\ b \in Blocks /\ b.type = "LOGIN" /\ b.fd = fd /\ b.id = id
          /\ b.id = b.asker
      BY <1>2, <1>3 DEF Block, Blocks
    <3> HIDE DEF e, b
    <3>3. sock' \in Socks /\ sock'[fd] = e /\ \A d \in Fds \ {fd} : sock'[d] = sock[d]
      BY <2>2, <3>1, <1>2, <1>5 DEF Socks, e
    <3>4. /\ recv_queue' \in [Workers -> Seq(Blocks)]
          /\ \A w \in Workers : recv_queue'[w] = Append(recv_queue[w], b)
      BY <2>2, <3>2, <1>5, NotifyFacts DEF b
    <3>5. Live(sock', b.fd, b.id)
      BY <3>1, <3>2, <3>3 DEF Live
    <3>6. \A i \in Ids : ~Live(sock, b.fd, i)
      BY <3>2, <1>2 DEF Live, Ids
    <3>7. \A d \in Fds, i \in Ids : Live(sock, d, i) => Live(sock', d, i)
      <4> SUFFICES ASSUME NEW d \in Fds, NEW i \in Ids, Live(sock, d, i)
                   PROVE  Live(sock', d, i)
        OBVIOUS
      <4>1. d # fd
        BY <1>2 DEF Live, Ids
      <4> QED BY <4>1, <3>3 DEF Live
    <3>8. ASSUME NEW w \in Workers
          PROVE  Good(Append(recv_queue[w], b), g_link_flags[w], sock')
      <4>1. /\ recv_queue[w] \in Seq(Blocks) /\ g_link_flags[w] \in Flags
            /\ sock \in Socks /\ Good(recv_queue[w], g_link_flags[w], sock)
        BY WorkerFacts DEF IInv
      <4>2. b.type # "CLOSE"
        BY <3>2
      <4> QED BY <4>1, <4>2, <3>2, <3>3, <3>5, <3>6, <3>7, LiveJoins
    <3> QED BY <3>3, <3>4, <3>8, <1>4 DEF Believing
  <2> QED BY <2>1, <2>2, <1>6
<1>8. TypeOK'
  BY <1>3, <1>4, <1>7 DEF IInv, TypeOK, Socks
<1>9. Owned' /\ CheckedConnection'
  BY <1>4 DEF IInv, Owned, CheckedConnection, RightConnection
<1> QED BY <1>7, <1>8, <1>9 DEF IInv

LEMMA RequestKeeps ==
  ASSUME IInv, NEW fd \in Fds, NEW v \in Workers, Request(fd, v) PROVE IInv'
<1>1. UNCHANGED <<sock, m_id, acted, send_queue, g_link_flags, pending, crashes, check_link_id>>
  BY DEF Request, connVars, workVars
<1>2. pkgs' \in 0 .. MaxPkgs
  BY LinksAssumption DEF Request, IInv, TypeOK
<1>3. sock \in Socks /\ recv_queue \in [Workers -> Seq(Blocks)]
  BY DEF IInv, TypeOK, Socks
<1>4. recv_queue' \in [Workers -> Seq(Blocks)] /\ Believing'
  <2>1. CASE UNCHANGED recv_queue
    BY <2>1, <1>1, <1>3 DEF IInv, Believing
  <2>2. CASE /\ ~sock[fd].closing
             /\ recv_queue' = [recv_queue EXCEPT ![v] =
                  Append(@, Block("PROTO", fd, sock[fd].id, sock[fd].id))]
    <3> DEFINE b == Block("PROTO", fd, sock[fd].id, sock[fd].id)
    <3>1. sock[fd].id \in Ids
      BY <1>3 DEF Request, Open, Socks
    <3>2. /\ b \in Blocks /\ b.type = "PROTO" /\ b.fd = fd /\ b.id = sock[fd].id
          /\ b.id = b.asker
      BY <3>1 DEF Block, Blocks
    <3>3. recv_queue' = [recv_queue EXCEPT ![v] = Append(recv_queue[v], b)]
      BY <2>2
    <3> HIDE DEF b
    <3>4. recv_queue[v] \in Seq(Blocks) /\ Append(recv_queue[v], b) \in Seq(Blocks)
      BY <1>3, <3>2, AppendFacts
    <3>5. recv_queue' \in [Workers -> Seq(Blocks)]
      BY <1>3, <3>3, <3>4
    <3>6. Live(sock, b.fd, b.id)
      BY <2>2, <3>2 DEF Live
    <3>7. ASSUME NEW w \in Workers
          PROVE  Good(recv_queue'[w], g_link_flags[w], sock)
      <4>1. /\ recv_queue[w] \in Seq(Blocks) /\ g_link_flags[w] \in Flags
            /\ Good(recv_queue[w], g_link_flags[w], sock)
        BY WorkerFacts DEF IInv
      <4>2. CASE w = v
        <5>1. recv_queue'[w] = Append(recv_queue[w], b)
          BY <4>2, <3>3, <1>3
        <5>2. b.type # "CLOSE"
          BY <3>2
        <5>3. Good(Append(recv_queue[w], b), g_link_flags[w], sock)
          BY <4>1, <5>2, <1>3, <3>2, <3>6, LiveJoins
        <5> QED BY <5>1, <5>3
      <4>3. CASE w # v
        BY <4>1, <4>3, <3>3, <1>3
      <4> QED BY <4>2, <4>3
    <3> QED BY <3>5, <3>7, <1>1 DEF Believing
  <2> QED BY <2>1, <2>2 DEF Request
<1>5. TypeOK'
  BY <1>1, <1>2, <1>4 DEF IInv, TypeOK
<1>6. Owned' /\ CheckedConnection'
  BY <1>1 DEF IInv, Owned, CheckedConnection, RightConnection
<1> QED BY <1>4, <1>5, <1>6 DEF IInv

(* An action that only touches the sockets and the workers' queues.        *)
LEMMA ConnKeeps ==
  ASSUME IInv, sock' \in Socks, recv_queue' \in [Workers -> Seq(Blocks)], Believing',
         UNCHANGED <<m_id, acted, send_queue, g_link_flags, pending, pkgs, crashes,
                     check_link_id>>
  PROVE  IInv'
<1>1. TypeOK'
  BY DEF IInv, TypeOK, Socks
<1>2. Owned' /\ CheckedConnection'
  BY DEF IInv, Owned, CheckedConnection, RightConnection
<1> QED BY <1>1, <1>2 DEF IInv

LEMMA HangupKeeps == ASSUME IInv, NEW fd \in Fds, Hangup(fd) PROVE IInv'
<1>1. UNCHANGED <<m_id, acted, send_queue, g_link_flags, pending, pkgs, crashes, check_link_id>>
  BY DEF Hangup, workVars
<1>2. sock' \in Socks /\ recv_queue' \in [Workers -> Seq(Blocks)] /\ Believing'
  BY <1>1, HandleErrorKeeps DEF Hangup, IInv
<1> QED BY <1>1, <1>2, ConnKeeps

LEMMA FlushKeeps == ASSUME IInv, NEW fd \in Fds, Flush(fd) PROVE IInv'
<1>1. UNCHANGED <<m_id, acted, send_queue, g_link_flags, pending, pkgs, crashes, check_link_id>>
  BY DEF Flush, workVars
<1>2. sock' \in Socks /\ recv_queue' \in [Workers -> Seq(Blocks)] /\ Believing'
  <2>1. CASE sock[fd].closing
    BY <2>1, <1>1, HandleErrorKeeps DEF Flush, IInv
  <2>2. CASE ~sock[fd].closing
    BY <2>2, <1>1, BacklogKeeps DEF Flush, IInv
  <2> QED BY <2>1, <2>2
<1> QED BY <1>1, <1>2, ConnKeeps

-----------------------------------------------------------------------------
LEMMA SendEventKeeps == ASSUME IInv, NEW v \in Workers, SendEvent(v) PROVE IInv'
<1> DEFINE b == Head(send_queue[v])
<1>1. UNCHANGED <<m_id, g_link_flags, pending, pkgs, crashes, check_link_id>>
  BY DEF SendEvent, workVars
<1>2. /\ send_queue \in [Workers -> Seq(Blocks)] /\ send_queue[v] # <<>>
      /\ send_queue' = [send_queue EXCEPT ![v] = Tail(@)]
  BY DEF SendEvent, IInv, TypeOK
<1>3. /\ Tail(send_queue[v]) \in Seq(Blocks)
      /\ Len(send_queue[v]) \in Nat /\ Len(send_queue[v]) >= 1
      /\ Len(Tail(send_queue[v])) = Len(send_queue[v]) - 1
      /\ \A i \in 1 .. Len(Tail(send_queue[v])) :
           Tail(send_queue[v])[i] = send_queue[v][i + 1]
      /\ b = send_queue[v][1] /\ b \in Blocks
  <2>1. send_queue[v] \in Seq(Blocks)
    BY <1>2
  <2> QED BY <2>1, <1>2, TailFacts
<1>4. b.fd \in Fds /\ b.id \in Ids /\ b.asker \in Ids /\ b.id = b.asker
  <2>1. 1 \in 1 .. Len(send_queue[v]) /\ Owns(send_queue[v])
    BY <1>3 DEF IInv, Owned
  <2> QED BY <2>1, <1>3 DEF Owns, Blocks
<1>5. \/ /\ Resolves(b)
         /\ IF b.type = "CLOSE" THEN Shut(b.fd) ELSE SendPkg(b.fd)
         /\ acted' = [on |-> sock[b.fd].id, for |-> b.asker]
      \/ UNCHANGED <<sock, recv_queue, acted>>
  BY DEF SendEvent
<1> HIDE DEF b
<1>6. send_queue' \in [Workers -> Seq(Blocks)]
  BY <1>2, <1>3
<1>7. Owned'
  <2> SUFFICES ASSUME NEW w \in Workers
               PROVE  Owns(send_queue'[w])
    BY <1>1 DEF IInv, Owned
  <2>1. Owns(send_queue[w])
    BY DEF IInv, Owned
  <2>2. CASE w = v
    <3>1. send_queue'[w] = Tail(send_queue[v])
      BY <2>2, <1>2
    <3>2. \A i \in 1 .. Len(Tail(send_queue[v])) : i + 1 \in 1 .. Len(send_queue[v])
      BY <1>3
    <3> QED BY <2>1, <2>2, <3>1, <3>2, <1>3 DEF Owns
  <2>3. CASE w # v
    BY <2>1, <2>3, <1>2
  <2> QED BY <2>2, <2>3
<1>8. /\ sock' \in Socks /\ recv_queue' \in [Workers -> Seq(Blocks)] /\ Believing'
      /\ acted' \in [on : Ids \cup {0}, for : Ids \cup {0}] /\ CheckedConnection'
  <2>1. CASE UNCHANGED <<sock, recv_queue, acted>>
    BY <2>1, <1>1 DEF IInv, TypeOK, Socks, Believing, CheckedConnection, RightConnection
  <2>2. CASE /\ Resolves(b)
             /\ IF b.type = "CLOSE" THEN Shut(b.fd) ELSE SendPkg(b.fd)
             /\ acted' = [on |-> sock[b.fd].id, for |-> b.asker]
    <3>1. Open(b.fd)
      BY <2>2 DEF Resolves
    <3>2. sock' \in Socks /\ recv_queue' \in [Workers -> Seq(Blocks)] /\ Believing'
      BY <2>2, <3>1, <1>1, <1>4, ShutKeeps, SendPkgKeeps DEF IInv
    <3>3. sock[b.fd].id \in Ids
      BY <3>1, <1>4 DEF Open, IInv, TypeOK
    <3>4. acted' \in [on : Ids \cup {0}, for : Ids \cup {0}]
      BY <2>2, <3>3, <1>4
    <3>5. CheckedConnection'
      BY <2>2, <1>1, <1>4 DEF Resolves, CheckedConnection, RightConnection
    <3> QED BY <3>2, <3>4, <3>5
  <2> QED BY <2>1, <2>2, <1>5
<1>9. TypeOK'
  BY <1>1, <1>6, <1>8 DEF IInv, TypeOK, Socks
<1> QED BY <1>7, <1>8, <1>9 DEF IInv

-----------------------------------------------------------------------------
(* The actions of a worker.                                                *)

LEMMA RecvEventKeeps == ASSUME IInv, NEW v \in Workers, RecvEvent(v) PROVE IInv'
<1> DEFINE q == recv_queue[v]
<1> DEFINE b == Head(q)
<1> DEFINE f == g_link_flags[v]
<1>1. UNCHANGED <<sock, m_id, acted, send_queue, pkgs, crashes, check_link_id>>
  BY DEF RecvEvent, connVars
<1>2. /\ q \in Seq(Blocks) /\ q # <<>> /\ f \in Flags /\ sock \in Socks
      /\ Good(q, f, sock)
  BY WorkerFacts DEF RecvEvent, IInv
<1>3. b \in Blocks /\ Tail(q) \in Seq(Blocks)
  BY <1>2, TailFacts
<1>4. /\ b.fd \in Fds /\ b.id \in Ids /\ b.asker \in Ids
      /\ b.type \in {"LOGIN", "PROTO", "CLOSE"}
  BY <1>3 DEF Blocks
<1>5. /\ recv_queue' = [recv_queue EXCEPT ![v] = Tail(q)]
      /\ recv_queue \in [Workers -> Seq(Blocks)]
      /\ g_link_flags \in [Workers -> Flags]
      /\ pending \in [Workers -> SUBSET Requests]
  BY DEF RecvEvent, IInv, TypeOK, Flags, Requests
<1>6. b.type # "CLOSE" =>
        /\ f[b.fd] = 0 \/ f[b.fd] = b.id
        /\ b.type = "LOGIN" => f[b.fd] = 0
        /\ b.id = b.asker
  BY <1>2, HeadFits
<1>7. Belongs(pending[v], f) /\ pending[v] \subseteq Requests
  BY <1>5 DEF IInv, Owned
<1>8. \E g \in Flags, p \in SUBSET Requests :
        /\ g_link_flags' = [g_link_flags EXCEPT ![v] = g]
        /\ pending' = [pending EXCEPT ![v] = p]
        /\ \A fd \in Fds \ {b.fd} : g[fd] = f[fd]
        /\ g[b.fd] = IF b.type = "CLOSE" THEN 0 ELSE b.id
        /\ Belongs(p, g)
  <2>1. CASE b.type = "PROTO"
    <3> DEFINE g == [f EXCEPT ![b.fd] = b.id]
    <3> DEFINE p == pending[v] \cup {[fd |-> b.fd, asker |-> b.asker]}
    <3>1. g_link_flags' = [g_link_flags EXCEPT ![v] = g]
      BY <2>1, <1>5 DEF RecvEvent, SetFlag
    <3>2. pending' = [pending EXCEPT ![v] = p]
      BY <2>1 DEF RecvEvent
    <3>3. g \in Flags /\ p \in SUBSET Requests
      BY <1>2, <1>4, <1>7 DEF Flags, Requests
    <3>4. g[b.fd] = b.id /\ \A fd \in Fds \ {b.fd} : g[fd] = f[fd]
      BY <1>2, <1>4 DEF Flags
    <3>5. ASSUME NEW r \in p PROVE g[r.fd] = r.asker
      <4>1. CASE r = [fd |-> b.fd, asker |-> b.asker]
        BY <4>1, <2>1, <3>4, <1>6
      <4>2. CASE r \in pending[v]
        <5>1. r.fd \in Fds /\ r.asker \in Ids /\ f[r.fd] = r.asker
          BY <4>2, <1>7 DEF Belongs, Requests
        <5>2. r.fd = b.fd => f[r.fd] = b.id
          BY <5>1, <2>1, <1>6 DEF Ids
        <5> QED BY <5>1, <5>2, <3>4
      <4> QED BY <4>1, <4>2
    <3>6. Belongs(p, g)
      BY <3>5 DEF Belongs
    <3>7. g[b.fd] = IF b.type = "CLOSE" THEN 0 ELSE b.id
      BY <2>1, <3>4
    <3> HIDE DEF g, p
    <3> QED BY <3>1, <3>2, <3>3, <3>4, <3>6, <3>7
  <2>2. CASE b.type = "LOGIN"
    <3> DEFINE g == [f EXCEPT ![b.fd] = b.id]
    <3>1. g_link_flags' = [g_link_flags EXCEPT ![v] = g]
      BY <2>2, <1>5 DEF RecvEvent, SetFlag
    <3>2. pending' = [pending EXCEPT ![v] = pending[v]]
      BY <2>2, <1>5 DEF RecvEvent
    <3>3. g \in Flags
      BY <1>2, <1>4 DEF Flags
    <3>4. g[b.fd] = b.id /\ \A fd \in Fds \ {b.fd} : g[fd] = f[fd]
      BY <1>2, <1>4 DEF Flags
    <3>5. ASSUME NEW r \in pending[v] PROVE g[r.fd] = r.asker
      <4>1. r.fd \in Fds /\ r.asker \in Ids /\ f[r.fd] = r.asker
        BY <1>7 DEF Belongs, Requests
      <4>2. r.fd # b.fd
        BY <4>1, <2>2, <1>6 DEF Ids
      <4> QED BY <4>1, <4>2, <3>4
    <3>6. Belongs(pending[v], g)
      BY <3>5 DEF Belongs
    <3>7. g[b.fd] = IF b.type = "CLOSE" THEN 0 ELSE b.id
      BY <2>2, <3>4
    <3> HIDE DEF g
    <3> QED BY <3>1, <3>2, <3>3, <3>4, <3>6, <3>7, <1>7
  <2>3. CASE b.type = "CLOSE" /\ f[b.fd] # 0
    <3> DEFINE g == [f EXCEPT ![b.fd] = 0]
    <3> DEFINE p == {r \in pending[v] : r.fd # b.fd}
    <3>1. g_link_flags' = [g_link_flags EXCEPT ![v] = g]
      BY <2>3, <1>5 DEF RecvEvent, SetFlag
    <3>2. pending' = [pending EXCEPT ![v] = p]
      BY <2>3 DEF RecvEvent, Forget
    <3>3. g \in Flags /\ p \in SUBSET Requests
      BY <1>2, <1>4, <1>7 DEF Flags
    <3>4. g[b.fd] = 0 /\ \A fd \in Fds \ {b.fd} : g[fd] = f[fd]
      BY <1>2, <1>4 DEF Flags
    <3>5. ASSUME NEW r \in p PROVE g[r.fd] = r.asker
      BY <3>4, <1>7 DEF Belongs, Requests
    <3>6. Belongs(p, g)
      BY <3>5 DEF Belongs
    <3>7. g[b.fd] = IF b.type = "CLOSE" THEN 0 ELSE b.id
      BY <2>3, <3>4
    <3> HIDE DEF g, p
    <3> QED BY <3>1, <3>2, <3>3, <3>4, <3>6, <3>7
  <2>4. CASE b.type = "CLOSE" /\ f[b.fd] = 0
    <3>1. UNCHANGED <<g_link_flags, pending>>
      BY <2>4 DEF RecvEvent, workVars
    <3>2. /\ g_link_flags' = [g_link_flags EXCEPT ![v] = f]
          /\ pending' = [pending EXCEPT ![v] = pending[v]]
      BY <3>1, <1>5
    <3> QED BY <2>4, <3>2, <1>2, <1>7
  <2> QED BY <2>1, <2>2, <2>3, <2>4, <1>4
<1>9. PICK g \in Flags, p \in SUBSET Requests :
        /\ g_link_flags' = [g_link_flags EXCEPT ![v] = g]
        /\ pending' = [pending EXCEPT ![v] = p]
        /\ \A fd \in Fds \ {b.fd} : g[fd] = f[fd]
        /\ g[b.fd] = IF b.type = "CLOSE" THEN 0 ELSE b.id
        /\ Belongs(p, g)
  BY <1>8
<1>10. Good(Tail(q), g, sock)
  BY <1>2, <1>9, HeadLeaves
<1>11. TypeOK'
  BY <1>1, <1>3, <1>5, <1>9 DEF IInv, TypeOK, Flags, Requests
<1>12. Believing'
  BY <1>1, <1>5, <1>9, <1>10 DEF IInv, Believing
<1>13. Owned'
  BY <1>1, <1>5, <1>9 DEF IInv, Owned
<1>14. CheckedConnection'
  BY <1>1 DEF IInv, CheckedConnection, RightConnection
<1> QED BY <1>11, <1>12, <1>13, <1>14 DEF IInv

(* A block joins a worker's reply queue.                                   *)
LEMMA ReplyQueued ==
  ASSUME send_queue \in [Workers -> Seq(Blocks)],
         \A w \in Workers : Owns(send_queue[w]),
         NEW v \in Workers, NEW b \in Blocks, b.id = b.asker,
         send_queue' = [send_queue EXCEPT ![v] = Append(send_queue[v], b)]
  PROVE  /\ send_queue' \in [Workers -> Seq(Blocks)]
         /\ \A w \in Workers : Owns(send_queue'[w])
<1> DEFINE q == send_queue[v]
<1> DEFINE r == Append(q, b)
<1>1. q \in Seq(Blocks) /\ Owns(q)
  OBVIOUS
<1>2. /\ r \in Seq(Blocks) /\ Len(r) = Len(q) + 1 /\ Len(q) \in Nat
      /\ \A i \in 1 .. Len(q) : r[i] = q[i]
      /\ r[Len(q) + 1] = b
  BY <1>1, AppendFacts
<1> HIDE DEF q, r
<1>3. \A i \in 1 .. Len(r) : i \in 1 .. Len(q) \/ i = Len(q) + 1
  BY <1>2
<1>4. Owns(r)
  BY <1>1, <1>2, <1>3 DEF Owns
<1>5. send_queue' = [send_queue EXCEPT ![v] = r]
  BY DEF q, r
<1> QED BY <1>2, <1>4, <1>5

LEMMA ReplyKeeps == ASSUME IInv, NEW v \in Workers, Reply(v) PROVE IInv'
<1> DEFINE f == g_link_flags[v]
<1>1. UNCHANGED <<sock, m_id, acted, recv_queue, g_link_flags, pkgs, crashes, check_link_id>>
  BY DEF Reply, connVars
<1>2. /\ send_queue \in [Workers -> Seq(Blocks)]
      /\ pending \in [Workers -> SUBSET Requests]
      /\ f \in Flags /\ Belongs(pending[v], f)
      /\ \A w \in Workers : Owns(send_queue[w])
  BY DEF IInv, TypeOK, Owned, Flags, Requests
<1>3. PICK r \in pending[v] :
        /\ pending' = [pending EXCEPT ![v] = @ \ {r}]
        /\ IF f[r.fd] = 0
             THEN UNCHANGED send_queue
             ELSE send_queue' = [send_queue EXCEPT ![v] = Append(@,
                    Block("PROTO", r.fd, f[r.fd], r.asker))]
  BY DEF Reply
<1>4. r.fd \in Fds /\ r.asker \in Ids /\ f[r.fd] = r.asker
  BY <1>2 DEF Belongs, Requests
<1> HIDE DEF f
<1>5. /\ send_queue' \in [Workers -> Seq(Blocks)]
      /\ \A w \in Workers : Owns(send_queue'[w])
  <2>1. CASE UNCHANGED send_queue
    BY <2>1, <1>2
  <2>2. CASE send_queue' = [send_queue EXCEPT ![v] = Append(@,
               Block("PROTO", r.fd, f[r.fd], r.asker))]
    <3> DEFINE b == Block("PROTO", r.fd, f[r.fd], r.asker)
    <3>1. b \in Blocks /\ b.id = b.asker
      BY <1>4 DEF Block, Blocks
    <3>2. send_queue' = [send_queue EXCEPT ![v] = Append(send_queue[v], b)]
      BY <2>2
    <3> HIDE DEF b
    <3> QED BY <1>2, <3>1, <3>2, ReplyQueued
  <2> QED BY <2>1, <2>2, <1>3
<1>6. /\ pending' \in [Workers -> SUBSET Requests]
      /\ \A w \in Workers : pending'[w] \subseteq pending[w]
  BY <1>2, <1>3
<1>7. TypeOK'
  BY <1>1, <1>5, <1>6 DEF IInv, TypeOK, Requests
<1>8. Believing'
  BY <1>1 DEF IInv, Believing
<1>9. Owned'
  <2> SUFFICES ASSUME NEW w \in Workers
               PROVE  Belongs(pending'[w], g_link_flags[w]) /\ Owns(send_queue'[w])
    BY <1>1 DEF Owned
  <2>1. Belongs(pending[w], g_link_flags[w])
    BY DEF IInv, Owned
  <2> QED BY <2>1, <1>5, <1>6 DEF Belongs
<1>10. CheckedConnection'
  BY <1>1 DEF IInv, CheckedConnection, RightConnection
<1> QED BY <1>7, <1>8, <1>9, <1>10 DEF IInv

(* A worker gives links up, and forgets their requests.                    *)
LEMMA LinksDown ==
  ASSUME IInv, NEW v \in Workers, NEW g \in Flags, NEW p \in SUBSET Requests,
         \A fd \in Fds : g[fd] \in {0, g_link_flags[v][fd]},
         p \subseteq pending[v], \A r \in p : g[r.fd] = g_link_flags[v][r.fd],
         g_link_flags' = [g_link_flags EXCEPT ![v] = g],
         pending' = [pending EXCEPT ![v] = p],
         send_queue' \in [Workers -> Seq(Blocks)],
         \A w \in Workers : Owns(send_queue'[w]),
         crashes' \in 0 .. MaxCrashes,
         UNCHANGED <<sock, m_id, acted, recv_queue, pkgs, check_link_id>>
  PROVE  IInv'
<1>1. /\ g_link_flags \in [Workers -> Flags]
      /\ pending \in [Workers -> SUBSET Requests]
  BY DEF IInv, TypeOK, Flags, Requests
<1>2. g_link_flags' \in [Workers -> Flags] /\ pending' \in [Workers -> SUBSET Requests]
  BY <1>1
<1>3. TypeOK'
  BY <1>2 DEF IInv, TypeOK, Flags, Requests
<1>4. Good(recv_queue[v], g, sock)
  <2>1. /\ recv_queue[v] \in Seq(Blocks) /\ g_link_flags[v] \in Flags
        /\ sock \in Socks /\ Good(recv_queue[v], g_link_flags[v], sock)
    BY WorkerFacts DEF IInv
  <2> QED BY <2>1, FlagsDown
<1>5. Believing'
  BY <1>1, <1>4 DEF IInv, Believing
<1>6. Belongs(p, g)
  BY DEF IInv, Owned, Belongs
<1>7. Owned'
  <2> SUFFICES ASSUME NEW w \in Workers
               PROVE  Belongs(pending'[w], g_link_flags'[w])
    BY DEF Owned
  <2>1. Belongs(pending[w], g_link_flags[w])
    BY DEF IInv, Owned
  <2> QED BY <2>1, <1>1, <1>6
<1>8. CheckedConnection'
  BY DEF IInv, CheckedConnection, RightConnection
<1> QED BY <1>3, <1>5, <1>7, <1>8 DEF IInv

LEMMA CloseLinkKeeps ==
  ASSUME IInv, NEW v \in Workers, NEW fd \in Fds, CloseLink(v, fd) PROVE IInv'
<1> DEFINE f == g_link_flags[v]
<1> DEFINE g == [f EXCEPT ![fd] = 0]
<1> DEFINE p == {r \in pending[v] : r.fd # fd}
<1> DEFINE b == Block("CLOSE", fd, f[fd], f[fd])
<1>1. UNCHANGED <<sock, m_id, acted, recv_queue, pkgs, crashes, check_link_id>>
  BY DEF CloseLink, connVars
<1>2. /\ send_queue \in [Workers -> Seq(Blocks)]
      /\ pending[v] \subseteq Requests
      /\ f \in Flags /\ crashes \in 0 .. MaxCrashes
      /\ \A w \in Workers : Owns(send_queue[w])
  BY DEF IInv, TypeOK, Owned, Flags, Requests
<1>3. g_link_flags' = [g_link_flags EXCEPT ![v] = g]
  BY DEF CloseLink, SetFlag, IInv, TypeOK
<1>4. pending' = [pending EXCEPT ![v] = p]
  BY DEF CloseLink, Forget
<1>5. send_queue' = [send_queue EXCEPT ![v] = Append(send_queue[v], b)]
  BY DEF CloseLink
<1>6. b \in Blocks /\ b.id = b.asker
  <2>1. f[fd] \in Ids
    BY <1>2 DEF CloseLink, Flags
  <2> QED BY <2>1 DEF Block, Blocks
<1>7. /\ g \in Flags
      /\ \A d \in Fds : g[d] \in {0, f[d]}
      /\ \A d \in Fds : d # fd => g[d] = f[d]
  BY <1>2 DEF Flags
<1>8. /\ p \subseteq pending[v]
      /\ \A r \in p : r.fd \in Fds /\ r.fd # fd
  BY <1>2 DEF Requests
<1> HIDE DEF g, p, b
<1>9. /\ send_queue' \in [Workers -> Seq(Blocks)]
      /\ \A w \in Workers : Owns(send_queue'[w])
  BY <1>2, <1>5, <1>6, ReplyQueued
<1>10. \A r \in p : g[r.fd] = f[r.fd]
  BY <1>7, <1>8
<1>11. p \in SUBSET Requests /\ p \subseteq pending[v]
  BY <1>2, <1>8
<1>12. /\ UNCHANGED <<sock, m_id, acted, recv_queue, pkgs, check_link_id>>
       /\ crashes' \in 0 .. MaxCrashes
  BY <1>1, <1>2
<1>13. \A d \in Fds : g[d] \in {0, g_link_flags[v][d]}
  BY <1>7
<1>14. \A r \in p : g[r.fd] = g_link_flags[v][r.fd]
  BY <1>10
<1>15. g \in Flags
  BY <1>7
<1> HIDE DEF f
<1> QED BY <1>3, <1>4, <1>9, <1>15, <1>11, <1>12, <1>13, <1>14, LinksDown

LEMMA WorkerCrashKeeps == ASSUME IInv, NEW v \in Workers, WorkerCrash(v) PROVE IInv'
<1> DEFINE g == [fd \in Fds |-> 0]
<1>1. UNCHANGED <<sock, m_id, acted, recv_queue, pkgs, check_link_id>>
  BY DEF WorkerCrash, connVars
<1>2. /\ send_queue \in [Workers -> Seq(Blocks)]
      /\ \A w \in Workers : Owns(send_queue[w])
  BY DEF IInv, TypeOK, Owned
<1>3. crashes' \in 0 .. MaxCrashes
  BY LinksAssumption DEF WorkerCrash, IInv, TypeOK
<1>4. /\ g_link_flags' = [g_link_flags EXCEPT ![v] = g]
      /\ pending' = [pending EXCEPT ![v] = {}]
  BY DEF WorkerCrash
<1>5. PICK n \in 0 .. Len(send_queue[v]) :
        send_queue' = [send_queue EXCEPT ![v] = SubSeq(send_queue[v], 1, n)]
  BY DEF WorkerCrash
<1> DEFINE q == send_queue[v]
<1> DEFINE r == SubSeq(q, 1, n)
<1>6. /\ r \in Seq(Blocks)
      /\ \A i \in 1 .. Len(r) : i \in 1 .. Len(q) /\ r[i] = q[i]
  <2>1. q \in Seq(Blocks) /\ Len(q) \in Nat /\ n \in 0 .. Len(q)
    BY <1>2, LenProperties
  <2>2. r = [i \in 1 .. n |-> q[i]] /\ \A i \in 1 .. n : i \in 1 .. Len(q)
    BY <2>1
  <2>3. \A i \in 1 .. n : q[i] \in Blocks
    BY <2>1, <2>2, ElementOfSeq
  <2>4. r \in Seq(Blocks) /\ Len(r) = n
    BY <2>1, <2>2, <2>3
  <2> QED BY <2>2, <2>4
<1>7. g \in Flags /\ \A fd \in Fds : g[fd] \in {0, g_link_flags[v][fd]}
  BY DEF Flags
<1>8. Owns(r)
  <2>1. Owns(q)
    BY <1>2
  <2> HIDE DEF q, r
  <2> QED BY <2>1, <1>6 DEF Owns
<1> HIDE DEF g, r, q
<1>9. send_queue' = [send_queue EXCEPT ![v] = r]
  BY <1>5 DEF r, q
<1>10. /\ send_queue' \in [Workers -> Seq(Blocks)]
       /\ \A w \in Workers : Owns(send_queue'[w])
  BY <1>2, <1>6, <1>8, <1>9
<1> DEFINE p == {}
<1>11. /\ p \in SUBSET Requests /\ p \subseteq pending[v]
       /\ \A x \in p : g[x.fd] = g_link_flags[v][x.fd]
       /\ pending' = [pending EXCEPT ![v] = p]
  BY <1>4
<1> HIDE DEF p
<1>12. g_link_flags' = [g_link_flags EXCEPT ![v] = g]
  BY <1>4 DEF g
<1>13. g \in Flags
  BY <1>7
<1>14. \A fd \in Fds : g[fd] \in {0, g_link_flags[v][fd]}
  BY <1>7
<1> QED BY <1>1, <1>3, <1>10, <1>11, <1>12, <1>13, <1>14, LinksDown

-----------------------------------------------------------------------------
(* The invariant is inductive, and what follows from it.                   *)

LEMMA NextKeeps == IInv /\ [Next]_vars => IInv'
<1> SUFFICES ASSUME IInv, [Next]_vars PROVE IInv'
  OBVIOUS
<1>1. CASE Accept
  BY <1>1, AcceptKeeps
<1>2. ASSUME NEW fd \in Fds, Hangup(fd) \/ Flush(fd) PROVE IInv'
  BY <1>2, HangupKeeps, FlushKeeps
<1>3. ASSUME NEW fd \in Fds, NEW w \in Workers, Request(fd, w) PROVE IInv'
  BY <1>3, RequestKeeps
<1>4. ASSUME NEW w \in Workers, SendEvent(w) PROVE IInv'
  BY <1>4, SendEventKeeps
<1>5. ASSUME NEW w \in Workers, Work(w) PROVE IInv'
  <2>1. CASE RecvEvent(w)
    BY <2>1, RecvEventKeeps
  <2>2. CASE Reply(w)
    BY <2>2, ReplyKeeps
  <2>3. CASE WorkerCrash(w)
    BY <2>3, WorkerCrashKeeps
  <2>4. CASE \E fd \in Fds : CloseLink(w, fd)
    BY <2>4, CloseLinkKeeps
  <2> QED BY <1>5, <2>1, <2>2, <2>3, <2>4 DEF Work
<1>6. CASE UNCHANGED vars
  <2>1. UNCHANGED <<sock, m_id, acted, recv_queue, send_queue, g_link_flags, pending,
                    pkgs, crashes, check_link_id>>
    BY <1>6 DEF vars, connVars, workVars
  <2>2. TypeOK'
    BY <2>1 DEF IInv, TypeOK
  <2>3. Believing' /\ Owned' /\ CheckedConnection'
    BY <2>1 DEF IInv, Believing, Owned, CheckedConnection, RightConnection
  <2> QED BY <2>2, <2>3 DEF IInv
<1> QED BY <1>1, <1>2, <1>3, <1>4, <1>5, <1>6 DEF Next, Conn

THEOREM Invariance == Spec => []IInv
BY InitHolds, NextKeeps, PTL DEF Spec

(* Sockets, queues, flags and counters keep their types, and ids stay      *)
(* within those given (Links.TypeOK).                                      *)
THEOREM TypeCorrect == Spec => []TypeOK
<1>1. IInv => TypeOK
  BY DEF IInv
<1> QED BY <1>1, Invariance, PTL

(* However many workers and connections there are: a worker that believes  *)
(* a dead link to be up has that link's CLOSE in its queue, in whatever    *)
(* order handle_error, shut, net_close_cli, requests and the deaths of     *)
(* workers came.                                                           *)
THEOREM DeadLinksTold == Spec => []StaleIsTold
<1>1. IInv => StaleIsTold
  <2> SUFFICES ASSUME IInv, NEW w \in Workers, NEW fd \in Fds, Stale(w, fd)
               PROVE  \E i \in 1 .. Len(recv_queue[w]) :
                        /\ recv_queue[w][i].type = "CLOSE"
                        /\ recv_queue[w][i].fd = fd
                        /\ recv_queue[w][i].id = g_link_flags[w][fd]
    BY DEF StaleIsTold
  <2>1. g_link_flags[w][fd] # 0 /\ ~Live(sock, fd, g_link_flags[w][fd])
    BY DEF Stale, Live
  <2>2. ToldFlags(recv_queue[w], g_link_flags[w], sock)
    BY DEF IInv, Believing, Good
  <2> QED BY <2>1, <2>2 DEF ToldFlags, Closes
<1> QED BY <1>1, Invariance, PTL

(* Where c_sevent compares the ids, no reply and no close acts on another  *)
(* connection than the one it was made for, however often its descriptor   *)
(* was given to somebody else meanwhile.                                   *)
THEOREM RepliesReachTheirAsker == Spec => []CheckedConnection
<1>1. IInv => CheckedConnection
  BY DEF IInv
<1> QED BY <1>1, Invariance, PTL

(* link_up_cli finds the worker without a link on the fd: the CLOSE of the *)
(* last one there was taken first.                                         *)
THEOREM LoginsFindNoLink == Spec => UpAfterDown
<1>1. IInv => \A w \in Workers : recv_queue[w] # <<>> /\ Head(recv_queue[w]).type = "LOGIN"
                => g_link_flags[w][Head(recv_queue[w]).fd] = 0
  <2> SUFFICES ASSUME IInv, NEW w \in Workers, recv_queue[w] # <<>>,
                      Head(recv_queue[w]).type = "LOGIN"
               PROVE  g_link_flags[w][Head(recv_queue[w]).fd] = 0
    OBVIOUS
  <2>1. Head(recv_queue[w]).type # "CLOSE"
    OBVIOUS
  <2>2. /\ recv_queue[w] \in Seq(Blocks) /\ g_link_flags[w] \in Flags
        /\ sock \in Socks /\ Good(recv_queue[w], g_link_flags[w], sock)
    BY WorkerFacts DEF IInv
  <2> QED BY <2>1, <2>2, HeadFits
<1>2. IInv => [\A w \in Workers :
                 LET b == Head(recv_queue[w])
                 IN recv_queue[w] # <<>> /\ recv_queue'[w] = Tail(recv_queue[w])
                    /\ b.type = "LOGIN" => g_link_flags[w][b.fd] = 0]_vars
  BY <1>1
<1> QED BY <1>2, Invariance, PTL DEF UpAfterDown

-----------------------------------------------------------------------------
(* The bytes of a connection: lemmas about joined sequences.               *)

(* What holds of 0 and is handed on up to n holds up to n.                 *)
LEMMA UpTo ==
  ASSUME NEW n \in Nat, NEW T, 0 \in T, \A k \in 0 .. n - 1 : k \in T => k + 1 \in T
  PROVE  \A k \in 0 .. n : k \in T
<1> DEFINE Bad == {k \in 0 .. n : k \notin T}
<1>1. SUFFICES ASSUME Bad # {} PROVE FALSE
  OBVIOUS
<1>2. Bad \subseteq Nat
  OBVIOUS
<1> HIDE DEF Bad
<1>3. PICK b \in Bad : \A y \in Bad : b <= y
  BY <1>1, <1>2, Lowest
<1>4. b \in 0 .. n /\ b # 0 /\ b \notin T
  BY <1>3 DEF Bad
<1>5. b - 1 \in 0 .. n - 1 /\ (b - 1) + 1 = b /\ b - 1 \in T
  BY <1>3, <1>4 DEF Bad
<1> QED BY <1>4, <1>5

LEMMA LeastOfTwo ==
  ASSUME NEW a \in Nat, NEW b \in Nat
  PROVE  /\ Min({a, b}) \in Nat /\ Min({a, b}) <= a /\ Min({a, b}) <= b
         /\ Min({a, b}) = IF a <= b THEN a ELSE b
<1>1. Min({a, b}) \in {a, b} /\ \A y \in {a, b} : Min({a, b}) <= y
  BY Lowest
<1> QED BY <1>1

LEMMA GreatestOfTwo ==
  ASSUME NEW a \in Nat, NEW b \in Nat
  PROVE  Max({a, b}) \in Nat /\ a <= Max({a, b}) /\ b <= Max({a, b})
<1> DEFINE m == IF a <= b THEN b ELSE a
<1>1. m \in {a, b} /\ \A y \in {a, b} : m >= y
  OBVIOUS
<1>2. Max({a, b}) \in {a, b} /\ \A y \in {a, b} : Max({a, b}) >= y
  BY <1>1 DEF Max
<1> QED BY <1>2

(* FlattenSeq joins the parts one after the other.                         *)
Joins(g, seqs, n) == g = [i \in 1 .. n |-> IF i = 1 THEN seqs[i] ELSE g[i - 1] \o seqs[i]]
CanJoin(seqs, n) == \E g : Joins(g, seqs, n)

LEMMA AlwaysJoins == \A seqs : \A n \in Nat : CanJoin(seqs, n)
<1> SUFFICES ASSUME NEW seqs, NEW n \in Nat PROVE CanJoin(seqs, n)
  OBVIOUS
<1> DEFINE T == {k \in 0 .. n : CanJoin(seqs, k)}
<1>1. 0 \in T
  <2>1. Joins(<<>>, seqs, 0)
    BY DEF Joins
  <2> QED BY <2>1 DEF CanJoin
<1>2. ASSUME NEW k \in 0 .. n - 1, k \in T PROVE k + 1 \in T
  <2>1. PICK h : Joins(h, seqs, k)
    BY <1>2 DEF CanJoin
  <2>2. \A i \in 1 .. k : h[i] = IF i = 1 THEN seqs[i] ELSE h[i - 1] \o seqs[i]
    BY <2>1 DEF Joins
  <2> DEFINE last == IF k = 0 THEN seqs[k + 1] ELSE h[k] \o seqs[k + 1]
             g == [i \in 1 .. k + 1 |-> IF i = k + 1 THEN last ELSE h[i]]
  <2> HIDE DEF last
  <2>3. ASSUME NEW i \in 1 .. k + 1
        PROVE  g[i] = IF i = 1 THEN seqs[i] ELSE g[i - 1] \o seqs[i]
    <3>1. CASE i = k + 1
      <4>1. g[i] = last /\ (i # 1 => g[i - 1] = h[k])
        BY <3>1
      <4> HIDE DEF g
      <4> QED BY <3>1, <4>1 DEF last
    <3>2. CASE i # k + 1
      <4>1. i \in 1 .. k /\ g[i] = h[i] /\ (i # 1 => g[i - 1] = h[i - 1])
        BY <3>2
      <4> HIDE DEF g
      <4> QED BY <2>2, <4>1
    <3> QED BY <3>1, <3>2
  <2>4. g = [i \in 1 .. k + 1 |-> IF i = 1 THEN seqs[i] ELSE g[i - 1] \o seqs[i]]
    <3>1. g = [i \in 1 .. k + 1 |-> g[i]]
      OBVIOUS
    <3> HIDE DEF g
    <3> QED BY <2>3, <3>1
  <2> HIDE DEF g
  <2>5. Joins(g, seqs, k + 1)
    BY <2>4 DEF Joins
  <2> QED BY <2>5 DEF CanJoin
<1> HIDE DEF T
<1>3. \A k \in 0 .. n : k \in T
  BY <1>1, <1>2, UpTo
<1> QED BY <1>3 DEF T

LEMMA FlattenIs ==
  ASSUME NEW seqs, Len(seqs) \in Nat, Len(seqs) # 0
  PROVE  \E g : /\ FlattenSeq(seqs) = g[Len(seqs)]
                /\ \A i \in 1 .. Len(seqs) :
                     g[i] = IF i = 1 THEN seqs[i] ELSE g[i - 1] \o seqs[i]
<1> DEFINE n == Len(seqs)
           G == CHOOSE g : Joins(g, seqs, n)
<1>1. Joins(G, seqs, n)
  BY AlwaysJoins DEF CanJoin
<1>2. FlattenSeq(seqs) = G[n]
  BY DEF FlattenSeq, Joins
<1>3. \A i \in 1 .. n : G[i] = IF i = 1 THEN seqs[i] ELSE G[i - 1] \o seqs[i]
  BY <1>1 DEF Joins
<1> QED BY <1>2, <1>3

LEMMA FlattenNone == FlattenSeq(<<>>) = <<>>
BY EmptySeq DEF FlattenSeq

LEMMA FlattenAppend ==
  ASSUME NEW S, NEW s \in Seq(Seq(S)), NEW e \in Seq(S)
  PROVE  FlattenSeq(s) \in Seq(S) /\ FlattenSeq(Append(s, e)) = FlattenSeq(s) \o e
<1> DEFINE n == Len(s)
           t == Append(s, e)
<1>1. n \in Nat /\ Len(t) = n + 1 /\ t[n + 1] = e /\ \A i \in 1 .. n : t[i] = s[i]
  BY AppendProperties, LenProperties
<1> HIDE DEF t
<1>2. PICK g : /\ FlattenSeq(t) = g[n + 1]
               /\ \A i \in 1 .. n + 1 : g[i] = IF i = 1 THEN t[i] ELSE g[i - 1] \o t[i]
  <2>1. Len(t) \in Nat /\ Len(t) # 0
    BY <1>1
  <2>2. \E g : /\ FlattenSeq(t) = g[Len(t)]
               /\ \A i \in 1 .. Len(t) : g[i] = IF i = 1 THEN t[i] ELSE g[i - 1] \o t[i]
    BY <2>1, FlattenIs
  <2> QED BY <1>1, <2>2
<1>3. CASE n = 0
  <2>1. s = <<>> /\ FlattenSeq(s) = <<>>
    BY <1>3, EmptySeq, FlattenNone
  <2>2. FlattenSeq(t) = e
    BY <1>1, <1>2, <1>3
  <2> QED BY <2>1, <2>2, EmptySeq, ConcatEmptySeq DEF t
<1>4. CASE n # 0
  <2>1. PICK h : /\ FlattenSeq(s) = h[n]
                 /\ \A i \in 1 .. n : h[i] = IF i = 1 THEN s[i] ELSE h[i - 1] \o s[i]
    BY <1>1, <1>4, FlattenIs
  <2> DEFINE T == {0} \cup {i \in 1 .. n : g[i] = h[i] /\ h[i] \in Seq(S)}
  <2>2. ASSUME NEW k \in 0 .. n - 1, k \in T PROVE k + 1 \in T
    <3>1. k + 1 \in 1 .. n /\ k + 1 \in 1 .. n + 1 /\ s[k + 1] \in Seq(S) /\ t[k + 1] = s[k + 1]
      <4>1. k + 1 \in 1 .. n /\ k + 1 \in 1 .. n + 1
        BY <1>1
      <4> HIDE DEF T
      <4>2. s[k + 1] \in Seq(S)
        BY <4>1, ElementOfSeq
      <4> QED BY <1>1, <4>1, <4>2
    <3>2. CASE k = 0
      BY <1>2, <2>1, <3>1, <3>2
    <3>3. CASE k # 0
      <4>1. g[k] = h[k] /\ h[k] \in Seq(S)
        BY <2>2, <3>3
      <4>2. g[k + 1] = g[k] \o t[k + 1] /\ h[k + 1] = h[k] \o s[k + 1]
        <5>1. k + 1 # 1 /\ (k + 1) - 1 = k
          BY <3>3
        <5> QED BY <1>2, <2>1, <3>1, <5>1
      <4>3. h[k] \o s[k + 1] \in Seq(S)
        BY <3>1, <4>1, ConcatProperties
      <4> QED BY <3>1, <4>1, <4>2, <4>3
    <3> QED BY <3>2, <3>3
  <2>3. 0 \in T
    OBVIOUS
  <2> HIDE DEF T
  <2>4. n \in T
    <3>1. \A k \in 0 .. n : k \in T
      BY <1>1, <2>2, <2>3, UpTo
    <3> QED BY <1>1, <3>1
  <2>5. g[n] = h[n] /\ h[n] \in Seq(S)
    BY <1>1, <1>4, <2>4 DEF T
  <2>6. g[n + 1] = g[n] \o e
    <3>1. n + 1 \in 1 .. n + 1 /\ n + 1 # 1 /\ (n + 1) - 1 = n
      BY <1>1, <1>4
    <3> QED BY <1>1, <1>2, <3>1
  <2> QED BY <1>2, <2>1, <2>5, <2>6 DEF t
<1> QED BY <1>3, <1>4

(* A sequence of one element less.                                         *)
LEMMA Shorter ==
  ASSUME NEW S, NEW s \in Seq(S), NEW k \in 0 .. Len(s) - 1
  PROVE  /\ SubSeq(s, 1, k) \in Seq(S) /\ Len(SubSeq(s, 1, k)) = k /\ s[k + 1] \in S
         /\ SubSeq(s, 1, k + 1) = Append(SubSeq(s, 1, k), s[k + 1])
<1>1. Len(s) \in Nat /\ \A i \in 1 .. Len(s) : s[i] \in S
  BY LenProperties, ElementOfSeq
<1>2. SubSeq(s, 1, k) \in Seq(S) /\ Len(SubSeq(s, 1, k)) = k /\ s[k + 1] \in S
  <2>1. \A i \in 1 .. k : s[i] \in S
    BY <1>1
  <2>2. Len(SubSeq(s, 1, k)) = IF 1 <= k THEN k - 1 + 1 ELSE 0
    BY <2>1, SubSeqProperties
  <2> QED BY <1>1, <2>1, <2>2, SubSeqProperties
<1>3. 1 \in 1 .. Len(s) /\ k + 1 \in 1 .. Len(s) /\ (k + 1) - 1 = k
  BY <1>1
<1>4. SubSeq(s, 1, k + 1) = SubSeq(s, 1, k) \o <<s[k + 1]>>
  BY <1>3, SubSeqRecursiveSecond
<1> QED BY <1>2, <1>4, AppendIsConcat

LEMMA FlattenInSeq ==
  ASSUME NEW S, NEW s \in Seq(Seq(S))
  PROVE  FlattenSeq(s) \in Seq(S)
BY EmptySeq, FlattenAppend

LEMMA Regroup ==
  ASSUME NEW S, NEW a \in Seq(S), NEW b \in Seq(S), NEW c \in Seq(S)
  PROVE  a \o b \in Seq(S) /\ b \o c \in Seq(S) /\ (a \o b) \o c = a \o (b \o c)
BY ConcatAssociative, ConcatProperties

LEMMA ConcatAppend ==
  ASSUME NEW S, NEW a \in Seq(S), NEW b \in Seq(S), NEW e \in S
  PROVE  a \o b \in Seq(S) /\ a \o Append(b, e) = Append(a \o b, e)
<1>1. a \o b \in Seq(S) /\ <<e>> \in Seq(S)
  BY ConcatProperties
<1>2. Append(b, e) = b \o <<e>> /\ Append(a \o b, e) = (a \o b) \o <<e>>
  BY <1>1, AppendIsConcat
<1>3. (a \o b) \o <<e>> = a \o (b \o <<e>>)
  BY <1>1, Regroup
<1> QED BY <1>1, <1>2, <1>3

(* One part more, and parts after parts.                                   *)
LEMMA FlattenMore ==
  ASSUME NEW S, NEW s \in Seq(Seq(S)), NEW u \in Seq(Seq(S)), NEW e \in Seq(S),
         FlattenSeq(s \o u) = FlattenSeq(s) \o FlattenSeq(u)
  PROVE  FlattenSeq(s \o Append(u, e)) = FlattenSeq(s) \o FlattenSeq(Append(u, e))
<1>1. s \o u \in Seq(Seq(S)) /\ s \o Append(u, e) = Append(s \o u, e)
  BY ConcatAppend
<1>2. FlattenSeq(Append(s \o u, e)) = FlattenSeq(s \o u) \o e
  BY <1>1, FlattenAppend
<1>3. FlattenSeq(Append(u, e)) = FlattenSeq(u) \o e
  BY FlattenAppend
<1>4. FlattenSeq(s) \in Seq(S) /\ FlattenSeq(u) \in Seq(S)
  BY FlattenInSeq
<1>5. (FlattenSeq(s) \o FlattenSeq(u)) \o e = FlattenSeq(s) \o (FlattenSeq(u) \o e)
  BY <1>4, Regroup
<1> QED BY <1>1, <1>2, <1>3, <1>5

LEMMA FlattenConcat ==
  ASSUME NEW S, NEW s \in Seq(Seq(S)), NEW t \in Seq(Seq(S))
  PROVE  FlattenSeq(s \o t) = FlattenSeq(s) \o FlattenSeq(t)
<1> DEFINE n == Len(t)
           U(k) == SubSeq(t, 1, k)
           T == {k \in 0 .. n : FlattenSeq(s \o U(k)) = FlattenSeq(s) \o FlattenSeq(U(k))}
<1>0. n \in Nat
  BY LenProperties
<1>1. 0 \in T
  <2>1. U(0) = <<>>
    BY SubSeqEmpty
  <2> HIDE DEF U
  <2>2. FlattenSeq(s \o U(0)) = FlattenSeq(s) \o FlattenSeq(U(0))
    <3>1. s \o <<>> = s
      BY ConcatEmptySeq
    <3>2. FlattenSeq(s) \o <<>> = FlattenSeq(s)
      BY ConcatEmptySeq, FlattenInSeq
    <3> QED BY <2>1, <3>1, <3>2, FlattenNone
  <2> QED BY <1>0, <2>2
<1>2. ASSUME NEW k \in 0 .. n - 1, k \in T PROVE k + 1 \in T
  <2>1. /\ U(k) \in Seq(Seq(S)) /\ t[k + 1] \in Seq(S) /\ U(k + 1) = Append(U(k), t[k + 1])
    BY Shorter
  <2>2. FlattenSeq(s \o U(k)) = FlattenSeq(s) \o FlattenSeq(U(k))
    BY <1>2
  <2> HIDE DEF U
  <2>3. FlattenSeq(s \o U(k + 1)) = FlattenSeq(s) \o FlattenSeq(U(k + 1))
    BY <2>1, <2>2, FlattenMore
  <2> QED BY <1>0, <2>3
<1>3. U(n) = t
  BY SubSeqFull
<1> HIDE DEF T
<1>4. \A k \in 0 .. n : k \in T
  BY <1>0, <1>1, <1>2, UpTo
<1>5. FlattenSeq(s \o U(n)) = FlattenSeq(s) \o FlattenSeq(U(n))
  BY <1>0, <1>4 DEF T
<1> QED BY <1>3, <1>5

(* Where the parts end.                                                    *)
End(s, k) == Len(FlattenSeq(SubSeq(s, 1, k)))

(* The parts up to the k-th, and those after it.                           *)
LEMMA FlattenSplit ==
  ASSUME NEW S, NEW s \in Seq(Seq(S)), NEW k \in 0 .. Len(s)
  PROVE  /\ SubSeq(s, 1, k) \in Seq(Seq(S)) /\ SubSeq(s, k + 1, Len(s)) \in Seq(Seq(S))
         /\ Len(SubSeq(s, 1, k)) = k /\ Len(SubSeq(s, k + 1, Len(s))) = Len(s) - k
         /\ \A i \in 1 .. Len(s) - k : SubSeq(s, k + 1, Len(s))[i] = s[k + i]
         /\ FlattenSeq(s) = FlattenSeq(SubSeq(s, 1, k)) \o FlattenSeq(SubSeq(s, k + 1, Len(s)))
<1> DEFINE n == Len(s)
           a == SubSeq(s, 1, k)
           b == SubSeq(s, k + 1, n)
<1>1. n \in Nat /\ k \in Nat /\ k <= n /\ \A i \in 1 .. n : s[i] \in Seq(S)
  BY LenProperties, ElementOfSeq
<1>2. a \in Seq(Seq(S)) /\ Len(a) = k
  <2>1. \A i \in 1 .. k : s[i] \in Seq(S)
    BY <1>1
  <2>2. Len(a) = IF 1 <= k THEN k - 1 + 1 ELSE 0
    BY <1>1, <2>1, SubSeqProperties
  <2> QED BY <1>1, <2>1, <2>2, SubSeqProperties
<1>3. b \in Seq(Seq(S)) /\ Len(b) = n - k /\ \A i \in 1 .. n - k : b[i] = s[k + i]
  <2>1. \A i \in k + 1 .. n : s[i] \in Seq(S)
    BY <1>1
  <2>2. /\ b \in Seq(Seq(S)) /\ Len(b) = IF k + 1 <= n THEN n - (k + 1) + 1 ELSE 0
        /\ \A i \in 1 .. n - (k + 1) + 1 : b[i] = s[(k + 1) + i - 1]
    BY <1>1, <2>1, SubSeqProperties
  <2>3. n - (k + 1) + 1 = n - k /\ \A i \in 1 .. n - k : (k + 1) + i - 1 = k + i
    BY <1>1
  <2> HIDE DEF b
  <2>4. Len(b) = n - k
    BY <1>1, <2>2
  <2>5. \A i \in 1 .. n - k : b[i] = s[k + i]
    BY <2>2, <2>3
  <2> QED BY <2>2, <2>4, <2>5
<1>4. a \o b = s
  <2>1. 1 \in 1 .. n + 1 /\ k \in 1 - 1 .. n /\ n \in k .. n
    BY <1>1
  <2>2. a \o b = SubSeq(s, 1, n)
    BY <2>1, ConcatAdjacentSubSeq
  <2> QED BY <2>2, SubSeqFull
<1>5. FlattenSeq(a \o b) = FlattenSeq(a) \o FlattenSeq(b)
  BY <1>2, <1>3, FlattenConcat
<1> QED BY <1>2, <1>3, <1>4, <1>5

(* Each part ends its own length after the one before.                     *)
LEMMA FlattenEnds ==
  ASSUME NEW S, NEW s \in Seq(Seq(S))
  PROVE  /\ End(s, 0) = 0 /\ End(s, Len(s)) = Len(FlattenSeq(s))
         /\ \A k \in 0 .. Len(s) : End(s, k) \in Nat /\ End(s, k) <= Len(FlattenSeq(s))
         /\ \A k \in 1 .. Len(s) :
              /\ End(s, k) = End(s, k - 1) + Len(s[k])
              /\ \A i \in 1 .. Len(s[k]) : FlattenSeq(s)[End(s, k - 1) + i] = s[k][i]
<1> DEFINE n == Len(s)
           F(k) == FlattenSeq(SubSeq(s, 1, k))
           G(k) == FlattenSeq(SubSeq(s, k + 1, n))
<1>1. n \in Nat /\ FlattenSeq(s) \in Seq(S)
  BY LenProperties, FlattenInSeq
<1>2. ASSUME NEW k \in 0 .. n
      PROVE  F(k) \in Seq(S) /\ G(k) \in Seq(S) /\ FlattenSeq(s) = F(k) \o G(k)
  BY FlattenSplit, FlattenInSeq
<1>3. ASSUME NEW k \in 0 .. n
      PROVE  Len(F(k)) \in Nat /\ Len(F(k)) <= Len(FlattenSeq(s))
  <2> DEFINE f == F(k)  g == G(k)
  <2>1. f \in Seq(S) /\ g \in Seq(S) /\ FlattenSeq(s) = f \o g
    BY <1>2
  <2> HIDE DEF f, g
  <2>2. Len(f) \in Nat /\ Len(g) \in Nat /\ Len(f \o g) = Len(f) + Len(g)
    BY <2>1, ConcatProperties, LenProperties
  <2>3. Len(f) \in Nat /\ Len(f) <= Len(FlattenSeq(s))
    BY <2>1, <2>2
  <2> QED BY <2>3 DEF f
<1>4. ASSUME NEW k \in 1 .. n
      PROVE  /\ Len(F(k)) = Len(F(k - 1)) + Len(s[k])
             /\ \A i \in 1 .. Len(s[k]) : FlattenSeq(s)[Len(F(k - 1)) + i] = s[k][i]
  <2> DEFINE f == F(k)  e == F(k - 1)  g == G(k)  c == s[k]
  <2>1. k - 1 \in 0 .. n - 1 /\ k \in 0 .. n /\ (k - 1) + 1 = k
    BY <1>1
  <2>2. f \in Seq(S) /\ g \in Seq(S) /\ FlattenSeq(s) = f \o g
    BY <1>2, <2>1
  <2>3. f = e \o c /\ e \in Seq(S) /\ c \in Seq(S)
    <3>1. /\ SubSeq(s, 1, k - 1) \in Seq(Seq(S)) /\ s[(k - 1) + 1] \in Seq(S)
          /\ SubSeq(s, 1, (k - 1) + 1) = Append(SubSeq(s, 1, k - 1), s[(k - 1) + 1])
      BY <2>1, Shorter
    <3> QED BY <2>1, <3>1, FlattenAppend
  <2> HIDE DEF f, e, g, c
  <2>4. Len(f) = Len(e) + Len(c) /\ Len(e) \in Nat /\ Len(c) \in Nat /\ Len(g) \in Nat
    BY <2>2, <2>3, ConcatProperties, LenProperties
  <2>5. ASSUME NEW i \in 1 .. Len(c) PROVE FlattenSeq(s)[Len(e) + i] = c[i]
    <3>1. Len(e) + i \in 1 .. Len(f) /\ Len(e) + i \in 1 .. Len(f) + Len(g)
      BY <2>4
    <3>2. (f \o g)[Len(e) + i] = f[Len(e) + i]
      BY <2>2, <3>1, ConcatProperties
    <3>3. Len(e) + i \in 1 .. Len(e) + Len(c) /\ ~ (Len(e) + i <= Len(e)) /\ Len(e) + i - Len(e) = i
      BY <2>4
    <3>4. (e \o c)[Len(e) + i] = c[i]
      BY <2>3, <3>3, ConcatProperties
    <3> QED BY <2>2, <2>3, <3>2, <3>4
  <2> QED BY <2>4, <2>5 DEF f, e, c
<1>5. Len(F(0)) = 0
  <2>1. SubSeq(s, 1, 0) = <<>>
    BY SubSeqEmpty
  <2> QED BY <2>1, FlattenNone, EmptySeq
<1>6. F(n) = FlattenSeq(s)
  BY SubSeqFull
<1> HIDE DEF G
<1> QED BY <1>3, <1>4, <1>5, <1>6 DEF End

(* What is left after p elements.                                          *)
LEMMA AfterIs ==
  ASSUME NEW S, NEW s \in Seq(S), NEW p \in 0 .. Len(s)
  PROVE  /\ After(s, p) \in Seq(S) /\ Len(After(s, p)) = Len(s) - p
         /\ \A i \in 1 .. Len(s) - p : After(s, p)[i] = s[p + i]
<1> DEFINE n == Len(s)
           t == SubSeq(s, p + 1, n)
<1>1. n \in Nat /\ \A i \in p + 1 .. n : s[i] \in S
  BY LenProperties, ElementOfSeq
<1>2. /\ t \in Seq(S) /\ Len(t) = IF p + 1 <= n THEN n - (p + 1) + 1 ELSE 0
      /\ \A i \in 1 .. n - (p + 1) + 1 : t[i] = s[(p + 1) + i - 1]
  BY <1>1, SubSeqProperties
<1>3. n - (p + 1) + 1 = n - p /\ \A i \in 1 .. n - p : (p + 1) + i - 1 = p + i
  BY <1>1
<1>4. After(s, p) = t
  BY DEF After
<1> HIDE DEF t
<1>5. Len(t) = n - p
  BY <1>1, <1>2
<1>6. \A i \in 1 .. n - p : t[i] = s[p + i]
  BY <1>2, <1>3
<1> QED BY <1>2, <1>4, <1>5, <1>6

-----------------------------------------------------------------------------
(* The bytes a client sends.                                               *)

Octet == Nat \X Nat
AnyLength == Lengths \cup {TooLong}
Packages(lens) == [k \in DOMAIN lens |-> Package(k, lens[k])]

LEMMA Sizes ==
  /\ HeadLen \in Nat \ {0} /\ FirstSize \in Nat \ {0} /\ BufLen \in Nat \ {0}
  /\ ListSize \in Nat \ {0} /\ MaxLen \in Nat \ {0} /\ HeadLen <= FirstSize
  /\ \A len \in AnyLength : len \in Nat /\ HeadLen <= len /\ (len > MaxLen <=> len = TooLong)
  /\ \A len \in Lengths : len \in AnyLength /\ len <= MaxLen
BY SocketAssumption DEF AnyLength, Lengths, TooLong

LEMMA PackageIs ==
  ASSUME NEW k \in Nat, NEW len \in Nat
  PROVE  /\ Package(k, len) \in Seq(Octet) /\ Len(Package(k, len)) = len
         /\ \A i \in 1 .. len : Package(k, len)[i] = <<k, i>>
<1> DEFINE p == [i \in 1 .. len |-> <<k, i>>]
<1>1. \A i \in 1 .. len : <<k, i>> \in Octet
  BY DEF Octet
<1>2. p \in [1 .. len -> Octet]
  BY <1>1
<1>3. p \in Seq(Octet) /\ DOMAIN p = 1 .. len
  BY <1>2, SeqDef
<1>4. Len(p) = len
  BY <1>3, LenProperties
<1> QED BY <1>3, <1>4 DEF Package

LEMMA BytesAre ==
  ASSUME NEW lens \in Seq(Nat)
  PROVE  LET P == Packages(lens)
             B == Bytes(lens)
         IN  /\ P \in Seq(Seq(Octet)) /\ Len(P) = Len(lens) /\ Len(lens) \in Nat
             /\ B \in Seq(Octet) /\ B = FlattenSeq(P) /\ Len(B) \in Nat
             /\ End(P, 0) = 0 /\ End(P, Len(lens)) = Len(B)
             /\ \A k \in 0 .. Len(lens) : End(P, k) \in Nat /\ End(P, k) <= Len(B)
             /\ \A k \in 1 .. Len(lens) :
                  /\ End(P, k) = End(P, k - 1) + lens[k]
                  /\ \A i \in 1 .. lens[k] : B[End(P, k - 1) + i] = <<k, i>>
<1> DEFINE P == Packages(lens)
           n == Len(lens)
<1>1. n \in Nat /\ DOMAIN lens = 1 .. n /\ \A k \in 1 .. n : lens[k] \in Nat
  BY LenProperties, ElementOfSeq
<1>2. /\ P = [k \in 1 .. n |-> Package(k, lens[k])]
      /\ Bytes(lens) = FlattenSeq(P)
  BY <1>1 DEF Packages, Bytes
<1>3. ASSUME NEW k \in 1 .. n
      PROVE  /\ P[k] \in Seq(Octet) /\ Len(P[k]) = lens[k]
             /\ \A i \in 1 .. lens[k] : P[k][i] = <<k, i>>
  <2>1. P[k] = Package(k, lens[k]) /\ k \in Nat /\ lens[k] \in Nat
    BY <1>1, <1>2
  <2> HIDE DEF P
  <2>2. /\ Package(k, lens[k]) \in Seq(Octet) /\ Len(Package(k, lens[k])) = lens[k]
        /\ \A i \in 1 .. lens[k] : Package(k, lens[k])[i] = <<k, i>>
    BY <2>1, PackageIs
  <2> QED BY <2>1, <2>2
<1>4. P \in [1 .. n -> Seq(Octet)]
  BY <1>2, <1>3
<1>5. P \in Seq(Seq(Octet)) /\ DOMAIN P = 1 .. n
  BY <1>1, <1>4, SeqDef
<1> HIDE DEF P
<1>6. Len(P) = n
  BY <1>1, <1>5, LenProperties
<1>7. FlattenSeq(P) \in Seq(Octet) /\ Len(FlattenSeq(P)) \in Nat
  BY <1>5, FlattenInSeq, LenProperties
<1>8. /\ End(P, 0) = 0 /\ End(P, n) = Len(FlattenSeq(P))
      /\ \A k \in 0 .. n : End(P, k) \in Nat /\ End(P, k) <= Len(FlattenSeq(P))
      /\ \A k \in 1 .. n :
           /\ End(P, k) = End(P, k - 1) + Len(P[k])
           /\ \A i \in 1 .. Len(P[k]) : FlattenSeq(P)[End(P, k - 1) + i] = P[k][i]
  <2>1. /\ End(P, 0) = 0 /\ End(P, Len(P)) = Len(FlattenSeq(P))
        /\ \A k \in 0 .. Len(P) : End(P, k) \in Nat /\ End(P, k) <= Len(FlattenSeq(P))
        /\ \A k \in 1 .. Len(P) :
             /\ End(P, k) = End(P, k - 1) + Len(P[k])
             /\ \A i \in 1 .. Len(P[k]) : FlattenSeq(P)[End(P, k - 1) + i] = P[k][i]
    BY <1>5, FlattenEnds
  <2> QED BY <1>6, <2>1
<1>9. \A k \in 1 .. n :
        /\ End(P, k) = End(P, k - 1) + lens[k]
        /\ \A i \in 1 .. lens[k] : FlattenSeq(P)[End(P, k - 1) + i] = <<k, i>>
  BY <1>3, <1>8
<1> QED BY <1>1, <1>2, <1>5, <1>6, <1>7, <1>8, <1>9 DEF P

(* The first byte of the package that comes next is the one after Start;   *)
(* the buffer is a piece of the stream, and pos is at the package's start. *)
Start == End(Packages(in_lens), Len(handed))

Cut ==
  /\ pos \in Nat /\ pos <= Len(buf) /\ Len(buf) <= taken
  /\ taken - Len(buf) + pos = Start
  /\ \A i \in 1 .. Len(buf) : buf[i] = Bytes(in_lens)[taken - Len(buf) + i]

Handed ==
  /\ Len(handed) \in Nat /\ Len(handed) <= Len(in_lens)
  /\ handed = [k \in 1 .. Len(handed) |-> Package(k, in_lens[k])]

Incoming ==
  /\ in_lens \in Seq(AnyLength) /\ Handed
  /\ state \in {"open", "closing", "shut", "error", "bad length"}
  /\ state = "bad length" => in_lens[Len(handed) + 1] = TooLong
  /\ reading \in BOOLEAN /\ (reading => state = "open")
  /\ size \in Nat /\ FirstSize <= size /\ size <= Max({FirstSize, MaxLen})
  /\ taken \in Nat /\ taken <= Len(Bytes(in_lens))
  /\ buf \in Seq(Octet) /\ Len(buf) <= size
  /\ Alive /\ ~reading => Len(buf) < size
  /\ state = "open" => Cut /\ (~reading => pos = 0)

LEMMA StreamFacts ==
  ASSUME Incoming
  PROVE  LET h == Len(handed)
             n == Len(in_lens)
             B == Bytes(in_lens)
         IN  /\ h \in Nat /\ n \in Nat /\ B \in Seq(Octet) /\ Len(B) \in Nat
             /\ Start \in Nat /\ Start <= Len(B) /\ (h = n => Start = Len(B))
             /\ \A k \in 1 .. n : in_lens[k] \in AnyLength
             /\ h < n => /\ h + 1 \in 1 .. n
                         /\ End(Packages(in_lens), h + 1) = Start + in_lens[h + 1]
                         /\ \A i \in 1 .. in_lens[h + 1] : B[Start + i] = <<h + 1, i>>
<1> DEFINE h == Len(handed)
           n == Len(in_lens)
           P == Packages(in_lens)
           B == Bytes(in_lens)
<1>1. in_lens \in Seq(Nat)
  <2>1. in_lens \in Seq(AnyLength) /\ AnyLength \subseteq Nat
    BY Sizes DEF Incoming
  <2> QED BY <2>1, SeqMonotonic
<1>2. \A k \in 1 .. n : in_lens[k] \in AnyLength
  BY ElementOfSeq DEF Incoming
<1>3. h \in Nat /\ h <= n
  BY DEF Incoming, Handed
<1>4. /\ n \in Nat /\ B \in Seq(Octet) /\ Len(B) \in Nat /\ End(P, n) = Len(B)
      /\ \A k \in 0 .. n : End(P, k) \in Nat /\ End(P, k) <= Len(B)
      /\ \A k \in 1 .. n :
           /\ End(P, k) = End(P, k - 1) + in_lens[k]
           /\ \A i \in 1 .. in_lens[k] : B[End(P, k - 1) + i] = <<k, i>>
  BY <1>1, BytesAre
<1>5. Start = End(P, h)
  BY DEF Start
<1> HIDE DEF h, n, P, B
<1>6. Start \in Nat /\ Start <= Len(B) /\ (h = n => Start = Len(B))
  BY <1>3, <1>4, <1>5
<1>7. ASSUME h < n
      PROVE  /\ h + 1 \in 1 .. n /\ End(P, h + 1) = Start + in_lens[h + 1]
             /\ \A i \in 1 .. in_lens[h + 1] : B[Start + i] = <<h + 1, i>>
  <2>1. h + 1 \in 1 .. n /\ (h + 1) - 1 = h
    BY <1>3, <1>4, <1>7
  <2> QED BY <1>4, <1>5, <2>1
<1> QED BY <1>2, <1>3, <1>4, <1>6, <1>7 DEF h, n, P, B

(* What get_pkg_len_cli is asked about is the head of the next package.    *)
LEMMA HeadIsNext ==
  ASSUME Incoming, state = "open"
  PROVE  LET h == Len(handed)
             rest == After(buf, pos)
         IN  /\ rest \in Seq(Octet) /\ Len(rest) = Len(buf) - pos
             /\ Len(rest) < HeadLen => PkgLens(rest) = {0}
             /\ Len(rest) >= HeadLen => h < Len(in_lens) /\ PkgLens(rest) = {in_lens[h + 1]}
<1> DEFINE h == Len(handed)
           n == Len(in_lens)
           B == Bytes(in_lens)
           rest == After(buf, pos)
<1>1. /\ buf \in Seq(Octet) /\ pos \in Nat /\ pos <= Len(buf) /\ Len(buf) <= taken /\ taken \in Nat
      /\ taken <= Len(B) /\ taken - Len(buf) + pos = Start /\ Len(buf) \in Nat
      /\ \A i \in 1 .. Len(buf) : buf[i] = B[taken - Len(buf) + i]
  BY LenProperties DEF Incoming, Cut
<1>2. /\ rest \in Seq(Octet) /\ Len(rest) = Len(buf) - pos
      /\ \A i \in 1 .. Len(buf) - pos : rest[i] = buf[pos + i]
  <2>1. pos \in 0 .. Len(buf)
    BY <1>1
  <2> QED BY <1>1, <2>1, AfterIs
<1>3. /\ h \in Nat /\ n \in Nat /\ Len(B) \in Nat /\ Start \in Nat /\ (h = n => Start = Len(B)) /\ h <= n
      /\ \A k \in 1 .. n : in_lens[k] \in AnyLength
      /\ h < n => /\ h + 1 \in 1 .. n
                  /\ \A i \in 1 .. in_lens[h + 1] : B[Start + i] = <<h + 1, i>>
  BY StreamFacts DEF Incoming, Handed
<1>4. DOMAIN in_lens = 1 .. n
  BY LenProperties DEF Incoming
<1> HIDE DEF h, n, B, rest
<1>5. ASSUME Len(rest) < HeadLen PROVE PkgLens(rest) = {0}
  BY <1>5 DEF PkgLens
<1>6. ASSUME Len(rest) >= HeadLen PROVE h < n /\ PkgLens(rest) = {in_lens[h + 1]}
  <2>1. HeadLen \in Nat /\ HeadLen >= 1
    BY Sizes
  <2>2. Len(rest) \in Nat /\ Start + Len(rest) = taken
    BY <1>1, <1>2
  <2>3. h < n
    BY <1>1, <1>3, <1>6, <2>1, <2>2
  <2>4. in_lens[h + 1] \in Nat /\ HeadLen <= in_lens[h + 1] /\ h + 1 \in Nat
    BY <1>3, <2>3, Sizes
  <2>5. ASSUME NEW i \in 1 .. HeadLen PROVE rest[i] = <<h + 1, i>>
    <3>1. i \in 1 .. Len(buf) - pos /\ pos + i \in 1 .. Len(buf) /\ i \in 1 .. in_lens[h + 1]
      BY <1>1, <1>2, <1>6, <2>1, <2>4
    <3>2. rest[i] = B[taken - Len(buf) + (pos + i)]
      BY <1>1, <1>2, <3>1
    <3>3. taken - Len(buf) + (pos + i) = Start + i
      BY <1>1, <3>1
    <3> QED BY <1>3, <2>3, <3>1, <3>2, <3>3
  <2>6. SubSeq(rest, 1, HeadLen) = Package(h + 1, HeadLen)
    <3> DEFINE a == SubSeq(rest, 1, HeadLen)
               b == Package(h + 1, HeadLen)
    <3>1. b \in Seq(Octet) /\ Len(b) = HeadLen /\ \A i \in 1 .. HeadLen : b[i] = <<h + 1, i>>
      BY <2>1, <2>4, PackageIs
    <3>2. \A i \in 1 .. HeadLen : rest[i] \in Octet
      <4>1. \A i \in 1 .. HeadLen : i \in 1 .. Len(rest)
        BY <1>6, <2>1, <2>2
      <4> QED BY <1>2, <4>1, ElementOfSeq
    <3>3. a \in Seq(Octet) /\ Len(a) = HeadLen /\ \A i \in 1 .. HeadLen : a[i] = rest[i]
      <4>1. /\ a \in Seq(Octet) /\ Len(a) = IF 1 <= HeadLen THEN HeadLen - 1 + 1 ELSE 0
            /\ \A i \in 1 .. HeadLen - 1 + 1 : a[i] = rest[1 + i - 1]
        BY <2>1, <3>2, SubSeqProperties
      <4> HIDE DEF a
      <4>2. HeadLen - 1 + 1 = HeadLen /\ \A i \in 1 .. HeadLen : 1 + i - 1 = i
        BY <2>1
      <4>3. Len(a) = HeadLen
        BY <2>1, <4>1, <4>2
      <4> QED BY <4>1, <4>2, <4>3
    <3> HIDE DEF a, b
    <3>4. \A i \in 1 .. HeadLen : a[i] = b[i]
      BY <2>5, <3>1, <3>3
    <3>5. a = b
      BY <3>1, <3>3, <3>4, SeqEqual
    <3> QED BY <3>5 DEF a, b
  <2>7. rest[1][1] = h + 1
    BY <2>1, <2>5
  <2>8. h + 1 \in DOMAIN in_lens
    BY <1>3, <1>4, <2>3
  <2>9. ~ (Len(rest) < HeadLen)
    BY <1>6, <2>1, <2>2
  <2>10. PkgLens(rest) = {in_lens[rest[1][1]]}
    BY <2>6, <2>8, <2>9 DEF PkgLens
  <2> QED BY <2>3, <2>7, <2>10
<1> QED BY <1>2, <1>5, <1>6 DEF h, n, rest

(* What is handed over is the next package.                                *)
LEMMA PackageIsNext ==
  ASSUME Incoming, state = "open", Len(handed) < Len(in_lens),
         NEW len, len = in_lens[Len(handed) + 1], pos + len <= Len(buf)
  PROVE  SubSeq(buf, pos + 1, pos + len) = Package(Len(handed) + 1, len)
<1> DEFINE h == Len(handed)
           B == Bytes(in_lens)
           a == SubSeq(buf, pos + 1, pos + len)
           b == Package(h + 1, len)
<1>1. /\ buf \in Seq(Octet) /\ pos \in Nat /\ pos <= Len(buf) /\ Len(buf) <= taken /\ taken \in Nat
      /\ taken - Len(buf) + pos = Start /\ Len(buf) \in Nat
      /\ \A i \in 1 .. Len(buf) : buf[i] = B[taken - Len(buf) + i] /\ buf[i] \in Octet
  BY LenProperties, ElementOfSeq DEF Incoming, Cut
<1>2. /\ h \in Nat /\ len \in Nat /\ len >= 1 /\ Start \in Nat
      /\ \A i \in 1 .. len : B[Start + i] = <<h + 1, i>>
  BY StreamFacts, Sizes
<1>2a. /\ pos \in Nat /\ taken \in Nat /\ Len(buf) \in Nat /\ Start \in Nat /\ len \in Nat /\ len >= 1
        /\ pos + len <= Len(buf) /\ taken - Len(buf) + pos = Start
  BY <1>1, <1>2
<1>3. b \in Seq(Octet) /\ Len(b) = len /\ \A i \in 1 .. len : b[i] = <<h + 1, i>>
  <2>1. h + 1 \in Nat
    BY <1>2
  <2> HIDE DEF h
  <2> QED BY <1>2, <2>1, PackageIs
<1>4. /\ a \in Seq(Octet) /\ Len(a) = IF pos + 1 <= pos + len THEN (pos + len) - (pos + 1) + 1 ELSE 0
      /\ \A i \in 1 .. (pos + len) - (pos + 1) + 1 : a[i] = buf[(pos + 1) + i - 1]
  <2>1. /\ \A i \in pos + 1 .. pos + len : i \in 1 .. Len(buf)
        /\ pos + 1 \in Int /\ pos + len \in Int
    BY <1>2a
  <2>2. \A i \in pos + 1 .. pos + len : buf[i] \in Octet
    BY <1>1, <2>1
  <2> QED BY <2>1, <2>2, SubSeqProperties
<1> HIDE DEF h, B, a, b
<1>5. Len(a) = len
  <2>1. pos + 1 <= pos + len /\ (pos + len) - (pos + 1) + 1 = len
    BY <1>2a
  <2> QED BY <1>4, <2>1
<1>6. ASSUME NEW i \in 1 .. len PROVE a[i] = b[i]
  <2>1. i \in Nat /\ 1 <= i /\ i <= len
    BY <1>2a
  <2>2. i \in 1 .. (pos + len) - (pos + 1) + 1 /\ (pos + 1) + i - 1 = pos + i
    BY <1>2a, <2>1
  <2>3. pos + i \in 1 .. Len(buf) /\ taken - Len(buf) + (pos + i) = Start + i
    BY <1>2a, <2>1
  <2>4. a[i] = buf[pos + i]
    BY <1>4, <2>2
  <2>5. buf[pos + i] = B[Start + i]
    BY <1>1, <2>3
  <2> QED BY <1>2, <1>3, <2>4, <2>5
<1>7. a = b
  BY <1>3, <1>4, <1>5, <1>6, SeqEqual
<1> QED BY <1>7 DEF a, b, h

(* recv_push is given the next package.                                    *)
LEMMA HandOver ==
  ASSUME Incoming, Len(handed) < Len(in_lens), in_lens' = in_lens,
         handed' = Append(handed, Package(Len(handed) + 1, in_lens[Len(handed) + 1]))
  PROVE  Handed' /\ Start' = Start + in_lens[Len(handed) + 1]
<1> DEFINE h == Len(handed)
           p == Package(h + 1, in_lens[h + 1])
<1>1. /\ h \in Nat /\ Len(in_lens) \in Nat /\ h + 1 \in 1 .. Len(in_lens)
      /\ \A k \in 1 .. Len(in_lens) : in_lens[k] \in Nat
      /\ End(Packages(in_lens), h + 1) = Start + in_lens[h + 1]
  BY StreamFacts, Sizes
<1>2. handed = [k \in 1 .. h |-> Package(k, in_lens[k])]
  BY DEF Incoming, Handed
<1>3. ASSUME NEW k \in 1 .. h
      PROVE  handed[k] = Package(k, in_lens[k]) /\ handed[k] \in Seq(Octet)
  <2>1. handed[k] = Package(k, in_lens[k])
    BY <1>2
  <2>2. k \in Nat /\ in_lens[k] \in Nat
    BY <1>1
  <2> QED BY <2>1, <2>2, PackageIs
<1>4. p \in Seq(Octet)
  <2>1. h + 1 \in Nat /\ in_lens[h + 1] \in Nat
    BY <1>1
  <2> HIDE DEF h
  <2> QED BY <2>1, PackageIs
<1> HIDE DEF p
<1>5. handed \in [1 .. h -> Seq(Octet)]
  BY <1>2, <1>3
<1>6. handed \in Seq(Seq(Octet))
  BY <1>1, <1>5, SeqDef
<1>7. handed' = Append(handed, p)
  BY DEF p
<1>8. /\ handed' \in Seq(Seq(Octet)) /\ Len(handed') = h + 1 /\ handed'[h + 1] = p
      /\ \A k \in 1 .. h : handed'[k] = handed[k]
  BY <1>4, <1>6, <1>7, AppendProperties
<1>9. handed' \in [1 .. h + 1 -> Seq(Octet)]
  BY <1>8, LenProperties
<1>10. \A k \in 1 .. h + 1 : handed'[k] = Package(k, in_lens[k])
  BY <1>1, <1>3, <1>8 DEF p
<1>11. handed' = [k \in 1 .. h + 1 |-> Package(k, in_lens[k])]
  BY <1>9, <1>10
<1> HIDE DEF h
<1>12. Handed'
  BY <1>1, <1>8, <1>11 DEF Handed
<1>13. Start' = End(Packages(in_lens), h + 1)
  BY <1>8 DEF Start
<1> QED BY <1>1, <1>12, <1>13 DEF h

(* What is left of the buffer is moved to its front.                       *)
LEMMA MoveKeeps ==
  ASSUME Incoming, state = "open", NEW p \in Nat, pos <= p, p <= Len(buf), Len(buf) - p < size,
         Move(buf, p), ~smeared', Handed', Start' = taken - Len(buf) + p,
         UNCHANGED <<in_lens, state, size, taken>>
  PROVE  Incoming'
<1>1. buf' = After(buf, p) /\ pos' = 0 /\ reading' = FALSE
  BY DEF Move
<1>2. /\ buf \in Seq(Octet) /\ pos \in Nat /\ Len(buf) <= taken /\ taken \in Nat /\ Len(buf) \in Nat
      /\ size \in Nat /\ Len(buf) <= size
      /\ \A i \in 1 .. Len(buf) : buf[i] = Bytes(in_lens)[taken - Len(buf) + i]
  BY LenProperties DEF Incoming, Cut
<1>3. /\ buf' \in Seq(Octet) /\ Len(buf') = Len(buf) - p
      /\ \A i \in 1 .. Len(buf) - p : buf'[i] = buf[p + i]
  <2>1. p \in 0 .. Len(buf)
    BY <1>2
  <2> QED BY <1>1, <1>2, <2>1, AfterIs
<1>4. ASSUME NEW i \in 1 .. Len(buf') PROVE buf'[i] = Bytes(in_lens)[taken - Len(buf') + i]
  <2>1. i \in 1 .. Len(buf) - p /\ p + i \in 1 .. Len(buf)
    BY <1>2, <1>3
  <2>2. taken - Len(buf) + (p + i) = taken - Len(buf') + i
    BY <1>2, <1>3, <2>1
  <2> QED BY <1>2, <1>3, <2>1, <2>2
<1>5. Len(buf') \in Nat /\ Len(buf') <= taken /\ taken - Len(buf') + 0 = Start'
  BY <1>2, <1>3
<1>6. Cut'
  BY <1>1, <1>2, <1>4, <1>5 DEF Cut
<1>7. Len(buf') <= size' /\ Len(buf') < size'
  BY <1>2, <1>3
<1>8. /\ in_lens' \in Seq(AnyLength)' /\ state' \in {"open", "closing", "shut", "error", "bad length"}
      /\ state' # "bad length" /\ size' \in Nat /\ FirstSize <= size' /\ size' <= Max({FirstSize, MaxLen})
      /\ taken' \in Nat /\ taken' <= Len(Bytes(in_lens))'
  <2> USE DEF Incoming
  <2> QED OBVIOUS
<1>9. buf' \in Seq(Octet)'
  BY <1>3 DEF Octet
<1> QED BY <1>1, <1>6, <1>7, <1>8, <1>9 DEF Incoming

(* One round of handle_input's loop.                                       *)
LEMMA ReadKeeps ==
  ASSUME Incoming, smeared \in BOOLEAN, Read, ~smeared'
  PROVE  Incoming'
<1> DEFINE h == Len(handed)
           n == Len(in_lens)
           rest == After(buf, pos)
<1>1. reading /\ state = "open" /\ UNCHANGED <<in_lens, taken>>
  BY DEF Read, Incoming
<1>2. PICK len \in PkgLens(rest) :
        IF len > MaxLen
        THEN state' = "bad length" /\ reading' = FALSE /\ UNCHANGED <<buf, size, pos, handed, smeared>>
        ELSE IF len = 0 /\ pos = 0 /\ Len(buf) = size
        THEN state' = "big head" /\ reading' = FALSE /\ UNCHANGED <<buf, size, pos, handed, smeared>>
        ELSE /\ UNCHANGED state
             /\ IF len = 0 \/ (~ Grows(len) /\ ~ Complete(len))
                THEN Move(buf, pos) /\ UNCHANGED <<size, handed>>
                ELSE IF Grows(len)
                THEN size' = len /\ reading' = FALSE /\ UNCHANGED <<buf, pos, handed, smeared>>
                ELSE /\ handed' = Append(handed, SubSeq(buf, pos + 1, pos + len))
                     /\ IF pos + len < Len(buf)
                        THEN pos' = pos + len /\ UNCHANGED <<buf, reading, smeared>>
                        ELSE Move(buf, pos + len)
                     /\ UNCHANGED size
  BY DEF Read
<1>3. /\ Len(rest) = Len(buf) - pos
      /\ Len(rest) < HeadLen => PkgLens(rest) = {0}
      /\ Len(rest) >= HeadLen => h < n /\ PkgLens(rest) = {in_lens[h + 1]}
  BY <1>1, HeadIsNext
<1>4. /\ pos \in Nat /\ pos <= Len(buf) /\ Len(buf) \in Nat /\ Len(buf) <= taken /\ taken \in Nat
      /\ taken - Len(buf) + pos = Start /\ size \in Nat /\ FirstSize <= size /\ Len(buf) <= size
  BY <1>1, LenProperties DEF Incoming, Cut
<1>5. HeadLen \in Nat \ {0} /\ FirstSize \in Nat \ {0} /\ HeadLen <= FirstSize /\ MaxLen \in Nat
  BY Sizes
<1>6. Handed /\ (h < n => in_lens[h + 1] \in AnyLength)
  BY StreamFacts, <1>4, <1>1 DEF Incoming
<1> HIDE DEF h, n, rest
<1>7. CASE len = 0
  <2>1. Len(rest) < HeadLen
    <3> SUFFICES ASSUME ~ (Len(rest) < HeadLen) PROVE FALSE
      OBVIOUS
    <3>1. Len(rest) >= HeadLen
      BY <1>3, <1>4, <1>5
    <3>2. len = in_lens[h + 1] /\ h < n
      BY <1>2, <1>3, <3>1
    <3>3. len >= HeadLen
      BY <1>6, <3>2, Sizes
    <3> QED BY <1>5, <1>7, <3>3
  <2>2. Len(buf) - pos < size
    BY <1>3, <1>4, <1>5, <2>1
  <2>3. ~ (len > MaxLen) /\ ~ (pos = 0 /\ Len(buf) = size)
    BY <1>4, <1>5, <1>7, <2>2
  <2>4. Move(buf, pos) /\ UNCHANGED <<size, handed, state>>
    BY <1>2, <1>7, <2>3
  <2>5. Handed' /\ Start' = taken - Len(buf) + pos
    BY <1>1, <1>4, <1>6, <2>4 DEF Handed, Start
  <2> QED BY <1>1, <1>4, <2>2, <2>4, <2>5, MoveKeeps
<1>8. CASE len # 0
  <2>1. h < n /\ len = in_lens[h + 1] /\ len \in Nat /\ HeadLen <= len /\ (len > MaxLen => len = TooLong)
    <3>1. Len(rest) >= HeadLen
      <4>1. len \in PkgLens(rest)
        BY <1>2
      <4>2. ~ (Len(rest) < HeadLen)
        BY <1>3, <1>8, <4>1
      <4> QED BY <1>3, <1>4, <1>5, <4>2
    <3>2. len = in_lens[h + 1] /\ h < n
      BY <1>2, <1>3, <3>1
    <3> QED BY <1>6, <3>2, Sizes
  <2>2. CASE len > MaxLen
    <3>1. state' = "bad length" /\ reading' = FALSE /\ UNCHANGED <<buf, size, pos, handed, smeared>>
      BY <1>2, <2>2
    <3>2. in_lens[h + 1] = TooLong
      BY <2>1, <2>2
    <3>3. in_lens'[Len(handed') + 1] = TooLong'
      BY <1>1, <3>1, <3>2 DEF h, TooLong
    <3>4. ~ Alive'
      BY <3>1 DEF Alive
    <3>5. Handed'
      BY <1>1, <1>6, <3>1 DEF Handed
    <3>6. Bytes(in_lens)' = Bytes(in_lens)
      BY <1>1
    <3> QED BY <1>1, <3>1, <3>3, <3>4, <3>5, <3>6 DEF Incoming
  <2>3. CASE ~ (len > MaxLen) /\ ~ Grows(len) /\ ~ Complete(len)
    <3>1. Move(buf, pos) /\ UNCHANGED <<size, handed, state>>
      BY <1>2, <1>8, <2>3
    <3>2. Len(buf) - pos < size
      <4>1. pos + len > Len(buf) /\ ~ (pos = 0 /\ len > size)
        BY <1>4, <2>1, <2>3 DEF Complete, Grows
      <4> QED BY <1>4, <2>1, <4>1
    <3>3. Handed' /\ Start' = taken - Len(buf) + pos
      BY <1>1, <1>4, <1>6, <3>1 DEF Handed, Start
    <3> QED BY <1>1, <1>4, <3>1, <3>2, <3>3, MoveKeeps
  <2>4. CASE ~ (len > MaxLen) /\ Grows(len)
    <3>1. size' = len /\ reading' = FALSE /\ UNCHANGED <<buf, pos, handed, smeared, state>>
      BY <1>2, <1>8, <2>4
    <3>2. pos = 0 /\ len > size /\ len <= MaxLen
      BY <1>5, <2>1, <2>4 DEF Grows
    <3>3. len <= Max({FirstSize, MaxLen})
      <4>1. Max({FirstSize, MaxLen}) \in Nat /\ MaxLen <= Max({FirstSize, MaxLen})
        BY <1>5, GreatestOfTwo
      <4> QED BY <1>5, <2>1, <3>2, <4>1
    <3>4. size' \in Nat /\ FirstSize <= size' /\ Len(buf') < size' /\ Len(buf') <= size'
      BY <1>4, <1>5, <2>1, <3>1, <3>2
    <3>5. Handed'
      BY <1>1, <1>6, <3>1 DEF Handed
    <3>6. Cut'
      <4>1. Cut /\ UNCHANGED <<pos, buf, taken, handed, in_lens>>
        BY <1>1, <3>1 DEF Incoming
      <4>2. Start' = Start /\ Bytes(in_lens)' = Bytes(in_lens)
        BY <4>1 DEF Start
      <4> QED BY <4>1, <4>2 DEF Cut
    <3>7. Bytes(in_lens)' = Bytes(in_lens) /\ pos' = 0
      BY <1>1, <3>1, <3>2
    <3>8. in_lens' \in Seq(AnyLength) /\ state' = "open" /\ taken' \in Nat /\ taken' <= Len(Bytes(in_lens))
          /\ buf' \in Seq(Octet)
      BY <1>1, <3>1 DEF Incoming
    <3> QED BY <3>1, <3>3, <3>4, <3>5, <3>6, <3>7, <3>8 DEF Incoming
  <2>5. CASE ~ (len > MaxLen) /\ ~ Grows(len) /\ Complete(len)
    <3>1. /\ handed' = Append(handed, SubSeq(buf, pos + 1, pos + len))
          /\ IF pos + len < Len(buf)
             THEN pos' = pos + len /\ UNCHANGED <<buf, reading, smeared>>
             ELSE Move(buf, pos + len)
          /\ UNCHANGED <<size, state>>
      BY <1>2, <1>8, <2>5
    <3>2. pos + len <= Len(buf)
      BY <2>5 DEF Complete
    <3>3. SubSeq(buf, pos + 1, pos + len) = Package(h + 1, in_lens[h + 1])
      BY <1>1, <2>1, <3>2, PackageIsNext DEF h, n
    <3>4. Handed' /\ Start' = Start + len
      BY <1>1, <2>1, <3>1, <3>3, HandOver DEF h, n
    <3>5. CASE pos + len < Len(buf)
      <4>1. pos' = pos + len /\ UNCHANGED <<buf, reading, smeared>>
        BY <3>1, <3>5
      <4>2. Cut'
        <5>1. Bytes(in_lens)' = Bytes(in_lens) /\ Cut
          BY <1>1 DEF Incoming
        <5>2. pos' = pos + len /\ buf' = buf /\ taken' = taken /\ Start' = Start + len
          BY <1>1, <3>4, <4>1
        <5>3. pos' \in Nat /\ pos' <= Len(buf') /\ taken' - Len(buf') + pos' = Start'
          <6>1. pos' \in Nat /\ pos' <= Len(buf')
            BY <1>4, <2>1, <3>5, <5>2
          <6>2. taken - Len(buf) + (pos + len) = Start + len
            BY <1>4, <2>1
          <6> QED BY <5>2, <6>1, <6>2
        <5>4. Len(buf) <= taken /\ \A i \in 1 .. Len(buf) : buf[i] = Bytes(in_lens)[taken - Len(buf) + i]
          BY <5>1 DEF Cut
        <5> QED BY <5>1, <5>2, <5>3, <5>4 DEF Cut
      <4>3. /\ in_lens' \in Seq(AnyLength) /\ state' = "open" /\ taken' \in Nat
            /\ taken' <= Len(Bytes(in_lens)) /\ buf' \in Seq(Octet) /\ reading' = TRUE
            /\ size' \in Nat /\ FirstSize <= size' /\ size' <= Max({FirstSize, MaxLen}) /\ Len(buf') <= size'
            /\ Bytes(in_lens)' = Bytes(in_lens)
        BY <1>1, <3>1, <4>1 DEF Incoming
      <4> QED BY <3>4, <4>2, <4>3 DEF Incoming
    <3>6. CASE ~ (pos + len < Len(buf))
      <4> DEFINE p == pos + len
      <4>1. Move(buf, p)
        BY <3>1, <3>6
      <4>2. p \in Nat /\ pos <= p /\ p <= Len(buf) /\ Len(buf) - p < size
        BY <1>4, <1>5, <2>1, <3>2, <3>6
      <4>3. Start' = taken - Len(buf) + p
        BY <1>4, <2>1, <3>4
      <4> HIDE DEF p
      <4> QED BY <1>1, <3>1, <3>4, <4>1, <4>2, <4>3, MoveKeeps
    <3> QED BY <3>5, <3>6
  <2> QED BY <2>2, <2>3, <2>4, <2>5
<1> QED BY <1>7, <1>8

(* One call of recv.                                                       *)
LEMMA RecvKeeps ==
  ASSUME Incoming, Recv
  PROVE  Incoming'
<1> DEFINE B == Bytes(in_lens)
<1>1. Alive /\ ~reading /\ pos' = 0 /\ UNCHANGED <<in_lens, size, handed>>
  BY DEF Recv
<1>2. /\ buf \in Seq(Octet) /\ Len(buf) \in Nat /\ size \in Nat /\ Len(buf) < size
      /\ taken \in Nat /\ taken <= Len(B) /\ Len(B) \in Nat /\ FirstSize <= size
  BY <1>1, StreamFacts, LenProperties DEF Incoming
<1>3. Room \in Nat /\ Room # 0 /\ Rest \in Nat
  BY <1>2 DEF Room, Rest
<1>4. PICK m \in 1 .. Min({Room, Rest}) :
        /\ taken' = taken + m
        /\ IF state = "closing" THEN buf' = <<>> /\ UNCHANGED reading
           ELSE /\ buf' = buf \o SubSeq(B, taken + 1, taken + m)
                /\ reading' = TRUE
        /\ UNCHANGED state
  BY <1>3 DEF Recv
<1>5. m \in Nat /\ m >= 1 /\ m <= Room /\ m <= Rest
  BY <1>3, <1>4, LeastOfTwo
<1>6. taken' \in Nat /\ taken' <= Len(B) /\ Len(buf) + m <= size
  BY <1>2, <1>4, <1>5 DEF Room, Rest
<1>7. B' = B /\ Start' = Start /\ Handed'
  BY <1>1 DEF Start, Incoming, Handed
<1>8. in_lens' \in Seq(AnyLength) /\ size' \in Nat /\ FirstSize <= size' /\ size' <= Max({FirstSize, MaxLen})
  BY <1>1 DEF Incoming
<1>9. CASE state = "closing"
  <2>1. buf' = <<>> /\ state' = "closing" /\ reading' = FALSE
    BY <1>1, <1>4, <1>9 DEF Incoming
  <2>2. buf' \in Seq(Octet) /\ Len(buf') = 0
    BY <2>1, EmptySeq
  <2>3. Len(buf') <= size' /\ Len(buf') < size'
    BY <1>1, <1>2, <2>2
  <2> QED BY <1>6, <1>7, <1>8, <2>1, <2>2, <2>3 DEF Incoming
<1>10. CASE state # "closing"
  <2>1. state = "open" /\ state' = "open" /\ reading' = TRUE
    BY <1>1, <1>4, <1>10 DEF Alive
  <2> DEFINE c == SubSeq(B, taken + 1, taken + m)
  <2>2. buf' = buf \o c
    BY <1>4, <1>10
  <2>3. /\ c \in Seq(Octet) /\ Len(c) = m
        /\ \A i \in 1 .. m : c[i] = B[taken + i]
    <3>1. \A i \in taken + 1 .. taken + m : i \in 1 .. Len(B)
      BY <1>2, <1>4, <1>5, <1>6
    <3>2. B \in Seq(Octet)
      BY StreamFacts
    <3>3. /\ \A i \in taken + 1 .. taken + m : B[i] \in Octet
          /\ taken + 1 \in Int /\ taken + m \in Int
      BY <1>2, <1>5, <3>1, <3>2, ElementOfSeq
    <3>4. /\ c \in Seq(Octet)
          /\ Len(c) = IF taken + 1 <= taken + m THEN (taken + m) - (taken + 1) + 1 ELSE 0
          /\ \A i \in 1 .. (taken + m) - (taken + 1) + 1 : c[i] = B[(taken + 1) + i - 1]
      BY <3>3, SubSeqProperties
    <3> HIDE DEF c, B
    <3>5. taken + 1 <= taken + m /\ (taken + m) - (taken + 1) + 1 = m
          /\ \A i \in 1 .. m : (taken + 1) + i - 1 = taken + i
      BY <1>2, <1>5
    <3>6. Len(c) = m
      BY <3>4, <3>5
    <3>7. \A i \in 1 .. m : c[i] = B[taken + i]
      BY <3>4, <3>5
    <3> QED BY <3>4, <3>6, <3>7
  <2> HIDE DEF c
  <2>4. /\ buf' \in Seq(Octet) /\ Len(buf') = Len(buf) + m
        /\ \A i \in 1 .. Len(buf) + m : buf'[i] = IF i <= Len(buf) THEN buf[i] ELSE c[i - Len(buf)]
    BY <1>2, <2>2, <2>3, ConcatProperties
  <2>5. /\ Len(buf) <= taken /\ pos = 0 /\ taken - Len(buf) + 0 = Start
        /\ \A i \in 1 .. Len(buf) : buf[i] = B[taken - Len(buf) + i]
    BY <1>1, <2>1 DEF Incoming, Cut
  <2> HIDE DEF B
  <2>6. ASSUME NEW i \in 1 .. Len(buf') PROVE buf'[i] = B[taken' - Len(buf') + i]
    <3>1. taken' - Len(buf') = taken - Len(buf) /\ taken - Len(buf) \in Nat
      BY <1>2, <1>4, <1>5, <2>4, <2>5
    <3>2. i \in 1 .. Len(buf) + m
      BY <2>4
    <3>3. CASE i <= Len(buf)
      <4>1. i \in 1 .. Len(buf)
        BY <1>2, <3>2, <3>3
      <4>2. buf'[i] = buf[i]
        BY <2>4, <3>2, <3>3
      <4> QED BY <2>5, <3>1, <4>1, <4>2
    <3>4. CASE ~ (i <= Len(buf))
      <4>1. i - Len(buf) \in 1 .. m /\ taken + (i - Len(buf)) = taken - Len(buf) + i
        BY <1>2, <1>5, <3>2, <3>4
      <4>2. buf'[i] = c[i - Len(buf)]
        BY <2>4, <3>2, <3>4
      <4> QED BY <2>3, <3>1, <4>1, <4>2
    <3> QED BY <3>3, <3>4
  <2>7. Len(buf') <= taken' /\ taken' - Len(buf') + 0 = Start' /\ 0 <= Len(buf') /\ Len(buf') <= size'
    BY <1>1, <1>2, <1>4, <1>5, <1>6, <1>7, <2>4, <2>5
  <2>8. Cut'
    BY <1>1, <1>7, <2>6, <2>7 DEF Cut, B
  <2> QED BY <1>6, <1>7, <1>8, <2>1, <2>4, <2>7, <2>8 DEF Incoming, B
<1> QED BY <1>9, <1>10

(* The steps that leave the receiving side alone.                          *)
LEMMA OthersKeep ==
  ASSUME Incoming, UNCHANGED <<in_lens, buf, size, pos, taken, handed>>,
         \/ UNCHANGED <<state, reading>>
         \/ Alive /\ state' = "error" /\ reading' = FALSE
         \/ Alive /\ ~reading /\ reading' = reading /\ state' \in {"shut", "closing"}
  PROVE  Incoming'
<1>1. Start' = Start /\ Bytes(in_lens)' = Bytes(in_lens) /\ Handed' /\ (Cut => Cut')
  BY DEF Start, Handed, Cut, Incoming
<1>2. /\ in_lens' \in Seq(AnyLength) /\ size' \in Nat /\ FirstSize <= size'
      /\ size' <= Max({FirstSize, MaxLen}) /\ taken' \in Nat /\ taken' <= Len(Bytes(in_lens)')
      /\ buf' \in Seq(Octet) /\ Len(buf') <= size'
  BY <1>1 DEF Incoming
<1>3. CASE UNCHANGED <<state, reading>>
  BY <1>1, <1>2, <1>3 DEF Incoming, Alive
<1>4. CASE Alive /\ state' = "error" /\ reading' = FALSE
  BY <1>1, <1>2, <1>4 DEF Incoming, Alive
<1>5. CASE Alive /\ ~reading /\ reading' = reading /\ state' \in {"shut", "closing"}
  <2>1. Len(buf') < size' /\ reading' = FALSE /\ state' \in {"shut", "closing"}
    BY <1>5 DEF Incoming
  <2> QED BY <1>1, <1>2, <2>1 DEF Incoming
<1> QED BY <1>3, <1>4, <1>5

-----------------------------------------------------------------------------
(* Cutting sequences, and numbers of buffers.                              *)

LEMMA CutAt ==
  ASSUME NEW S, NEW s \in Seq(S), NEW p \in 0 .. Len(s)
  PROVE  /\ SubSeq(s, 1, p) \in Seq(S) /\ Len(SubSeq(s, 1, p)) = p /\ After(s, p) \in Seq(S)
         /\ SubSeq(s, 1, p) \o After(s, p) = s
<1> DEFINE n == Len(s)
<1>1. n \in Nat /\ \A i \in 1 .. p : s[i] \in S
  BY LenProperties, ElementOfSeq
<1>2. SubSeq(s, 1, p) \in Seq(S) /\ Len(SubSeq(s, 1, p)) = IF 1 <= p THEN p - 1 + 1 ELSE 0
  BY <1>1, SubSeqProperties
<1>3. 1 \in 1 .. n + 1 /\ p \in 1 - 1 .. n /\ n \in p .. n
  BY <1>1
<1>4. SubSeq(s, 1, p) \o SubSeq(s, p + 1, n) = SubSeq(s, 1, n)
  BY <1>3, ConcatAdjacentSubSeq
<1>5. Len(SubSeq(s, 1, p)) = p
  BY <1>1, <1>2
<1>6. After(s, p) = SubSeq(s, p + 1, n) /\ After(s, p) \in Seq(S)
  BY AfterIs DEF After
<1> QED BY <1>2, <1>4, <1>5, <1>6, SubSeqFull

LEMMA AfterConcat ==
  ASSUME NEW S, NEW s \in Seq(S), NEW t \in Seq(S), NEW p \in 0 .. Len(s)
  PROVE  After(s \o t, p) = After(s, p) \o t
<1> DEFINE x == SubSeq(s, 1, p)
           y == After(s, p)
           u == s \o t
           v == SubSeq(u, 1, p)
           w == After(u, p)
<1>1. x \in Seq(S) /\ y \in Seq(S) /\ Len(x) = p /\ x \o y = s
  BY CutAt
<1>2. u \in Seq(S) /\ Len(u) = Len(s) + Len(t) /\ Len(s) \in Nat /\ Len(t) \in Nat
      /\ \A i \in 1 .. Len(s) + Len(t) : u[i] = IF i <= Len(s) THEN s[i] ELSE t[i - Len(s)]
  BY ConcatProperties, LenProperties
<1> HIDE DEF u
<1>3. p \in 0 .. Len(u)
  BY <1>2
<1>4. /\ w \in Seq(S) /\ Len(w) = Len(u) - p /\ \A i \in 1 .. Len(u) - p : w[i] = u[p + i]
  BY <1>2, <1>3, AfterIs
<1>5. /\ Len(y) = Len(s) - p /\ \A i \in 1 .. Len(s) - p : y[i] = s[p + i]
  BY AfterIs
<1> HIDE DEF x, y, v, w
<1>6. y \o t \in Seq(S) /\ Len(y \o t) = Len(y) + Len(t)
      /\ \A i \in 1 .. Len(y) + Len(t) : (y \o t)[i] = IF i <= Len(y) THEN y[i] ELSE t[i - Len(y)]
  BY <1>1, ConcatProperties
<1> DEFINE z == y \o t
<1> HIDE DEF z
<1>7. Len(w) = Len(z)
  BY <1>2, <1>4, <1>5, <1>6 DEF z
<1>8. ASSUME NEW i \in 1 .. Len(w) PROVE w[i] = z[i]
  <2>1. i \in Nat /\ 1 <= i /\ i <= Len(s) + Len(t) - p /\ p \in Nat /\ p <= Len(s)
    BY <1>2, <1>4
  <2>2. w[i] = u[p + i] /\ p + i \in 1 .. Len(s) + Len(t)
    BY <1>2, <1>4, <2>1
  <2>3. i \in 1 .. Len(y) + Len(t)
    BY <1>2, <1>5, <2>1
  <2>4. z[i] = IF i <= Len(y) THEN y[i] ELSE t[i - Len(y)]
    BY <1>6, <2>3 DEF z
  <2>5. CASE i <= Len(y)
    <3>1. i \in 1 .. Len(s) - p /\ p + i <= Len(s)
      BY <1>2, <1>5, <2>1, <2>5
    <3> QED BY <1>2, <1>5, <2>2, <2>4, <2>5, <3>1
  <2>6. CASE ~ (i <= Len(y))
    <3>1. ~ (p + i <= Len(s)) /\ p + i - Len(s) = i - Len(y)
      BY <1>2, <1>5, <2>1, <2>6
    <3>2. u[p + i] = t[p + i - Len(s)]
      BY <1>2, <2>2, <3>1, SMTT(30)
    <3> QED BY <2>2, <2>4, <2>6, <3>1, <3>2
  <2> QED BY <2>5, <2>6
<1>9. w = z
  BY <1>4, <1>6, <1>7, <1>8, SeqEqual DEF z
<1> QED BY <1>9 DEF w, z, u, y

LEMMA AfterFirst ==
  ASSUME NEW S, NEW s \in Seq(S), NEW t \in Seq(S), NEW p \in 0 .. Len(t)
  PROVE  After(s \o t, Len(s) + p) = After(t, p)
<1> DEFINE u == s \o t
           w == After(u, Len(s) + p)
           y == After(t, p)
<1>1. u \in Seq(S) /\ Len(u) = Len(s) + Len(t) /\ Len(s) \in Nat /\ Len(t) \in Nat
      /\ \A i \in 1 .. Len(s) + Len(t) : u[i] = IF i <= Len(s) THEN s[i] ELSE t[i - Len(s)]
  BY ConcatProperties, LenProperties
<1> HIDE DEF u
<1>2. Len(s) + p \in 0 .. Len(u)
  BY <1>1
<1>3. /\ w \in Seq(S) /\ Len(w) = Len(u) - (Len(s) + p)
      /\ \A i \in 1 .. Len(u) - (Len(s) + p) : w[i] = u[Len(s) + p + i]
  BY <1>1, <1>2, AfterIs
<1>4. y \in Seq(S) /\ Len(y) = Len(t) - p /\ \A i \in 1 .. Len(t) - p : y[i] = t[p + i]
  BY AfterIs
<1> HIDE DEF w, y
<1>5. Len(w) = Len(y)
  BY <1>1, <1>3, <1>4
<1>6. ASSUME NEW i \in 1 .. Len(w) PROVE w[i] = y[i]
  <2>1. i \in Nat /\ 1 <= i /\ i <= Len(t) - p /\ p \in Nat
    BY <1>1, <1>3
  <2>2. i \in 1 .. Len(u) - (Len(s) + p) /\ i \in 1 .. Len(t) - p
    BY <1>1, <2>1
  <2>3. /\ Len(s) + p + i \in 1 .. Len(s) + Len(t) /\ ~ (Len(s) + p + i <= Len(s))
        /\ Len(s) + p + i - Len(s) = p + i
    BY <1>1, <2>1
  <2>4. u[Len(s) + p + i] = t[p + i]
    BY <1>1, <2>3
  <2> QED BY <1>3, <1>4, <2>2, <2>4
<1>7. w = y
  BY <1>3, <1>4, <1>5, <1>6, SeqEqual
<1> QED BY <1>7 DEF w, y, u

LEMMA Times ==
  ASSUME NEW a \in Nat, NEW b \in Nat, NEW c \in Nat, a <= b
  PROVE  a * c \in Nat /\ b * c \in Nat /\ a * c <= b * c
<1>1. PICK d \in Nat : b = a + d
  <2>1. b - a \in Nat /\ b = a + (b - a)
    OBVIOUS
  <2> QED BY <2>1
<1>2. b * c = a * c + d * c /\ d * c \in Nat /\ a * c \in Nat
  BY <1>1
<1> QED BY <1>2

LEMMA Quotient ==
  ASSUME NEW a \in Nat, NEW c \in Nat \ {0}
  PROVE  a \div c \in Nat /\ (a \div c) * c <= a /\ a < (a \div c + 1) * c
OBVIOUS

(* How many buffers x bytes take.                                          *)
Count(x) == (x + BufLen - 1) \div BufLen

LEMMA CountIs ==
  ASSUME NEW x \in Nat
  PROVE  /\ Count(x) \in Nat /\ x <= Count(x) * BufLen
         /\ \A b \in 1 .. Count(x) : (b - 1) * BufLen \in Nat /\ (b - 1) * BufLen < x
         /\ x <= MaxLen => Count(x) <= 1 + (MaxLen - 1) \div BufLen
<1> DEFINE n == Count(x)
           q == (MaxLen - 1) \div BufLen
<1>1. BufLen \in Nat \ {0} /\ MaxLen \in Nat \ {0}
  BY Sizes
<1>2. n \in Nat /\ n * BufLen <= x + BufLen - 1 /\ x + BufLen - 1 < (n + 1) * BufLen
  BY <1>1, Quotient DEF Count
<1>3. q \in Nat /\ MaxLen - 1 < (q + 1) * BufLen
  BY <1>1, Quotient
<1> HIDE DEF n, q
<1>4. n * BufLen \in Nat /\ (n + 1) * BufLen = n * BufLen + BufLen
  BY <1>1, <1>2
<1>5. x <= n * BufLen
  BY <1>1, <1>2, <1>4
<1>6. ASSUME NEW b \in 1 .. n PROVE (b - 1) * BufLen \in Nat /\ (b - 1) * BufLen < x
  <2>1. b - 1 \in Nat /\ b \in Nat /\ b <= n
    BY <1>2
  <2>2. b * BufLen <= n * BufLen /\ b * BufLen \in Nat
    BY <1>1, <1>2, <2>1, Times
  <2>3. (b - 1) * BufLen = b * BufLen - BufLen /\ (b - 1) * BufLen \in Nat
    BY <1>1, <2>1
  <2> QED BY <1>1, <1>2, <1>4, <2>2, <2>3
<1>7. ASSUME x <= MaxLen PROVE n <= 1 + q
  <2> SUFFICES ASSUME q + 2 <= n PROVE FALSE
    BY <1>2, <1>3
  <2>1. (q + 2) * BufLen <= n * BufLen
    BY <1>1, <1>2, <1>3, Times
  <2>2. (q + 2) * BufLen = (q + 1) * BufLen + BufLen /\ (q + 1) * BufLen \in Nat
    BY <1>1, <1>3
  <2> QED BY <1>1, <1>2, <1>3, <1>4, <1>7, <2>1, <2>2
<1> QED BY <1>2, <1>5, <1>6, <1>7 DEF n, q

(* A package's bytes are cut into buffers and joined they are the bytes.   *)
Sound(list) == \A b \in 1 .. Len(list) : Len(list[b]) \in 1 .. BufLen

LEMMA BuffersAre ==
  ASSUME NEW S, NEW bytes \in Seq(S)
  PROVE  LET L == Buffers(bytes)
         IN  /\ L \in Seq(Seq(S)) /\ Len(L) = Count(Len(bytes)) /\ Sound(L)
             /\ FlattenSeq(L) = bytes /\ (bytes # <<>> <=> L # <<>>)
<1> DEFINE L == Buffers(bytes)
           len == Len(bytes)
           n == Count(len)
           e(k) == Min({k * BufLen, len})
<1>1. len \in Nat /\ BufLen \in Nat \ {0}
  BY LenProperties, Sizes
<1>2. /\ n \in Nat /\ len <= n * BufLen
      /\ \A b \in 1 .. n : (b - 1) * BufLen \in Nat /\ (b - 1) * BufLen < len
  BY <1>1, CountIs
<1>3. ASSUME NEW k \in 0 .. n
      PROVE  /\ k * BufLen \in Nat /\ e(k) \in Nat /\ e(k) <= len
             /\ e(k) = IF k * BufLen <= len THEN k * BufLen ELSE len
  <2>1. k * BufLen \in Nat
    BY <1>1, <1>2
  <2> DEFINE x == k * BufLen
  <2>2. x \in Nat
    BY <2>1
  <2> HIDE DEF x, len
  <2>3. Min({x, len}) \in Nat /\ Min({x, len}) <= len /\ Min({x, len}) = IF x <= len THEN x ELSE len
    BY <1>1, <2>2, LeastOfTwo
  <2> QED BY <2>1, <2>3 DEF x
<1>4. L = [b \in 1 .. n |-> SubSeq(bytes, (b - 1) * BufLen + 1, e(b))]
  BY DEF Buffers, Count
<1> HIDE DEF L, e, n
<1>5. ASSUME NEW b \in 1 .. n
      PROVE  /\ L[b] \in Seq(S) /\ Len(L[b]) \in 1 .. BufLen
             /\ L[b] = SubSeq(bytes, e(b - 1) + 1, e(b))
             /\ e(b - 1) <= e(b) /\ e(b - 1) \in Nat /\ e(b) \in Nat /\ e(b) <= len
  <2>1. b \in 0 .. n /\ b - 1 \in 0 .. n
    BY <1>2
  <2>2. /\ (b - 1) * BufLen \in Nat /\ (b - 1) * BufLen < len /\ e(b - 1) = (b - 1) * BufLen
        /\ b * BufLen = (b - 1) * BufLen + BufLen
    <3>1. (b - 1) * BufLen \in Nat /\ (b - 1) * BufLen < len
      BY <1>2
    <3>2. e(b - 1) = (b - 1) * BufLen
      BY <1>1, <1>3, <2>1, <3>1
    <3>3. b * BufLen = (b - 1) * BufLen + BufLen
      BY <1>1, <2>1
    <3> QED BY <3>1, <3>2, <3>3
  <2>3. e(b) = (IF b * BufLen <= len THEN b * BufLen ELSE len) /\ e(b) \in Nat /\ e(b) <= len
    BY <1>3, <2>1
  <2> DEFINE lo == (b - 1) * BufLen
  <2>4. lo \in Nat /\ lo < len /\ e(b - 1) = lo /\ b * BufLen = lo + BufLen
    BY <2>2
  <2>5. L[b] = SubSeq(bytes, lo + 1, e(b))
    BY <1>4
  <2> HIDE DEF lo
  <2>6. lo < e(b) /\ e(b) - lo <= BufLen
    BY <1>1, <2>3, <2>4
  <2>7. \A i \in lo + 1 .. e(b) : bytes[i] \in S
    <3>1. \A i \in lo + 1 .. e(b) : i \in 1 .. Len(bytes)
      BY <1>1, <2>3, <2>4
    <3> QED BY <3>1, ElementOfSeq
  <2>8. /\ SubSeq(bytes, lo + 1, e(b)) \in Seq(S)
        /\ Len(SubSeq(bytes, lo + 1, e(b))) = IF lo + 1 <= e(b) THEN e(b) - (lo + 1) + 1 ELSE 0
    BY <2>3, <2>4, <2>7, SubSeqProperties
  <2>9. Len(L[b]) \in 1 .. BufLen
    BY <1>1, <2>3, <2>4, <2>5, <2>6, <2>8
  <2>10. e(b - 1) <= e(b) /\ e(b - 1) \in Nat
    BY <2>3, <2>4, <2>6
  <2>11. L[b] = SubSeq(bytes, e(b - 1) + 1, e(b)) /\ L[b] \in Seq(S)
    BY <2>4, <2>5, <2>8
  <2> QED BY <2>3, <2>9, <2>10, <2>11
<1>6. L \in [1 .. n -> Seq(S)]
  BY <1>4, <1>5
<1>7. L \in Seq(Seq(S)) /\ Len(L) = n
  BY <1>2, <1>6, SeqDef, LenProperties
<1> DEFINE T == {k \in 0 .. n : FlattenSeq(SubSeq(L, 1, k)) = SubSeq(bytes, 1, e(k))}
<1>8. 0 \in T
  <2>1. e(0) = 0
    BY <1>1, <1>2, <1>3
  <2>2. SubSeq(L, 1, 0) = <<>> /\ SubSeq(bytes, 1, 0) = <<>>
    BY SubSeqEmpty
  <2>3. FlattenSeq(SubSeq(L, 1, 0)) = SubSeq(bytes, 1, e(0))
    BY <2>1, <2>2, FlattenNone
  <2> QED BY <1>2, <2>3
<1>9. ASSUME NEW k \in 0 .. n - 1, k \in T PROVE k + 1 \in T
  <2>1. k + 1 \in 1 .. n /\ (k + 1) - 1 = k /\ k \in 0 .. Len(L) - 1
    BY <1>2, <1>7
  <2>2. /\ L[k + 1] \in Seq(S) /\ L[k + 1] = SubSeq(bytes, e(k) + 1, e(k + 1))
        /\ e(k) <= e(k + 1) /\ e(k) \in Nat /\ e(k + 1) \in Nat /\ e(k + 1) <= len
    BY <1>5, <2>1
  <2>3. /\ SubSeq(L, 1, k) \in Seq(Seq(S))
        /\ SubSeq(L, 1, k + 1) = Append(SubSeq(L, 1, k), L[k + 1])
    BY <1>7, <2>1, Shorter
  <2>4. FlattenSeq(SubSeq(L, 1, k + 1)) = SubSeq(bytes, 1, e(k)) \o SubSeq(bytes, e(k) + 1, e(k + 1))
    <3>1. FlattenSeq(SubSeq(L, 1, k + 1)) = FlattenSeq(SubSeq(L, 1, k)) \o L[k + 1]
      BY <2>2, <2>3, FlattenAppend
    <3> QED BY <1>9, <2>2, <3>1
  <2>5. 1 \in 1 .. len + 1 /\ e(k) \in 1 - 1 .. len /\ e(k + 1) \in e(k) .. len
    BY <1>1, <2>2
  <2>6. SubSeq(bytes, 1, e(k)) \o SubSeq(bytes, e(k) + 1, e(k + 1)) = SubSeq(bytes, 1, e(k + 1))
    BY <2>5, ConcatAdjacentSubSeq
  <2>7. FlattenSeq(SubSeq(L, 1, k + 1)) = SubSeq(bytes, 1, e(k + 1))
    BY <2>4, <2>6
  <2> QED BY <1>2, <2>1, <2>7
<1> HIDE DEF T
<1>10. \A k \in 0 .. n : k \in T
  BY <1>2, <1>8, <1>9, UpTo
<1>11. FlattenSeq(L) = bytes
  <2>1. e(n) = len
    BY <1>1, <1>2, <1>3
  <2>2. FlattenSeq(SubSeq(L, 1, n)) = SubSeq(bytes, 1, len)
    BY <1>2, <1>10, <2>1 DEF T
  <2> QED BY <1>7, <2>2, SubSeqFull
<1>12. Sound(L)
  BY <1>5, <1>7 DEF Sound
<1>13. bytes # <<>> <=> L # <<>>
  <2>1. CASE bytes = <<>>
    <3>1. len = 0 /\ n = 0
      <4>1. len = 0
        BY <2>1, EmptySeq
      <4>2. n # 0 => 1 \in 1 .. n
        BY <1>2
      <4> QED BY <1>2, <4>1, <4>2
    <3> QED BY <1>7, <2>1, <3>1, EmptySeq
  <2>2. CASE bytes # <<>>
    BY <1>11, <2>2, FlattenNone
  <2> QED BY <2>1, <2>2
<1> QED BY <1>7, <1>11, <1>12, <1>13 DEF L, n

LEMMA ReplaceLast ==
  ASSUME NEW R, NEW s \in Seq(R), s # <<>>, NEW e \in R
  PROVE  LET n == Len(s)
             a == SubSeq(s, 1, n - 1)
             t == [s EXCEPT ![n] = e]
         IN  /\ n \in Nat \ {0} /\ s[n] \in R /\ a \in Seq(R) /\ t \in Seq(R) /\ Len(t) = n
             /\ s = Append(a, s[n]) /\ t = Append(a, e)
             /\ \A b \in 1 .. n : t[b] = IF b = n THEN e ELSE s[b]
<1> DEFINE n == Len(s)
           a == SubSeq(s, 1, n - 1)
           t == [s EXCEPT ![n] = e]
           u == Append(a, e)
<1>1. n \in Nat \ {0} /\ n \in 1 .. n /\ n - 1 \in 0 .. n - 1 /\ (n - 1) + 1 = n
  BY EmptySeq
<1>2. s[n] \in R /\ \A i \in 1 .. n - 1 : s[i] \in R
  BY <1>1, ElementOfSeq
<1>3. t \in Seq(R) /\ Len(t) = n /\ \A b \in 1 .. n : t[b] = IF b = n THEN e ELSE s[b]
  BY <1>1, ExceptSeq
<1>4. a \in Seq(R) /\ Len(a) = n - 1 /\ SubSeq(s, 1, n) = Append(a, s[n])
  BY <1>1, Shorter
<1>5. s = Append(a, s[n])
  BY <1>4, SubSeqFull
<1>6. \A i \in 1 .. n - 1 : a[i] = s[i]
  <2>1. \A i \in 1 .. n - 1 - 1 + 1 : a[i] = s[1 + i - 1]
    BY <1>1, <1>2, SubSeqProperties
  <2>2. n - 1 - 1 + 1 = n - 1 /\ \A i \in 1 .. n - 1 : 1 + i - 1 = i
    BY <1>1
  <2> HIDE DEF a
  <2> QED BY <2>1, <2>2
<1> HIDE DEF a, t, n
<1>7. u \in Seq(R) /\ Len(u) = Len(a) + 1 /\ u[Len(a) + 1] = e /\ \A i \in 1 .. Len(a) : u[i] = a[i]
  BY <1>4, AppendProperties
<1> HIDE DEF u
<1>8. Len(u) = Len(t)
  BY <1>1, <1>3, <1>4, <1>7
<1>9. ASSUME NEW i \in 1 .. n PROVE t[i] = u[i]
  <2>1. CASE i = n
    <3>1. i = Len(a) + 1
      BY <1>1, <1>4, <2>1
    <3> QED BY <1>3, <1>7, <2>1, <3>1
  <2>2. CASE i # n
    <3>1. i \in 1 .. n - 1 /\ i \in 1 .. Len(a)
      BY <1>1, <1>4, <2>2
    <3> QED BY <1>3, <1>6, <1>7, <2>2, <3>1
  <2> QED BY <2>1, <2>2
<1>10. t = u
  BY <1>3, <1>7, <1>8, <1>9, SeqEqual
<1> QED BY <1>1, <1>2, <1>3, <1>4, <1>5, <1>10 DEF u, a, t, n

LEMMA TopUp ==
  ASSUME NEW S, NEW s \in Seq(Seq(S)), s # <<>>, NEW x \in Seq(S)
  PROVE  LET t == [s EXCEPT ![Len(s)] = s[Len(s)] \o x]
         IN  /\ t \in Seq(Seq(S)) /\ Len(t) = Len(s) /\ Len(s) \in Nat \ {0}
             /\ \A b \in 1 .. Len(s) : t[b] = IF b = Len(s) THEN s[b] \o x ELSE s[b]
             /\ FlattenSeq(t) = FlattenSeq(s) \o x
<1> DEFINE n == Len(s)
           l == s[n]
           e == l \o x
           t == [s EXCEPT ![n] = e]
           a == SubSeq(s, 1, n - 1)
           f == FlattenSeq(a)
<1>1. l \in Seq(S)
  <2>1. n \in 1 .. Len(s)
    BY EmptySeq
  <2> QED BY <2>1, ElementOfSeq
<1>2. e \in Seq(S)
  BY <1>1, ConcatProperties
<1>3. /\ n \in Nat \ {0} /\ a \in Seq(Seq(S)) /\ t \in Seq(Seq(S)) /\ Len(t) = n
      /\ s = Append(a, l) /\ t = Append(a, e)
      /\ \A b \in 1 .. n : t[b] = IF b = n THEN e ELSE s[b]
  <2> HIDE DEF e
  <2> QED BY <1>2, ReplaceLast
<1>4. ASSUME NEW b \in 1 .. n PROVE t[b] = IF b = n THEN s[b] \o x ELSE s[b]
  <2>1. t[b] = (IF b = n THEN e ELSE s[b]) /\ (b = n => e = s[b] \o x)
    BY <1>3
  <2> HIDE DEF t, e
  <2> QED BY <2>1
<1>5. f \in Seq(S) /\ FlattenSeq(t) = f \o e /\ FlattenSeq(s) = f \o l
  <2> HIDE DEF a, e, l, t
  <2> QED BY <1>1, <1>2, <1>3, FlattenAppend
<1>6. f \o e = (f \o l) \o x
  <2> HIDE DEF f, l
  <2>1. f \in Seq(S) /\ l \in Seq(S)
    BY <1>1, <1>5
  <2>2. (f \o l) \o x = f \o (l \o x)
    BY <2>1, ConcatAssociative, SMTT(30)
  <2> QED BY <2>2
<1>7. FlattenSeq(t) = FlattenSeq(s) \o x
  BY <1>5, <1>6
<1> QED BY <1>3, <1>4, <1>7

(* Appending to a list fills its last buffer first, and the bytes joined are *)
(* those of the list and the new ones.                                     *)
LEMMA AppendedAre ==
  ASSUME m_send_list \in Seq(Seq(Octet)), m_send_list # <<>>, Sound(m_send_list),
         NEW bytes \in Seq(Octet)
  PROVE  LET L == Appended(bytes)
         IN  /\ L \in Seq(Seq(Octet)) /\ L # <<>> /\ Sound(L)
             /\ \E x \in 0 .. Len(bytes) : Len(L) = Len(m_send_list) + Count(x)
             /\ Len(L[1]) >= Len(m_send_list[1])
             /\ FlattenSeq(L) = Listed \o bytes
<1> DEFINE s == m_send_list
           m == Len(s)
           room == BufLen - Len(s[m])
           n == Min({room, Len(bytes)})
           x == SubSeq(bytes, 1, n)
           y == After(bytes, n)
           t == [s EXCEPT ![m] = s[m] \o x]
           B == Buffers(y)
<1>1. m \in Nat \ {0} /\ m \in 1 .. m /\ 1 \in 1 .. m
  BY EmptySeq
<1>2. s[m] \in Seq(Octet) /\ Len(s[m]) \in 1 .. BufLen /\ BufLen \in Nat \ {0} /\ Len(bytes) \in Nat
  BY <1>1, ElementOfSeq, LenProperties, Sizes DEF Sound
<1>3. room \in Nat
  BY <1>2
<1>4. n \in Nat /\ n <= room /\ n <= Len(bytes)
  <2> HIDE DEF room
  <2> QED BY <1>2, <1>3, LeastOfTwo
<1>5. Appended(bytes) = t \o B
  BY DEF Appended, Last
<1> HIDE DEF n
<1>6. x \in Seq(Octet) /\ Len(x) = n /\ y \in Seq(Octet) /\ x \o y = bytes /\ Len(y) = Len(bytes) - n
  <2>1. n \in 0 .. Len(bytes)
    BY <1>2, <1>4
  <2>2. x \in Seq(Octet) /\ Len(x) = n /\ y \in Seq(Octet) /\ x \o y = bytes
    BY <2>1, CutAt
  <2> QED BY <2>1, <2>2, AfterIs
<1>7. B \in Seq(Seq(Octet)) /\ Len(B) = Count(Len(y)) /\ Sound(B) /\ FlattenSeq(B) = y
  BY <1>6, BuffersAre
<1> HIDE DEF x, y, B
<1>8. /\ t \in Seq(Seq(Octet)) /\ Len(t) = m
      /\ \A b \in 1 .. m : t[b] = IF b = m THEN s[b] \o x ELSE s[b]
      /\ FlattenSeq(t) = FlattenSeq(s) \o x
  <2>1. s \in Seq(Seq(Octet)) /\ s # <<>>
    OBVIOUS
  <2> HIDE DEF s
  <2>2. LET z == [s EXCEPT ![Len(s)] = s[Len(s)] \o x]
        IN  /\ z \in Seq(Seq(Octet)) /\ Len(z) = Len(s) /\ Len(s) \in Nat \ {0}
            /\ \A b \in 1 .. Len(s) : z[b] = IF b = Len(s) THEN s[b] \o x ELSE s[b]
            /\ FlattenSeq(z) = FlattenSeq(s) \o x
    <3>1. x \in Seq(Octet)
      BY <1>6
    <3> QED BY <2>1, <3>1, TopUp
  <2> QED BY <2>2
<1> HIDE DEF t
<1> DEFINE L == t \o B
<1>9. /\ L \in Seq(Seq(Octet)) /\ Len(L) = m + Len(B) /\ Len(B) \in Nat
      /\ \A i \in 1 .. m + Len(B) : L[i] = IF i <= m THEN t[i] ELSE B[i - m]
  <2>1. Len(B) \in Nat
    BY <1>7, LenProperties
  <2>2. /\ t \o B \in Seq(Seq(Octet)) /\ Len(t \o B) = Len(t) + Len(B)
        /\ \A i \in 1 .. Len(t) + Len(B) : (t \o B)[i] = IF i <= Len(t) THEN t[i] ELSE B[i - Len(t)]
    BY <1>7, <1>8, ConcatProperties
  <2> QED BY <1>8, <2>1, <2>2
<1>10. FlattenSeq(L) = FlattenSeq(s) \o bytes
  <2> DEFINE f == FlattenSeq(s)
  <2>1. FlattenSeq(L) = FlattenSeq(t) \o y
    BY <1>7, <1>8, FlattenConcat
  <2>2. f \in Seq(Octet)
    BY FlattenInSeq
  <2> HIDE DEF f
  <2>3. (f \o x) \o y = f \o (x \o y)
    <3>1. x \in Seq(Octet) /\ y \in Seq(Octet)
      BY <1>6
    <3> QED BY <2>2, <3>1, ConcatAssociative, SMTT(30)
  <2> QED BY <1>6, <1>8, <2>1, <2>3 DEF f
<1> HIDE DEF L
<1>11. ASSUME NEW b \in 1 .. m
       PROVE  Len(t[b]) \in 1 .. BufLen /\ Len(t[b]) >= Len(s[b])
  <2>1. s[b] \in Seq(Octet) /\ Len(s[b]) \in 1 .. BufLen
    BY ElementOfSeq DEF Sound
  <2>2. Len(s[b] \o x) = Len(s[b]) + n
    BY <1>6, <2>1, ConcatProperties
  <2>3. CASE b = m
    <3>1. t[b] = s[b] \o x /\ n <= BufLen - Len(s[b]) /\ n \in Nat
      BY <1>4, <1>8, <2>3
    <3> QED BY <1>2, <2>1, <2>2, <3>1
  <2>4. CASE b # m
    BY <1>2, <1>8, <2>1, <2>4
  <2> QED BY <2>3, <2>4
<1>12. Sound(L)
  <2> SUFFICES ASSUME NEW b \in 1 .. Len(L) PROVE Len(L[b]) \in 1 .. BufLen
    BY DEF Sound
  <2>1. b \in 1 .. m + Len(B)
    BY <1>9
  <2>2. CASE b <= m
    <3>1. b \in 1 .. m /\ L[b] = t[b]
      BY <1>1, <1>9, <2>1, <2>2
    <3> QED BY <1>11, <3>1
  <2>3. CASE ~ (b <= m)
    <3>1. b - m \in 1 .. Len(B) /\ L[b] = B[b - m]
      BY <1>1, <1>9, <2>1, <2>3
    <3> QED BY <1>7, <3>1 DEF Sound
  <2> QED BY <2>2, <2>3
<1>13. Len(L[1]) >= Len(s[1])
  <2>1. 1 \in 1 .. m + Len(B) /\ 1 <= m
    BY <1>1, <1>9
  <2>2. L[1] = t[1]
    BY <1>9, <2>1
  <2> QED BY <1>1, <1>11, <2>2
<1>14. \E z \in 0 .. Len(bytes) : Len(L) = m + Count(z)
  <2>1. Len(y) \in 0 .. Len(bytes)
    BY <1>2, <1>4, <1>6
  <2> QED BY <1>7, <1>9, <2>1
<1>15. L # <<>>
  BY <1>1, <1>9, EmptySeq
<1> QED BY <1>5, <1>9, <1>10, <1>12, <1>13, <1>14, <1>15 DEF L, Listed

(* After n bytes of the list, the buffers that are done are the first      *)
(* Whole(n), and the byte that follows is in the next one.                 *)
LEMMA WholeIs ==
  ASSUME m_send_list \in Seq(Seq(Octet)), Sound(m_send_list), NEW n \in Nat
  PROVE  LET w == Whole(n)
         IN  /\ w \in 0 .. Len(m_send_list) /\ End(m_send_list, w) <= n
             /\ w < Len(m_send_list) => n < End(m_send_list, w + 1)
<1> DEFINE L == m_send_list
           m == Len(L)
           E(k) == End(L, k)
<1>1. m \in Nat /\ DOMAIN L = 1 .. m
  BY LenProperties
<1>2. E(0) = 0 /\ \A k \in 0 .. m : E(k) \in Nat
  BY FlattenEnds
<1>3. ASSUME NEW k \in 0 .. m - 1 PROVE E(k) < E(k + 1)
  <2>1. k + 1 \in 1 .. m /\ (k + 1) - 1 = k /\ k \in 0 .. m /\ k + 1 \in 0 .. m
    BY <1>1
  <2>2. End(L, k + 1) = End(L, (k + 1) - 1) + Len(L[k + 1])
    BY <2>1, FlattenEnds
  <2>3. Len(L[k + 1]) \in 1 .. BufLen
    BY <2>1 DEF Sound
  <2> QED BY <1>2, <2>1, <2>2, <2>3
<1> DEFINE T == {k \in 0 .. m : \A j \in 0 .. k : E(j) <= E(k)}
<1>4. Whole(n) = Cardinality({b \in 1 .. m : E(b) <= n})
  BY <1>1 DEF Whole, End
<1> HIDE DEF L, m, E
<1>5. 0 \in T
  BY <1>1, <1>2
<1>6. ASSUME NEW k \in 0 .. m - 1, k \in T PROVE k + 1 \in T
  <2>1. k + 1 \in 0 .. m /\ k \in 0 .. m /\ k \in Nat
    BY <1>1
  <2>2. E(k) < E(k + 1) /\ E(k) \in Nat /\ E(k + 1) \in Nat
    BY <1>2, <1>3, <2>1
  <2>3. ASSUME NEW j \in 0 .. k + 1 PROVE E(j) <= E(k + 1)
    <3>1. CASE j = k + 1
      BY <2>2, <3>1
    <3>2. CASE j # k + 1
      <4>1. j \in 0 .. k /\ j \in 0 .. m
        BY <1>1, <2>1, <3>2
      <4>2. E(j) <= E(k) /\ E(j) \in Nat
        BY <1>2, <1>6, <4>1
      <4> QED BY <2>2, <4>2
    <3> QED BY <3>1, <3>2
  <2> QED BY <2>1, <2>3
<1> HIDE DEF T
<1>7. \A k \in 0 .. m : k \in T
  BY <1>1, <1>5, <1>6, UpTo
<1>8. \A k \in 0 .. m : \A j \in 0 .. k : E(j) <= E(k)
  BY <1>7 DEF T
<1>9. PICK w \in 0 .. m : E(w) <= n /\ (w < m => n < E(w + 1))
  <2> DEFINE Above == {k \in 0 .. m : n < E(k)}
  <2>1. CASE Above = {}
    <3>1. m \in 0 .. m /\ ~ (n < E(m))
      BY <1>1, <2>1
    <3>2. E(m) <= n
      BY <1>2, <3>1
    <3> QED BY <1>1, <3>1, <3>2
  <2>2. CASE Above # {}
    <3>1. Above \subseteq Nat
      OBVIOUS
    <3> HIDE DEF Above
    <3>2. PICK a \in Above : \A k \in Above : a <= k
      BY <2>2, <3>1, Lowest
    <3>3. a \in 0 .. m /\ n < E(a) /\ a # 0
      BY <1>2, <3>2 DEF Above
    <3>4. a - 1 \in 0 .. m /\ (a - 1) + 1 = a /\ a - 1 \notin Above
      BY <1>1, <3>1, <3>2, <3>3
    <3>5. E(a - 1) <= n
      BY <1>2, <3>4 DEF Above
    <3> QED BY <3>3, <3>4, <3>5
  <2> QED BY <2>1, <2>2
<1>10. {b \in 1 .. m : E(b) <= n} = 1 .. w
  <2>1. ASSUME NEW b \in 1 .. m PROVE E(b) <= n <=> b \in 1 .. w
    <3>1. b \in 0 .. m /\ w \in 0 .. m /\ b \in Nat /\ w \in Nat
      BY <1>1
    <3>2. CASE b <= w
      <4>1. b \in 0 .. w /\ b \in 1 .. w
        BY <3>1, <3>2
      <4>2. E(b) <= E(w) /\ E(b) \in Nat /\ E(w) \in Nat
        BY <1>2, <1>8, <3>1, <4>1
      <4> QED BY <1>9, <4>1, <4>2
    <3>3. CASE ~ (b <= w)
      <4>1. w < m /\ w + 1 \in 0 .. b /\ w + 1 \in 0 .. m
        BY <1>1, <3>1, <3>3
      <4>2. E(w + 1) <= E(b) /\ E(w + 1) \in Nat /\ E(b) \in Nat /\ n < E(w + 1)
        BY <1>2, <1>8, <1>9, <3>1, <4>1
      <4> QED BY <3>3, <4>2
    <3> QED BY <3>2, <3>3
  <2>2. \A b \in 1 .. w : b \in 1 .. m
    BY <1>1
  <2> QED BY <2>1, <2>2
<1>11. Cardinality(1 .. w) = w
  <2>1. w \in Nat
    OBVIOUS
  <2>2. Cardinality(1 .. w) = IF 1 > w THEN 0 ELSE w - 1 + 1
    BY <2>1, FS_Interval
  <2> QED BY <2>1, <2>2
<1>12. Whole(n) = w
  BY <1>4, <1>10, <1>11
<1> QED BY <1>9, <1>12 DEF L, m, E

-----------------------------------------------------------------------------
(* The bytes the client is sent.                                           *)

Positioned(list, p) ==
  /\ p \in Nat
  /\ list = <<>> => p = 0
  /\ list # <<>> => p < Len(list[1])

Bound == ListSize + (MaxLen - 1) \div BufLen

Outgoing ==
  /\ out_lens \in Seq(Lengths) /\ tried \in Nat /\ tried <= Len(out_lens)
  /\ queued \in Seq(1 .. Len(out_lens)) /\ wire \in Seq(Octet)
  /\ m_send_list \in Seq(Seq(Octet)) /\ Sound(m_send_list) /\ Len(m_send_list) <= Bound
  /\ Positioned(m_send_list, m_send_pos)
  /\ wire \o Pending = QueuedBytes
  /\ state = "shut" => m_send_list = <<>>

Queue(q, lens) == [i \in DOMAIN q |-> Package(q[i], lens[q[i]])]

LEMMA QueueIs ==
  ASSUME NEW lens \in Seq(Lengths), NEW q \in Seq(1 .. Len(lens))
  PROVE  /\ Queue(q, lens) \in Seq(Seq(Octet)) /\ Len(Queue(q, lens)) = Len(q)
         /\ \A i \in 1 .. Len(q) : Queue(q, lens)[i] = Package(q[i], lens[q[i]])
<1> DEFINE Q == Queue(q, lens)
           n == Len(q)
<1>1. n \in Nat /\ DOMAIN q = 1 .. n
  BY LenProperties
<1>2. Q = [i \in 1 .. n |-> Package(q[i], lens[q[i]])]
  BY <1>1 DEF Queue
<1>3. ASSUME NEW i \in 1 .. n PROVE Package(q[i], lens[q[i]]) \in Seq(Octet)
  <2>1. q[i] \in 1 .. Len(lens)
    BY ElementOfSeq
  <2>2. lens[q[i]] \in Lengths
    BY <2>1, ElementOfSeq
  <2>3. q[i] \in Nat /\ lens[q[i]] \in Nat
    BY <2>1, <2>2, Sizes
  <2> QED BY <2>3, PackageIs
<1> HIDE DEF Q
<1>4. Q \in [1 .. n -> Seq(Octet)] /\ DOMAIN Q = 1 .. n
  BY <1>2, <1>3
<1>5. Q \in Seq(Seq(Octet)) /\ DOMAIN Q = 1 .. n
  BY <1>1, <1>4, SeqDef, SMTT(30)
<1>6. Len(Q) = n
  BY <1>1, <1>5, LenProperties
<1> QED BY <1>2, <1>5, <1>6 DEF Q

(* One more package is queued.                                             *)
LEMMA QueueMore ==
  ASSUME NEW lens \in Seq(Lengths), NEW q \in Seq(1 .. Len(lens)), NEW k \in 1 .. Len(lens)
  PROVE  FlattenSeq(Queue(Append(q, k), lens)) = FlattenSeq(Queue(q, lens)) \o Package(k, lens[k])
<1> DEFINE r == Append(q, k)
           p == Package(k, lens[k])
           a == Queue(q, lens)
           b == Queue(r, lens)
           c == Append(a, p)
<1>1. /\ r \in Seq(1 .. Len(lens)) /\ Len(r) = Len(q) + 1 /\ r[Len(q) + 1] = k /\ Len(q) \in Nat
      /\ \A i \in 1 .. Len(q) : r[i] = q[i]
  BY AppendProperties, LenProperties
<1> HIDE DEF r
<1>2. /\ a \in Seq(Seq(Octet)) /\ Len(a) = Len(q)
      /\ \A i \in 1 .. Len(q) : a[i] = Package(q[i], lens[q[i]])
  BY QueueIs
<1>3. /\ b \in Seq(Seq(Octet)) /\ Len(b) = Len(r)
      /\ \A i \in 1 .. Len(r) : b[i] = Package(r[i], lens[r[i]])
  BY <1>1, QueueIs
<1>4. p \in Seq(Octet)
  <2>1. lens[k] \in Nat /\ k \in Nat
    BY ElementOfSeq, Sizes
  <2> QED BY <2>1, PackageIs
<1> HIDE DEF a, b
<1>5. /\ c \in Seq(Seq(Octet)) /\ Len(c) = Len(q) + 1 /\ c[Len(q) + 1] = p
      /\ \A i \in 1 .. Len(q) : c[i] = a[i]
  <2> HIDE DEF p
  <2>1. a \in Seq(Seq(Octet))
    BY <1>2
  <2>2. /\ c \in Seq(Seq(Octet)) /\ Len(c) = Len(a) + 1 /\ c[Len(a) + 1] = p
        /\ \A i \in 1 .. Len(a) : c[i] = a[i]
    BY <1>4, <2>1, AppendProperties
  <2> HIDE DEF c
  <2> QED BY <1>2, <2>2
<1> HIDE DEF c
<1>6. ASSUME NEW i \in 1 .. Len(q) + 1 PROVE b[i] = c[i]
  <2>1. CASE i = Len(q) + 1
    BY <1>1, <1>3, <1>5, <2>1
  <2>2. CASE i # Len(q) + 1
    <3>1. i \in 1 .. Len(q) /\ i \in 1 .. Len(r)
      BY <1>1, <2>2
    <3> QED BY <1>1, <1>2, <1>3, <1>5, <3>1
  <2> QED BY <2>1, <2>2
<1>7. b = c
  <2>1. Len(b) = Len(c) /\ \A i \in 1 .. Len(b) : b[i] = c[i]
    BY <1>1, <1>3, <1>5, <1>6
  <2> QED BY <1>3, <1>5, <2>1, SeqEqual
<1>8. FlattenSeq(c) = FlattenSeq(a) \o p
  <2> HIDE DEF p
  <2> QED BY <1>2, <1>4, FlattenAppend DEF c
<1> QED BY <1>7, <1>8 DEF r, p, a, b

(* The list's buffers leave every byte that is pending behind m_send_pos.  *)
LEMMA PositionIn ==
  ASSUME NEW list \in Seq(Seq(Octet)), NEW p, Positioned(list, p)
  PROVE  /\ FlattenSeq(list) \in Seq(Octet) /\ Len(FlattenSeq(list)) \in Nat
         /\ p \in 0 .. Len(FlattenSeq(list))
         /\ list = <<>> => FlattenSeq(list) = <<>>
<1> DEFINE f == FlattenSeq(list)
<1>1. f \in Seq(Octet) /\ Len(f) \in Nat /\ p \in Nat
  BY FlattenInSeq, LenProperties DEF Positioned
<1>2. CASE list = <<>>
  BY <1>1, <1>2, FlattenNone DEF Positioned
<1>3. CASE list # <<>>
  <2>1. 1 \in 1 .. Len(list) /\ 1 \in 0 .. Len(list) /\ 1 - 1 = 0
    BY <1>3, EmptySeq
  <2>2. /\ End(list, 0) = 0 /\ End(list, 1) = End(list, 1 - 1) + Len(list[1])
        /\ End(list, 1) \in Nat /\ End(list, 1) <= Len(f)
    BY <2>1, FlattenEnds
  <2>3. p < Len(list[1]) /\ Len(list[1]) \in Nat
    <3>1. list[1] \in Seq(Octet)
      BY <2>1, ElementOfSeq
    <3> QED BY <1>3, <3>1, LenProperties DEF Positioned
  <2> QED BY <1>1, <1>3, <2>1, <2>2, <2>3
<1> QED BY <1>2, <1>3

(* send_pkg, with a list that is full, with one that has room and without one. *)
LEMMA SocketSendPkgKeeps ==
  ASSUME Outgoing, SocketSendPkg
  PROVE  Outgoing'
<1> DEFINE k == tried + 1
           bytes == Package(k, out_lens[k])
           old == Pending
           Q == QueuedBytes
<1>1. /\ tried < Len(out_lens) /\ tried' = k
      /\ IF m_send_list # <<>>
         THEN /\ IF Len(m_send_list) >= ListSize THEN UNCHANGED <<m_send_list, queued>>
                 ELSE m_send_list' = Appended(bytes) /\ queued' = Append(queued, k)
              /\ UNCHANGED wire
         ELSE /\ queued' = Append(queued, k)
              /\ \E n \in 0 .. Len(bytes) :
                   /\ wire' = wire \o SubSeq(bytes, 1, n)
                   /\ m_send_list' = Buffers(After(bytes, n))
      /\ UNCHANGED <<state, out_lens, m_send_pos>>
      /\ Alive
  BY DEF SocketSendPkg
<1>2. /\ out_lens \in Seq(Lengths) /\ tried \in Nat /\ Len(out_lens) \in Nat
      /\ queued \in Seq(1 .. Len(out_lens)) /\ wire \in Seq(Octet)
      /\ m_send_list \in Seq(Seq(Octet)) /\ Sound(m_send_list) /\ Len(m_send_list) <= Bound
      /\ Positioned(m_send_list, m_send_pos) /\ wire \o old = Q
  BY LenProperties DEF Outgoing
<1>3. k \in Nat /\ k \in 1 .. Len(out_lens) /\ k <= Len(out_lens)
  BY <1>1, <1>2
<1>4. out_lens[k] \in Nat /\ out_lens[k] <= MaxLen /\ out_lens[k] >= 1
  <2>1. out_lens[k] \in Lengths
    BY <1>2, <1>3, ElementOfSeq
  <2> QED BY <2>1, Sizes
<1>5. bytes \in Seq(Octet) /\ Len(bytes) = out_lens[k]
  BY <1>3, <1>4, PackageIs
<1>6. Listed \in Seq(Octet) /\ Len(Listed) \in Nat /\ m_send_pos \in 0 .. Len(Listed)
      /\ (m_send_list = <<>> => Listed = <<>>)
  BY <1>2, PositionIn DEF Listed
<1>7. old = After(Listed, m_send_pos) /\ old \in Seq(Octet) /\ Len(old) = Len(Listed) - m_send_pos
  BY <1>6, AfterIs DEF Pending, After
<1>8. ASSUME queued' = Append(queued, k)
      PROVE  queued' \in Seq(1 .. Len(out_lens)) /\ QueuedBytes' = Q \o bytes
  <2>1. Q = FlattenSeq(Queue(queued, out_lens)) /\ QueuedBytes' = FlattenSeq(Queue(queued', out_lens))
    BY <1>1 DEF QueuedBytes, Queue
  <2>2. queued' \in Seq(1 .. Len(out_lens))
    BY <1>2, <1>3, <1>8, AppendProperties
  <2>3. FlattenSeq(Queue(Append(queued, k), out_lens)) = FlattenSeq(Queue(queued, out_lens)) \o bytes
    BY <1>2, <1>3, QueueMore
  <2> QED BY <1>8, <2>1, <2>2, <2>3
<1>9. ListSize \in Nat \ {0} /\ MaxLen \in Nat \ {0} /\ BufLen \in Nat \ {0} /\ (MaxLen - 1) \div BufLen \in Nat
  BY Sizes, Quotient
<1> HIDE DEF bytes, old, Q
<1>10. state' = state /\ state # "shut" /\ out_lens' \in Seq(Lengths) /\ tried' \in Nat /\ tried' <= Len(out_lens')
  BY <1>1, <1>2, <1>3 DEF Alive
<1> HIDE DEF k
<1>11. CASE m_send_list # <<>> /\ Len(m_send_list) >= ListSize
  <2>1. UNCHANGED <<m_send_list, queued, wire, m_send_pos, out_lens>>
    BY <1>1, <1>11
  <2>2. Pending' = Pending /\ QueuedBytes' = QueuedBytes
    BY <2>1 DEF Pending, Listed, QueuedBytes
  <2> QED BY <1>2, <1>10, <2>1, <2>2 DEF Outgoing, old, Q, Bound
<1>12. CASE m_send_list # <<>> /\ ~ (Len(m_send_list) >= ListSize)
  <2> DEFINE L == Appended(bytes)
  <2>1. m_send_list' = L /\ queued' = Append(queued, k) /\ UNCHANGED <<wire, m_send_pos, out_lens>>
    BY <1>1, <1>12 DEF bytes
  <2>2. /\ L \in Seq(Seq(Octet)) /\ L # <<>> /\ Sound(L)
        /\ \E x \in 0 .. Len(bytes) : Len(L) = Len(m_send_list) + Count(x)
        /\ Len(L[1]) >= Len(m_send_list[1])
        /\ FlattenSeq(L) = Listed \o bytes
    BY <1>2, <1>5, <1>12, AppendedAre
  <2> HIDE DEF L
  <2>3. Len(L) <= Bound
    <3>1. PICK x \in 0 .. Len(bytes) : Len(L) = Len(m_send_list) + Count(x)
      BY <2>2
    <3>2. x \in Nat /\ x <= MaxLen
      <4>1. Len(bytes) \in Nat /\ Len(bytes) <= MaxLen
        BY <1>4, <1>5
      <4> QED BY <1>9, <3>1, <4>1
    <3>3. Count(x) \in Nat /\ Count(x) <= 1 + (MaxLen - 1) \div BufLen
      BY <3>2, CountIs
    <3>4. Len(m_send_list) \in Nat /\ Len(m_send_list) + 1 <= ListSize
      BY <1>2, <1>9, <1>12, LenProperties
    <3> QED BY <1>9, <3>1, <3>3, <3>4 DEF Bound
  <2>4. Positioned(L, m_send_pos)
    <3>1. /\ m_send_pos \in Nat /\ m_send_pos < Len(m_send_list[1])
      BY <1>2, <1>12 DEF Positioned
    <3>2. 1 \in 1 .. Len(m_send_list) /\ 1 \in 1 .. Len(L)
      BY <1>2, <1>12, <2>2, EmptySeq
    <3>3. Len(m_send_list[1]) \in 1 .. BufLen /\ Len(L[1]) \in 1 .. BufLen
      BY <1>2, <2>2, <3>2 DEF Sound
    <3> QED BY <1>9, <2>2, <3>1, <3>3 DEF Positioned
  <2>5. Pending' = After(Listed \o bytes, m_send_pos)
    BY <2>1, <2>2 DEF Pending, After, Listed
  <2>6. Pending' = old \o bytes
    BY <1>5, <1>6, <1>7, <2>5, AfterConcat
  <2>7. wire' \o Pending' = QueuedBytes'
    <3>1. (wire \o old) \o bytes = wire \o (old \o bytes)
      <4>1. wire \in Seq(Octet) /\ old \in Seq(Octet) /\ bytes \in Seq(Octet)
        BY <1>2, <1>5, <1>7
      <4> QED BY <4>1, Regroup
    <3> QED BY <1>2, <1>8, <2>1, <2>6, <3>1
  <2>8. queued' \in Seq(1 .. Len(out_lens'))
    BY <1>1, <1>8, <2>1
  <2> QED BY <1>2, <1>10, <2>1, <2>2, <2>3, <2>4, <2>7, <2>8 DEF Outgoing, Bound
<1>13. CASE m_send_list = <<>>
  <2>1. PICK n \in 0 .. Len(bytes) :
          /\ wire' = wire \o SubSeq(bytes, 1, n)
          /\ m_send_list' = Buffers(After(bytes, n))
    BY <1>1, <1>13 DEF bytes
  <2> DEFINE x == SubSeq(bytes, 1, n)
             y == After(bytes, n)
             L == Buffers(y)
  <2>2. queued' = Append(queued, k) /\ UNCHANGED <<m_send_pos, out_lens>>
    BY <1>1, <1>13
  <2>3. x \in Seq(Octet) /\ y \in Seq(Octet) /\ x \o y = bytes
    BY <1>5, CutAt
  <2>4. wire' = wire \o x /\ m_send_list' = L
    BY <2>1
  <2>4a. Len(y) \in Nat /\ Len(y) <= MaxLen
    <3>1. n \in Nat /\ Len(y) = Len(bytes) - n
      BY <1>5, AfterIs
    <3> QED BY <1>4, <1>5, <2>1, <3>1, <1>9
  <2> HIDE DEF x, y
  <2>5. L \in Seq(Seq(Octet)) /\ Len(L) = Count(Len(y)) /\ Sound(L) /\ FlattenSeq(L) = y
    BY <2>3, BuffersAre
  <2> HIDE DEF L
  <2>6. m_send_pos = 0 /\ Positioned(L, 0)
    <3>1. m_send_pos = 0
      BY <1>2, <1>13 DEF Positioned
    <3>2. L # <<>> => Len(L[1]) \in 1 .. BufLen
      BY <2>5, EmptySeq DEF Sound
    <3> QED BY <1>9, <3>1, <3>2 DEF Positioned
  <2>7. Len(L) <= Bound
    <3>1. Count(Len(y)) \in Nat /\ Count(Len(y)) <= 1 + (MaxLen - 1) \div BufLen
      BY <2>4a, CountIs
    <3> QED BY <1>9, <2>5, <3>1 DEF Bound
  <2>8. old = <<>>
    <3>1. Len(old) = 0
      <4>1. Len(Listed) = 0 /\ Len(old) = Len(Listed) - m_send_pos
        BY <1>6, <1>7, <1>13, EmptySeq
      <4> QED BY <2>6, <4>1
    <3> QED BY <1>7, <3>1, EmptySeq
  <2>9. Pending' = y
    <3>1. Pending' = After(y, 0)
      BY <2>2, <2>4, <2>5, <2>6 DEF Pending, After, Listed
    <3>2. After(y, 0) = y
      BY <2>3, SubSeqFull DEF After
    <3> QED BY <3>1, <3>2
  <2>10. wire' \o Pending' = QueuedBytes'
    <3>1. (wire \o x) \o y = wire \o (x \o y)
      <4>1. wire \in Seq(Octet) /\ x \in Seq(Octet) /\ y \in Seq(Octet)
        BY <1>2, <2>3
      <4> QED BY <4>1, Regroup
    <3>2. wire \o old = wire
      BY <1>2, <2>8, ConcatEmptySeq
    <3> QED BY <1>2, <1>8, <2>2, <2>3, <2>4, <2>9, <3>1, <3>2
  <2>11. wire' \in Seq(Octet) /\ queued' \in Seq(1 .. Len(out_lens'))
    BY <1>2, <1>8, <2>2, <2>3, <2>4, ConcatProperties
  <2> QED BY <1>10, <2>2, <2>4, <2>5, <2>6, <2>7, <2>10, <2>11 DEF Outgoing, Bound
<1> QED BY <1>11, <1>12, <1>13

(* n bytes of what is pending are sent: the list without the buffers that  *)
(* are done still joins to the rest.                                       *)
LEMMA OutputLeaves ==
  ASSUME m_send_list \in Seq(Seq(Octet)), Sound(m_send_list), NEW e \in 0 .. Len(Listed)
  PROVE  LET rest == After(m_send_list, Whole(e))
             p == PosAfter(e)
         IN  /\ rest \in Seq(Seq(Octet)) /\ Sound(rest) /\ Len(rest) <= Len(m_send_list)
             /\ Positioned(rest, p)
             /\ After(FlattenSeq(rest), p) = After(Listed, e)
<1> DEFINE L == m_send_list
           w == Whole(e)
           m == Len(L)
           rest == After(L, w)
           p == PosAfter(e)
           front == SubSeq(L, 1, w)
           f == FlattenSeq(front)
           r == FlattenSeq(rest)
<1>1. m \in Nat /\ Listed \in Seq(Octet) /\ Len(Listed) \in Nat /\ Listed = FlattenSeq(L) /\ e \in Nat
  BY FlattenInSeq, LenProperties DEF Listed
<1>2. w \in 0 .. m /\ End(L, w) <= e /\ (w < m => e < End(L, w + 1))
  BY <1>1, WholeIs
<1>3. /\ front \in Seq(Seq(Octet)) /\ rest \in Seq(Seq(Octet)) /\ Len(rest) = m - w
      /\ \A i \in 1 .. m - w : rest[i] = L[w + i]
      /\ FlattenSeq(L) = f \o r
  BY <1>2, FlattenSplit DEF After
<1>4. f \in Seq(Octet) /\ r \in Seq(Octet) /\ Len(f) \in Nat /\ Len(r) \in Nat
  BY <1>3, FlattenInSeq, LenProperties
<1>5. Len(f) = End(L, w) /\ p = e - Len(f)
  BY DEF End, PosAfter
<1>6. /\ End(L, m) = Len(Listed)
      /\ w < m => w + 1 \in 1 .. m /\ End(L, w + 1) = End(L, w) + Len(L[w + 1])
  <2>1. /\ End(L, m) = Len(FlattenSeq(L))
        /\ \A k \in 1 .. m : End(L, k) = End(L, k - 1) + Len(L[k])
    BY FlattenEnds
  <2>2. w < m => w + 1 \in 1 .. m /\ (w + 1) - 1 = w
    <3> HIDE DEF m, w
    <3> QED BY <1>1, <1>2
  <2> QED BY <1>1, <2>1, <2>2
<1> HIDE DEF L, w, m, rest, p, front, f, r
<1>7. p \in Nat /\ e = Len(f) + p /\ Len(Listed) = Len(f) + Len(r) /\ p <= Len(r)
  <2>1. p \in Nat /\ e = Len(f) + p
    BY <1>1, <1>2, <1>4, <1>5
  <2>2. Len(Listed) = Len(f) + Len(r)
    BY <1>1, <1>3, <1>4, ConcatProperties
  <2> QED BY <1>1, <1>4, <2>1, <2>2
<1>8. Sound(rest) /\ Len(rest) <= m
  <2>1. ASSUME NEW b \in 1 .. Len(rest) PROVE Len(rest[b]) \in 1 .. BufLen
    <3>1. b \in 1 .. m - w /\ w + b \in 1 .. m
      BY <1>1, <1>2, <1>3
    <3>2. rest[b] = L[w + b]
      BY <1>3, <3>1
    <3> QED BY <3>1, <3>2 DEF Sound, L, m
  <2> QED BY <1>1, <1>2, <1>3, <2>1 DEF Sound
<1>9. Positioned(rest, p)
  <2>1. CASE w = m
    <3>1. Len(rest) = 0
      BY <1>1, <1>3, <2>1
    <3>2. rest = <<>> /\ r = <<>>
      BY <1>3, <3>1, EmptySeq, FlattenNone DEF r
    <3>3. p = 0
      BY <1>4, <1>7, <3>2, EmptySeq
    <3> QED BY <3>2, <3>3 DEF Positioned
  <2>2. CASE w # m
    <3>1. w < m /\ 1 \in 1 .. m - w
      BY <1>1, <1>2, <2>2
    <3>2. rest[1] = L[w + 1]
      BY <1>3, <3>1
    <3>3. L[w + 1] \in Seq(Octet)
      BY <1>6, <3>1, ElementOfSeq DEF L, m
    <3>4. Len(L[w + 1]) \in Nat
      BY <3>3, LenProperties
    <3>5. e < Len(f) + Len(rest[1])
      BY <1>2, <1>5, <1>6, <3>1, <3>2
    <3>6. rest # <<>> /\ p < Len(rest[1])
      <4>1. Len(rest) # 0
        BY <1>1, <1>2, <1>3, <3>1
      <4> QED BY <1>4, <1>7, <3>2, <3>4, <3>5, <4>1, EmptySeq
    <3> QED BY <1>7, <3>6 DEF Positioned
  <2> QED BY <2>1, <2>2
<1>10. After(r, p) = After(Listed, e)
  <2>1. p \in 0 .. Len(r)
    BY <1>4, <1>7
  <2>2. After(f \o r, Len(f) + p) = After(r, p)
    BY <1>4, <2>1, AfterFirst
  <2> QED BY <1>1, <1>3, <1>7, <2>2
<1> QED BY <1>3, <1>8, <1>9, <1>10 DEF L, w, m, rest, p, r

(* handle_output.                                                          *)
LEMMA OutputKeeps ==
  ASSUME Outgoing, HandleOutput
  PROVE  Outgoing'
<1> DEFINE old == Pending
<1>1. PICK n \in 1 .. Len(Pending) :
        /\ wire' = wire \o SubSeq(Pending, 1, n)
        /\ m_send_list' = After(m_send_list, Whole(m_send_pos + n))
        /\ m_send_pos' = PosAfter(m_send_pos + n)
  BY DEF HandleOutput
<1>2. /\ UNCHANGED <<out_lens, queued, tried>>
      /\ state' = "shut" => m_send_list' = <<>>
  <2>1. Alive /\ (IF m_send_list' # <<>> THEN UNCHANGED <<state, armed>>
                  ELSE IF state = "closing" THEN state' = "shut" /\ UNCHANGED armed
                  ELSE armed' = FALSE /\ UNCHANGED state)
    BY DEF HandleOutput
  <2>2. state # "shut"
    BY <2>1 DEF Alive
  <2> QED BY <2>1, <2>2 DEF HandleOutput
<1>3. /\ wire \in Seq(Octet) /\ wire \o old = QueuedBytes
      /\ m_send_list \in Seq(Seq(Octet)) /\ Sound(m_send_list) /\ Len(m_send_list) <= Bound
      /\ Positioned(m_send_list, m_send_pos) /\ Len(m_send_list) \in Nat
  BY LenProperties DEF Outgoing
<1>4. Listed \in Seq(Octet) /\ Len(Listed) \in Nat /\ m_send_pos \in 0 .. Len(Listed)
  BY <1>3, PositionIn DEF Listed
<1>5. /\ old = After(Listed, m_send_pos) /\ old \in Seq(Octet) /\ Len(old) = Len(Listed) - m_send_pos
  BY <1>4, AfterIs DEF Pending, After
<1> DEFINE e == m_send_pos + n
           a == SubSeq(old, 1, n)
           b == After(old, n)
<1>6. e \in 0 .. Len(Listed) /\ n \in 0 .. Len(old) /\ n \in Nat
  BY <1>1, <1>4, <1>5
<1>7. a \in Seq(Octet) /\ b \in Seq(Octet) /\ a \o b = old
  BY <1>5, <1>6, CutAt
<1>8. b = After(Listed, e)
  <2> DEFINE x == SubSeq(Listed, 1, m_send_pos)
  <2>1. x \in Seq(Octet) /\ Len(x) = m_send_pos /\ x \o old = Listed
    BY <1>4, <1>5, CutAt
  <2> HIDE DEF x, old
  <2>2. After(x \o old, Len(x) + n) = After(old, n)
    <3>1. n \in 0 .. Len(old)
      BY <1>6
    <3>2. old \in Seq(Octet)
      BY <1>5
    <3> QED BY <2>1, <3>1, <3>2, AfterFirst
  <2> QED BY <2>1, <2>2
<1>9. m_send_list' = After(m_send_list, Whole(e)) /\ m_send_pos' = PosAfter(e) /\ wire' = wire \o a
  BY <1>1
<1>10. /\ m_send_list' \in Seq(Seq(Octet)) /\ Sound(m_send_list') /\ Len(m_send_list') <= Len(m_send_list)
       /\ Positioned(m_send_list', m_send_pos')
       /\ After(FlattenSeq(m_send_list'), m_send_pos') = After(Listed, e)
  <2> HIDE DEF e
  <2> QED BY <1>3, <1>6, <1>9, OutputLeaves
<1>11. Pending' = b
  BY <1>8, <1>10 DEF Pending, Listed, After
<1> HIDE DEF a, b, old, e
<1>12. wire' \in Seq(Octet) /\ wire' \o Pending' = QueuedBytes'
  <2>1. wire \in Seq(Octet) /\ a \in Seq(Octet) /\ b \in Seq(Octet)
    BY <1>3, <1>7
  <2>2. wire \o a \in Seq(Octet) /\ (wire \o a) \o b = wire \o (a \o b)
    BY <2>1, Regroup, SMTT(30)
  <2>3. QueuedBytes' = QueuedBytes
    BY <1>2 DEF QueuedBytes
  <2> QED BY <1>3, <1>7, <1>9, <1>11, <2>2, <2>3
<1>13. Len(m_send_list') <= Bound'
  <2>1. Len(m_send_list') \in Nat /\ Bound \in Nat
    <3>1. ListSize \in Nat /\ MaxLen \in Nat \ {0} /\ BufLen \in Nat \ {0}
      BY Sizes
    <3>2. (MaxLen - 1) \div BufLen \in Nat
      BY <3>1, Quotient
    <3> QED BY <1>10, <3>1, <3>2, LenProperties DEF Bound
  <2> QED BY <1>3, <1>10, <2>1 DEF Bound
<1>14. out_lens' \in Seq(Lengths) /\ tried' \in Nat /\ tried' <= Len(out_lens') /\ queued' \in Seq(1 .. Len(out_lens'))
  BY <1>2 DEF Outgoing
<1> QED BY <1>2, <1>10, <1>12, <1>13, <1>14 DEF Outgoing

(* The other steps leave the sending side alone.                           *)
LEMMA NotSending ==
  ASSUME Outgoing, UNCHANGED <<out_lens, m_send_list, m_send_pos, queued, tried, wire>>,
         state' = "shut" => state = "shut" \/ m_send_list = <<>>
  PROVE  Outgoing'
<1>1. Pending' = Pending /\ QueuedBytes' = QueuedBytes
  BY DEF Pending, Listed, QueuedBytes
<1> QED BY <1>1 DEF Outgoing, Bound

-----------------------------------------------------------------------------
(* The theorems.                                                           *)

SocketInv == smeared \in BOOLEAN /\ (~smeared => Incoming) /\ Outgoing

LEMMA Starts == SocketInit => SocketInv
<1> SUFFICES ASSUME SocketInit PROVE SocketInv
  OBVIOUS
<1>1. /\ in_lens \in Seq(AnyLength) /\ out_lens \in Seq(Lengths)
      /\ Len(in_lens) \in Nat /\ Len(out_lens) \in Nat
  <2>1. /\ in_lens \in UNION {[1 .. m -> AnyLength] : m \in 0 .. MaxIn}
        /\ out_lens \in UNION {[1 .. m -> Lengths] : m \in 0 .. MaxOut}
    BY DEF SocketInit, BoundedSeq, SeqOf, AnyLength
  <2>2. in_lens \in Seq(AnyLength)
    <3>1. PICK m \in 0 .. MaxIn : in_lens \in [1 .. m -> AnyLength]
      BY <2>1
    <3>2. m \in Nat
      OBVIOUS
    <3> QED BY <3>1, <3>2, SeqDef
  <2>3. out_lens \in Seq(Lengths)
    <3>1. PICK m \in 0 .. MaxOut : out_lens \in [1 .. m -> Lengths]
      BY <2>1
    <3>2. m \in Nat
      OBVIOUS
    <3> QED BY <3>1, <3>2, SeqDef
  <2> QED BY <2>2, <2>3, LenProperties
<1>2. /\ state = "open" /\ buf = <<>> /\ size = FirstSize /\ pos = 0 /\ reading = FALSE /\ taken = 0
      /\ handed = <<>> /\ smeared = FALSE /\ m_send_list = <<>> /\ m_send_pos = 0
      /\ queued = <<>> /\ tried = 0 /\ wire = <<>>
  BY DEF SocketInit
<1>3. Len(<<>>) = 0 /\ <<>> \in Seq(Octet) /\ <<>> \in Seq(Seq(Octet)) /\ <<>> \in Seq(1 .. Len(out_lens))
  BY EmptySeq
<1>4. Start = 0 /\ Len(Bytes(in_lens)) \in Nat
  <2>1. in_lens \in Seq(Nat)
    <3>1. AnyLength \subseteq Nat
      BY Sizes
    <3> QED BY <1>1, <3>1, SeqMonotonic
  <2>2. End(Packages(in_lens), 0) = 0 /\ Len(Bytes(in_lens)) \in Nat
    BY <2>1, BytesAre
  <2> QED BY <1>2, <1>3, <2>2 DEF Start
<1>5. Handed
  <2>1. 1 .. 0 = {} /\ DOMAIN <<>> = {}
    BY EmptySeq
  <2>2. handed = [k \in 1 .. 0 |-> Package(k, in_lens[k])]
    BY <1>2, <2>1
  <2> QED BY <1>1, <1>2, <1>3, <2>2 DEF Handed
<1>6. Incoming
  <2>1. FirstSize \in Nat \ {0} /\ FirstSize <= Max({FirstSize, MaxLen})
    BY Sizes, GreatestOfTwo
  <2>2. Len(buf) = 0 /\ buf \in Seq(Octet) /\ pos = 0 /\ taken = 0 /\ Start = 0 /\ size = FirstSize
    BY <1>2, <1>3, <1>4
  <2>3. Cut
    <3>1. pos \in Nat /\ pos <= Len(buf) /\ Len(buf) <= taken /\ taken - Len(buf) + pos = Start
      BY <2>2
    <3>2. \A i \in 1 .. Len(buf) : FALSE
      BY <2>2
    <3> QED BY <3>1, <3>2, Zenon DEF Cut
  <2>4. size \in Nat /\ FirstSize <= size /\ Len(buf) <= size /\ Len(buf) < size
    BY <2>1, <2>2
  <2>5. size <= Max({FirstSize, MaxLen})
    BY <2>1, <2>2
  <2>6. taken \in Nat /\ taken <= Len(Bytes(in_lens))
    BY <1>4, <2>2
  <2>7. reading = FALSE /\ state = "open" /\ state # "bad length"
    BY <1>2
  <2> QED BY <1>1, <1>5, <2>2, <2>3, <2>4, <2>5, <2>6, <2>7, Zenon DEF Incoming
<1>7. Pending = <<>> /\ QueuedBytes = <<>>
  <2>1. Listed = <<>>
    BY <1>2, FlattenNone DEF Listed
  <2>2. Pending = <<>>
    <3>1. Pending = SubSeq(<<>>, 1, 0)
      BY <1>2, <1>3, <2>1 DEF Pending
    <3> QED BY <3>1, SubSeqEmpty
  <2>3. QueuedBytes = FlattenSeq(Queue(<<>>, out_lens))
    BY <1>2 DEF QueuedBytes, Queue
  <2>4. Queue(<<>>, out_lens) \in Seq(Seq(Octet)) /\ Len(Queue(<<>>, out_lens)) = 0
    BY <1>1, <1>3, QueueIs
  <2>5. Queue(<<>>, out_lens) = <<>>
    <3> DEFINE q == Queue(<<>>, out_lens)
    <3> HIDE DEF q
    <3>1. q \in Seq(Seq(Octet)) /\ Len(q) = 0
      BY <2>4 DEF q
    <3>2. q = <<>>
      BY <3>1, EmptySeq
    <3> QED BY <3>2 DEF q
  <2> QED BY <2>2, <2>3, <2>5, FlattenNone
<1>8. Outgoing
  <2>1. Sound(m_send_list) /\ Positioned(m_send_list, m_send_pos)
    BY <1>2, <1>3 DEF Sound, Positioned
  <2>2. Len(m_send_list) <= Bound
    <3>1. ListSize \in Nat /\ MaxLen \in Nat \ {0} /\ BufLen \in Nat \ {0}
      BY Sizes
    <3>2. (MaxLen - 1) \div BufLen \in Nat
      BY <3>1, Quotient
    <3> QED BY <1>2, <1>3, <3>1, <3>2 DEF Bound
  <2>3. wire \o Pending = QueuedBytes
    BY <1>2, <1>3, <1>7, ConcatEmptySeq
  <2> QED BY <1>1, <1>2, <1>3, <2>1, <2>2, <2>3 DEF Outgoing
<1> QED BY <1>2, <1>6, <1>8 DEF SocketInv

LEMMA Keeps == SocketInv /\ [SocketNext]_socket_vars => SocketInv'
<1> SUFFICES ASSUME SocketInv, [SocketNext]_socket_vars PROVE SocketInv'
  OBVIOUS
<1>1. smeared \in BOOLEAN /\ (~smeared => Incoming) /\ Outgoing
  BY DEF SocketInv
<1>2. CASE Recv
  <2>1. smeared' = smeared /\ UNCHANGED out
    BY <1>2 DEF Recv
  <2>2. state' = state \/ state' = "no room"
    BY <1>2 DEF Recv
  <2>3. Outgoing'
    BY <1>1, <2>1, <2>2, NotSending DEF out
  <2>4. ~smeared' => Incoming'
    BY <1>1, <1>2, <2>1, RecvKeeps
  <2> QED BY <1>1, <2>1, <2>3, <2>4 DEF SocketInv
<1>3. CASE Read
  <2>1. UNCHANGED out /\ (state' = state \/ state' = "bad length" \/ state' = "big head")
    BY <1>3 DEF Read
  <2>2. smeared' \in BOOLEAN /\ (smeared => smeared')
    BY <1>1, <1>3 DEF Read, Move
  <2>3. Outgoing'
    BY <1>1, <2>1, NotSending DEF out
  <2>4. ~smeared' => Incoming'
    BY <1>1, <1>3, <2>2, ReadKeeps
  <2> QED BY <2>2, <2>3, <2>4 DEF SocketInv
<1>4. CASE SocketSendPkg
  <2>1. UNCHANGED in /\ state' = state
    BY <1>4 DEF SocketSendPkg
  <2>2. ~smeared' => Incoming'
    BY <1>1, <2>1, OthersKeep DEF in
  <2>3. Outgoing'
    BY <1>1, <1>4, SocketSendPkgKeeps
  <2> QED BY <1>1, <2>1, <2>2, <2>3 DEF SocketInv, in
<1>5. CASE HandleOutput
  <2>1. /\ UNCHANGED in /\ Alive
        /\ state' = state \/ (state = "closing" /\ state' = "shut")
    BY <1>5 DEF HandleOutput
  <2>2. ~smeared' => Incoming'
    <3> SUFFICES ASSUME ~smeared PROVE Incoming'
      BY <2>1 DEF in
    <3>1. state = "closing" => ~reading
      BY <1>1 DEF Incoming
    <3> QED BY <1>1, <2>1, <3>1, OthersKeep DEF in
  <2>3. Outgoing'
    BY <1>1, <1>5, OutputKeeps
  <2> QED BY <1>1, <2>1, <2>2, <2>3 DEF SocketInv, in
<1>6. CASE SocketShut
  <2>1. /\ UNCHANGED <<in, out>> /\ ~reading /\ state = "open"
        /\ state' = IF m_send_list = <<>> THEN "shut" ELSE "closing"
    BY <1>6 DEF SocketShut
  <2>2. ~smeared' => Incoming'
    BY <1>1, <2>1, OthersKeep DEF in, Alive
  <2>3. Outgoing'
    BY <1>1, <2>1, NotSending DEF out
  <2> QED BY <1>1, <2>1, <2>2, <2>3 DEF SocketInv, in
<1>7. CASE SocketHandleError
  <2>1. /\ UNCHANGED <<in_lens, buf, size, pos, taken, handed, smeared, out>>
        /\ Alive /\ state' = "error" /\ reading' = FALSE
    BY <1>7 DEF SocketHandleError
  <2>2. ~smeared' => Incoming'
    BY <1>1, <2>1, OthersKeep
  <2>3. Outgoing'
    BY <1>1, <2>1, NotSending DEF out
  <2> QED BY <1>1, <2>1, <2>2, <2>3 DEF SocketInv
<1>8. CASE UNCHANGED socket_vars
  <2>1. UNCHANGED <<in, out, state>>
    BY <1>8 DEF socket_vars
  <2>2. ~smeared' => Incoming'
    BY <1>1, <2>1, OthersKeep DEF in
  <2>3. Outgoing'
    BY <1>1, <2>1, NotSending DEF out
  <2> QED BY <1>1, <2>1, <2>2, <2>3 DEF SocketInv, in
<1> QED BY <1>2, <1>3, <1>4, <1>5, <1>6, <1>7, <1>8 DEF SocketNext

LEMMA SocketInvariance == SocketSpec => []SocketInv
BY Starts, Keeps, PTL DEF SocketSpec

(* However the bytes arrive, recv_push is given the client's packages one  *)
(* by one, whole and in order; the connection is not closed for a full     *)
(* buffer or an allowed length, and the buffer keeps within its limit.     *)
THEOREM PackagesAreFramed == SocketSpec => []Framed
<1>1. SocketInv => Framed
  <2> SUFFICES ASSUME SocketInv, ~smeared PROVE Framed
    BY DEF Framed
  <2>1. Incoming
    BY DEF SocketInv
  <2>2. handed = [k \in DOMAIN handed |-> Package(k, in_lens[k])]
    <3>1. handed = [k \in 1 .. Len(handed) |-> Package(k, in_lens[k])]
      BY <2>1 DEF Incoming, Handed
    <3>2. DOMAIN handed = 1 .. Len(handed)
      BY <3>1
    <3> QED BY <3>1, <3>2
  <2> QED BY <2>1, <2>2 DEF Framed, Incoming
<1> QED BY <1>1, SocketInvariance, PTL

(* However the client takes them, it gets the packages send_pkg has taken, *)
(* whole and in order, all of them when the server closes the connection,  *)
(* and the list goes beyond its limit by one package at most.              *)
THEOREM StreamIsKept == SocketSpec => []Stream
<1>1. SocketInv => Stream
  <2> SUFFICES ASSUME SocketInv PROVE Stream
    OBVIOUS
  <2> DEFINE p == Pending  Q == QueuedBytes
  <2>1. Outgoing
    BY DEF SocketInv
  <2>2. /\ wire \in Seq(Octet) /\ wire \o p = Q /\ (state = "shut" => m_send_list = <<>>)
        /\ m_send_list \in Seq(Seq(Octet)) /\ Positioned(m_send_list, m_send_pos)
        /\ Len(m_send_list) <= ListSize + (MaxLen - 1) \div BufLen
    BY <2>1 DEF Outgoing, Bound
  <2>3. /\ Listed \in Seq(Octet) /\ Len(Listed) \in Nat /\ m_send_pos \in 0 .. Len(Listed)
        /\ (m_send_list = <<>> => Listed = <<>>)
    BY <2>2, PositionIn DEF Listed
  <2>4. p \in Seq(Octet) /\ Len(p) = Len(Listed) - m_send_pos
    BY <2>3, AfterIs DEF Pending, After
  <2>5. IsPrefix(wire, Q)
    <3> HIDE DEF p, Q
    <3>1. /\ Q \in Seq(Octet) /\ Len(Q) = Len(wire) + Len(p) /\ Len(wire) \in Nat /\ Len(p) \in Nat
          /\ \A i \in 1 .. Len(wire) + Len(p) : Q[i] = IF i <= Len(wire) THEN wire[i] ELSE p[i - Len(wire)]
      BY <2>2, <2>4, ConcatProperties, LenProperties
    <3> DEFINE n == Len(wire)
               x == SubSeq(Q, 1, n)
    <3>2. n \in 0 .. Len(Q)
      BY <3>1
    <3>3. x \in Seq(Octet) /\ Len(x) = n
      BY <3>1, <3>2, CutAt
    <3>4. \A i \in 1 .. n : x[i] = wire[i]
      <4>1. \A i \in 1 .. n : i \in 1 .. Len(Q) /\ i \in 1 .. Len(wire) + Len(p) /\ i <= n
        BY <3>1
      <4>2. \A i \in 1 .. n : Q[i] = wire[i] /\ Q[i] \in Octet
        BY <3>1, <4>1, ElementOfSeq
      <4>3. \A i \in 1 .. n - 1 + 1 : x[i] = Q[1 + i - 1]
        BY <3>1, <4>2, SubSeqProperties
      <4>4. n - 1 + 1 = n /\ \A i \in 1 .. n : 1 + i - 1 = i
        BY <3>1
      <4> HIDE DEF x, n
      <4> QED BY <4>2, <4>3, <4>4
    <3> HIDE DEF x
    <3>5. x = wire
      BY <2>2, <3>3, <3>4, SeqEqual
    <3>6. SubSeq(wire, 1, Len(wire)) = wire
      BY <2>2, SubSeqFull
    <3> QED BY <3>1, <3>5, <3>6 DEF IsPrefix, x
  <2>6. state = "shut" => wire = Q
    <3> SUFFICES ASSUME state = "shut" PROVE wire = Q
      OBVIOUS
    <3>1. Len(p) = 0
      BY <2>2, <2>3, <2>4, EmptySeq
    <3>2. p = <<>>
      BY <2>4, <3>1, EmptySeq
    <3> QED BY <2>2, <3>2, ConcatEmptySeq
  <2> QED BY <2>2, <2>5, <2>6 DEF Stream
<1> QED BY <1>1, SocketInvariance, PTL

=============================================================================
