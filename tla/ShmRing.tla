------------------------------- MODULE ShmRing -------------------------------
(***************************************************************************)
(* The shared-memory ring of async_server/src/shmq.cpp: one producer       *)
(* process runs shmq_push, one consumer process runs shmq_pull, and the    *)
(* only words both touch are w_pos, r_pos and the bytes of the ring.       *)
(*                                                                         *)
(* A push or a pull is split into the load of the other side's position,   *)
(* the copy of every byte, and the store of the own position, so every     *)
(* interleaving of the two processes is a behaviour.  The block header     *)
(* (struct shm_block_t) and the body are copied in order and either may    *)
(* wrap; a byte stands for its block's number, its place in the block and  *)
(* the len field that the header bytes spell.                              *)
(*                                                                         *)
(* Either process may die between any two steps and be forked again: the   *)
(* ring survives (the parent keeps the mapping), process memory does not.  *)
(***************************************************************************)
EXTENDS Integers, Sequences

CONSTANTS
  Size,       (* sq->size: bytes of the ring                             *)
  HeadLen,    (* sizeof(struct shm_block_t)                              *)
  Lens,       (* the values sb->len takes                                *)
  PullInit,   (* the 8192 bytes pull_buf is allocated with               *)
  MaxBlocks   (* bound: blocks ever pushed                               *)

ASSUME RingAssumption ==
  /\ Size \in Nat
  /\ HeadLen \in Nat \ {0}
  /\ Lens \subseteq Nat
  /\ PullInit \in Nat
  /\ MaxBlocks \in Nat

VARIABLES
  mem,        (* the ring's bytes                                        *)
  w_pos,      (* head->w_pos, stored by the producer only                *)
  r_pos,      (* head->r_pos, stored by the consumer only                *)
  p_pc,       (* "idle", or "copy" inside shmq_push                      *)
  p_pos,      (* the producer's local pos                                *)
  p_off,      (* bytes of the block it has copied                        *)
  p_len,      (* sb->len of the block being pushed                       *)
  c_pc,       (* "idle", or "head" / "body" inside shmq_pull             *)
  c_pos,      (* the consumer's local pos                                *)
  c_buf,      (* the bytes it has copied out                             *)
  pull_len,   (* sq->pull_len                                            *)
  sent,       (* history: length and stream offset of every block pushed *)
  got,        (* history: what every pull returned (<<>> for its -1)     *)
  wrote,      (* history: bytes published so far                         *)
  read        (* history: bytes consumed so far                          *)

producerVars == <<p_pc, p_pos, p_off, p_len>>
consumerVars == <<c_pc, c_pos, c_buf, pull_len>>
vars == <<mem, w_pos, r_pos, producerVars, consumerVars,
          sent, got, wrote, read>>

Byte(k, j, l) == [blk |-> k, off |-> j, len |-> l]
Bytes == [blk : Nat, off : Nat, len : Nat]
Cells == 0 .. Size - 1

-----------------------------------------------------------------------------
(* Position arithmetic.  A position may be Size, which names cell 0; after *)
(* the first lap 0 is never stored again.                                  *)

(* The cell a copy at position pos touches. *)
Cell(pos) == IF pos = Size THEN 0 ELSE pos

(* Mutant of Advance: the wrapping branch forgotten. *)
AdvanceStraight(pos, n) == pos + n

(* The position n bytes further on: the two branches of every copy. *)
Advance(pos, n) == IF pos + n <= Size THEN pos + n ELSE n - (Size - pos)

(* s of shmq_push: bytes free between w and r. *)
Space(w, r) == IF w >= r THEN Size - w + r ELSE r - w

(* s of shmq_pull: bytes readable between r and w. *)
Readable(w, r) == IF w >= r THEN w - r ELSE Size - r + w

(* The block that l payload bytes make, as the consumer should see it. *)
Block(k, l) == [j \in 1 .. HeadLen + l |-> Byte(k, j, l)]

-----------------------------------------------------------------------------
Init ==
  /\ mem = [i \in Cells |-> Byte(0, 0, 0)]
  /\ w_pos = 0 /\ r_pos = 0
  /\ p_pc = "idle" /\ p_pos = 0 /\ p_off = 0 /\ p_len = 0
  /\ c_pc = "idle" /\ c_pos = 0 /\ c_buf = <<>>
  /\ pull_len = PullInit
  /\ sent = <<>> /\ got = <<>>
  /\ wrote = 0 /\ read = 0

-----------------------------------------------------------------------------
(* The producer.                                                           *)

(* Mutant of PushBegin: the room check forgets the block header. *)
PushBeginBodyOnly(l) ==
  /\ p_pc = "idle"
  /\ Len(sent) < MaxBlocks
  /\ Space(w_pos, r_pos) >= l + 1
  /\ p_pc' = "copy"
  /\ p_pos' = w_pos
  /\ p_off' = 0
  /\ p_len' = l
  /\ UNCHANGED <<mem, w_pos, r_pos, consumerVars, sent, got, wrote, read>>

(* Mutant of PushBegin: no byte is kept free. *)
PushBeginFull(l) ==
  /\ p_pc = "idle"
  /\ Len(sent) < MaxBlocks
  /\ Space(w_pos, r_pos) >= HeadLen + l
  /\ p_pc' = "copy"
  /\ p_pos' = w_pos
  /\ p_off' = 0
  /\ p_len' = l
  /\ UNCHANGED <<mem, w_pos, r_pos, consumerVars, sent, got, wrote, read>>

(* shmq_push reads both positions and finds room for the block.  The other *)
(* branch returns 1 and changes nothing.                                   *)
PushBegin(l) ==
  /\ p_pc = "idle"
  /\ Len(sent) < MaxBlocks
  /\ Space(w_pos, r_pos) >= HeadLen + l + 1
  /\ p_pc' = "copy"
  /\ p_pos' = w_pos
  /\ p_off' = 0
  /\ p_len' = l
  /\ UNCHANGED <<mem, w_pos, r_pos, consumerVars, sent, got, wrote, read>>

(* One byte of the header or body memcpy. *)
PushByte ==
  /\ p_pc = "copy"
  /\ p_off < HeadLen + p_len
  /\ mem' = [mem EXCEPT ![Cell(p_pos)] = Byte(Len(sent) + 1, p_off + 1, p_len)]
  /\ p_pos' = Advance(p_pos, 1)
  /\ p_off' = p_off + 1
  /\ UNCHANGED <<w_pos, r_pos, p_pc, p_len, consumerVars,
                 sent, got, wrote, read>>

(* Mutant of PushEnd: the position is stored before the last byte is copied. *)
PushEndEarly ==
  /\ p_pc = "copy"
  /\ p_off + 1 = HeadLen + p_len
  /\ w_pos' = Advance(p_pos, 1)
  /\ p_pc' = "idle"
  /\ sent' = Append(sent, [len |-> p_len, at |-> wrote])
  /\ wrote' = wrote + HeadLen + p_len
  /\ UNCHANGED <<mem, r_pos, p_pos, p_off, p_len, consumerVars, got, read>>

(* sq->head->w_pos = pos. *)
PushEnd ==
  /\ p_pc = "copy"
  /\ p_off = HeadLen + p_len
  /\ w_pos' = p_pos
  /\ p_pc' = "idle"
  /\ sent' = Append(sent, [len |-> p_len, at |-> wrote])
  /\ wrote' = wrote + HeadLen + p_len
  /\ UNCHANGED <<mem, r_pos, p_pos, p_off, p_len, consumerVars, got, read>>

(* The producer process dies in the middle of a push and is forked again. *)
ProducerCrash ==
  /\ p_pc = "copy"
  /\ p_pc' = "idle"
  /\ UNCHANGED <<mem, w_pos, r_pos, p_pos, p_off, p_len, consumerVars,
                 sent, got, wrote, read>>

-----------------------------------------------------------------------------
(* The consumer.                                                           *)

(* shmq_pull reads both positions and finds the queue not empty. *)
PullBegin ==
  /\ c_pc = "idle"
  /\ Readable(w_pos, r_pos) # 0
  /\ c_pc' = "head"
  /\ c_pos' = r_pos
  /\ c_buf' = <<>>
  /\ UNCHANGED <<mem, w_pos, r_pos, pull_len, producerVars,
                 sent, got, wrote, read>>

(* sb->len, once the header is copied. *)
SbLen == c_buf[HeadLen].len

(* One byte of the header or body memcpy. *)
PullByte ==
  /\ \/ c_pc = "head" /\ Len(c_buf) < HeadLen
     \/ c_pc = "body" /\ Len(c_buf) < HeadLen + SbLen
  /\ c_buf' = Append(c_buf, mem[Cell(c_pos)])
  /\ c_pos' = Advance(c_pos, 1)
  /\ UNCHANGED <<mem, w_pos, r_pos, c_pc, pull_len, producerVars,
                 sent, got, wrote, read>>

(* The header is read; pull_buf is large enough or realloc makes it so. *)
PullHead ==
  /\ c_pc = "head"
  /\ Len(c_buf) = HeadLen
  /\ c_pc' = "body"
  /\ pull_len' = IF SbLen > pull_len THEN SbLen ELSE pull_len
  /\ UNCHANGED <<mem, w_pos, r_pos, c_pos, c_buf, producerVars,
                 sent, got, wrote, read>>

(* Mutant of PullNoMemory: only the header of the block is skipped. *)
PullNoMemoryHead ==
  /\ c_pc = "head"
  /\ Len(c_buf) = HeadLen
  /\ SbLen > pull_len
  /\ r_pos' = c_pos
  /\ c_pc' = "idle"
  /\ got' = Append(got, <<>>)
  /\ read' = read + HeadLen
  /\ UNCHANGED <<mem, w_pos, c_pos, c_buf, pull_len, producerVars,
                 sent, wrote>>

(* realloc fails: the block is skipped and the pull returns -1. *)
PullNoMemory ==
  /\ c_pc = "head"
  /\ Len(c_buf) = HeadLen
  /\ SbLen > pull_len
  /\ r_pos' = Advance(c_pos, SbLen)
  /\ c_pc' = "idle"
  /\ got' = Append(got, <<>>)
  /\ read' = read + HeadLen + SbLen
  /\ UNCHANGED <<mem, w_pos, c_pos, c_buf, pull_len, producerVars,
                 sent, wrote>>

(* sq->head->r_pos = pos, and the block goes to the caller. *)
PullEnd ==
  /\ c_pc = "body"
  /\ Len(c_buf) = HeadLen + SbLen
  /\ r_pos' = c_pos
  /\ c_pc' = "idle"
  /\ got' = Append(got, c_buf)
  /\ read' = read + HeadLen + SbLen
  /\ UNCHANGED <<mem, w_pos, c_pos, c_buf, pull_len, producerVars,
                 sent, wrote>>

(* The consumer process dies, perhaps in the middle of a pull.  Its        *)
(* successor is forked from the parent and has the parent's pull_buf.      *)
ConsumerCrash ==
  /\ c_pc' = "idle"
  /\ pull_len' = PullInit
  /\ UNCHANGED <<mem, w_pos, r_pos, c_pos, c_buf, producerVars,
                 sent, got, wrote, read>>

-----------------------------------------------------------------------------
Producer == (\E l \in Lens : PushBegin(l)) \/ PushByte \/ PushEnd
Consumer == PullBegin \/ PullByte \/ PullHead \/ PullNoMemory \/ PullEnd

Next == Producer \/ Consumer \/ ProducerCrash \/ ConsumerCrash

Spec == Init /\ [][Next]_vars

(* Properties.                                                             *)

TypeOK ==
  /\ mem \in [Cells -> Bytes]
  /\ w_pos \in 0 .. Size /\ r_pos \in 0 .. Size
  /\ p_pc \in {"idle", "copy"}
  /\ p_pos \in 0 .. Size
  /\ p_off \in Nat /\ p_len \in Nat
  /\ c_pc \in {"idle", "head", "body"}
  /\ c_pos \in 0 .. Size
  /\ c_buf \in Seq(Bytes)
  /\ pull_len \in Nat
  /\ sent \in Seq([len : Nat, at : Nat])
  /\ got \in Seq(Seq(Bytes))
  /\ wrote \in Nat /\ read \in Nat

(* Bytes from position r to cell i, going round. *)
Dist(r, i) == IF i >= r THEN i - r ELSE i - r + Size

(* Bytes published and not yet consumed. *)
Unread == wrote - read

(* The cells a pull may read: those between r_pos and w_pos. *)
Published == {i \in Cells : Dist(r_pos, i) < Unread}

(* A push never writes a cell that the consumer may be reading, whatever   *)
(* the consumer did since the push read r_pos: the check of shmq_push      *)
(* (shmq.cpp:25) protects unread blocks from being overwritten.            *)
NoOverwrite ==
  p_pc = "copy" /\ p_off < HeadLen + p_len => Cell(p_pos) \notin Published

(* Every pull returned the next block pushed, with exactly the bytes and   *)
(* the length it was pushed with, or skipped that block on a failed        *)
(* realloc: no block is torn, duplicated, lost or reordered, with either   *)
(* copy wrapping and with either process dying in the middle of a copy.    *)
IntactFifo ==
  /\ Len(got) <= Len(sent)
  /\ \A k \in 1 .. Len(got) : got[k] \in {<<>>, Block(k, sent[k].len)}

(* The two positions account for exactly the unread bytes: a full ring     *)
(* never looks empty to shmq_pull (shmq.cpp:70) nor an empty one full to   *)
(* shmq_push (shmq.cpp:24), although both use positions 0 and size.        *)
Accounting ==
  /\ Readable(w_pos, r_pos) = Unread
  /\ Space(w_pos, r_pos) = Size - Unread
  /\ (w_pos = r_pos) <=> (Len(got) = Len(sent))

(* The ring is the bounded FIFO of ShmFifo: Put is the store of w_pos,     *)
(* Take the store of r_pos, every other step changes nothing.              *)
Fifo == INSTANCE ShmFifo WITH
  BlockOf <- Block,
  lens    <- [k \in 1 .. Len(sent) |-> sent[k].len],
  pulled  <- got,
  free    <- Size - Unread

ImplementsFifo == Fifo!Spec

=============================================================================
