--------------------------- MODULE ShmRing_proofs ---------------------------
(***************************************************************************)
(* Proofs about ShmRing for every ring size, header length, set of block   *)
(* lengths and number of blocks.                                           *)
(*                                                                         *)
(* The inductive invariant IInv places every block of the stream by its    *)
(* absolute offset (the history field at, the histories wrote and read)    *)
(* and relates a cell to the stream through its distance from r_pos: cell  *)
(* i holds stream byte read + Dist(r_pos, i).  Positions are then plain    *)
(* linear arithmetic, with one case split where a copy wraps.              *)
(***************************************************************************)
EXTENDS ShmRing, SequenceTheorems, TLAPS

-----------------------------------------------------------------------------
(* The inductive invariant.                                                *)

Total(k) == HeadLen + sent[k].len

NextBlock == Len(got) + 1

(* w_pos is Unread bytes after r_pos, and one byte always stays free. *)
Positions ==
  /\ Unread >= 0
  /\ Unread = 0 \/ Unread < Size
  /\ w_pos = Advance(r_pos, Unread)

(* Blocks follow each other in the stream and read stands at a boundary. *)
Stream ==
  /\ Len(got) <= Len(sent)
  /\ \A k \in 1 .. Len(sent) : sent[k].at + Total(k) <= wrote
  /\ \A k, m \in 1 .. Len(sent) : k < m => sent[k].at + Total(k) <= sent[m].at
  /\ \A k \in 1 .. Len(sent) :
       sent[k].at + Total(k) = IF k < Len(sent) THEN sent[k + 1].at ELSE wrote
  /\ read = IF NextBlock <= Len(sent) THEN sent[NextBlock].at ELSE wrote

(* A published cell holds its byte of the stream. *)
Content ==
  \A i \in Cells : Dist(r_pos, i) < Unread =>
    /\ mem[i].blk \in 1 .. Len(sent)
    /\ mem[i].off \in 1 .. Total(mem[i].blk)
    /\ mem[i].len = sent[mem[i].blk].len
    /\ sent[mem[i].blk].at + mem[i].off - 1 = read + Dist(r_pos, i)

(* The block being pushed fits, and its bytes so far lie after w_pos. *)
Pushing ==
  p_pc = "copy" =>
    /\ p_len \in Lens
    /\ p_off <= HeadLen + p_len
    /\ Unread + HeadLen + p_len < Size
    /\ p_pos = Advance(w_pos, p_off)
    /\ \A i \in Cells :
         Unread <= Dist(r_pos, i) /\ Dist(r_pos, i) < Unread + p_off =>
           mem[i] = Byte(Len(sent) + 1, Dist(r_pos, i) - Unread + 1, p_len)

(* What the consumer has copied out is a prefix of the next block. *)
Pulling ==
  c_pc # "idle" =>
    /\ NextBlock <= Len(sent)
    /\ c_pos = Advance(r_pos, Len(c_buf))
    /\ c_pc = "head" => Len(c_buf) <= HeadLen
    /\ c_pc = "body" => Len(c_buf) \in HeadLen .. Total(NextBlock)
    /\ \A j \in 1 .. Len(c_buf) :
         c_buf[j] = Byte(NextBlock, j, sent[NextBlock].len)

IInv == TypeOK /\ Positions /\ Stream /\ Content /\ Pushing /\ Pulling
          /\ IntactFifo

-----------------------------------------------------------------------------
(* Position arithmetic.                                                    *)

(* Advancing stays a position, and advancing twice adds up. *)
LEMMA AdvanceAdds ==
  ASSUME Size \in Nat, NEW pos \in 0 .. Size, NEW m \in Nat, NEW n \in Nat,
         m + n <= Size
  PROVE  /\ Advance(pos, m) \in 0 .. Size
         /\ Advance(Advance(pos, m), n) = Advance(pos, m + n)
BY DEF Advance

(* The cell n bytes after r is the only cell at distance n from r. *)
LEMMA CellAtDist ==
  ASSUME Size \in Nat, NEW r \in 0 .. Size, NEW n \in Nat, n < Size
  PROVE  /\ Cell(Advance(r, n)) \in Cells
         /\ Dist(r, Cell(Advance(r, n))) = n
         /\ \A i \in Cells : Dist(r, i) = n => i = Cell(Advance(r, n))
BY DEF Advance, Cell, Cells, Dist

(* Distances from a position n bytes further on. *)
LEMMA DistAdvance ==
  ASSUME Size \in Nat, NEW r \in 0 .. Size, NEW n \in Nat, n < Size,
         NEW i \in Cells
  PROVE  /\ Dist(r, i) \in 0 .. Size - 1
         /\ Dist(Advance(r, n), i) = IF Dist(r, i) >= n
                                     THEN Dist(r, i) - n
                                     ELSE Dist(r, i) - n + Size
BY DEF Advance, Cells, Dist

(* The two formulas for s measure the unread bytes and their complement. *)
LEMMA SpaceReadable ==
  ASSUME Size \in Nat, NEW r \in 0 .. Size, NEW n \in Nat,
         n = 0 \/ n < Size
  PROVE  /\ Readable(Advance(r, n), r) = n
         /\ Space(Advance(r, n), r) = Size - n
BY DEF Advance, Readable, Space

(* The types of a sent block's fields. *)
LEMMA SentFields ==
  ASSUME TypeOK
  PROVE  \A k \in 1 .. Len(sent) : sent[k].at \in Nat /\ sent[k].len \in Nat
<1> TAKE k \in 1 .. Len(sent)
<1>1. sent[k] \in [len : Nat, at : Nat]
  BY ElementOfSeq DEF TypeOK
<1> QED
  BY <1>1

-----------------------------------------------------------------------------
(* IInv holds initially and every step preserves it.                       *)

LEMMA InitIInv == Init => IInv
<1> SUFFICES ASSUME Init PROVE IInv
  OBVIOUS
<1> USE RingAssumption DEF Init
<1>1. TypeOK
  <2>1. Byte(0, 0, 0) \in Bytes
    BY DEF Byte, Bytes
  <2> QED
    BY <2>1 DEF TypeOK
<1>2. Positions /\ Stream
  BY DEF Positions, Stream, Unread, Advance, NextBlock
<1>3. Content
  <2>1. \A i \in Cells : Dist(r_pos, i) \in Nat
    BY DEF Cells, Dist
  <2> QED
    BY <2>1 DEF Content, Unread
<1>4. Pushing /\ Pulling /\ IntactFifo
  BY DEF Pushing, Pulling, IntactFifo
<1> QED
  BY <1>1, <1>2, <1>3, <1>4 DEF IInv

(* The load and check of shmq_push. *)
LEMMA PushBeginStep ==
  ASSUME IInv, NEW l \in Lens, PushBegin(l)
  PROVE  IInv'
<1> USE RingAssumption DEF IInv, PushBegin, consumerVars
<1>1. TypeOK'
  BY DEF TypeOK
<1>2. Positions' /\ Stream' /\ Content' /\ IntactFifo' /\ Pulling'
  BY DEF Positions, Stream, Content, IntactFifo, Pulling, Unread, Total,
         NextBlock, SbLen
<1>3. Pushing'
  <2>1. Space(w_pos, r_pos) = Size - Unread
    BY SpaceReadable DEF TypeOK, Positions, Unread
  <2> QED
    BY <2>1 DEF TypeOK, Pushing, Unread, Advance, Positions, Cells, Dist
<1> QED
  BY <1>1, <1>2, <1>3

(* One byte of a push goes to a cell outside the published ones. *)
LEMMA PushByteStep ==
  ASSUME IInv, PushByte
  PROVE  IInv'
<1> DEFINE target == Cell(p_pos)
           end == Unread + p_off
<1> USE RingAssumption
<1>1. /\ p_off \in Nat /\ p_len \in Nat /\ HeadLen \in Nat
      /\ Unread \in Nat /\ end \in Nat /\ end + 1 < Size
      /\ p_pos = Advance(r_pos, end)
  <2>1. Unread \in Nat /\ p_off \in Nat /\ p_len \in Nat
    BY DEF IInv, TypeOK, Positions, Unread
  <2>2. end + 1 < Size
    BY <2>1 DEF IInv, Pushing, PushByte
  <2>3. p_pos = Advance(w_pos, p_off) /\ w_pos = Advance(r_pos, Unread)
    BY DEF IInv, Pushing, Positions, PushByte
  <2> QED
    BY <2>1, <2>2, <2>3, AdvanceAdds DEF IInv, TypeOK
<1>2. /\ target \in Cells
      /\ Dist(r_pos, target) = end
      /\ \A i \in Cells : Dist(r_pos, i) = end => i = target
  BY <1>1, CellAtDist DEF IInv, TypeOK
<1>3. \A i \in Cells : i # target => mem'[i] = mem[i]
  BY <1>2 DEF PushByte, IInv, TypeOK
<1>4. mem'[target] = Byte(Len(sent) + 1, p_off + 1, p_len)
  BY <1>2 DEF PushByte, IInv, TypeOK
<1>5. TypeOK'
  <2>1. Advance(p_pos, 1) \in 0 .. Size
    BY <1>1, AdvanceAdds DEF IInv, TypeOK
  <2>2. Byte(Len(sent) + 1, p_off + 1, p_len) \in Bytes
    BY <1>1 DEF Byte, Bytes, IInv, TypeOK
  <2> QED
    BY <1>1, <1>2, <2>1, <2>2 DEF IInv, TypeOK, PushByte, consumerVars
<1>6. Positions' /\ Stream' /\ IntactFifo' /\ Pulling'
  BY DEF IInv, PushByte, consumerVars, Positions, Stream, IntactFifo, Pulling,
         Unread, Total, NextBlock
<1>7. Content'
  <2>1. /\ r_pos' = r_pos /\ sent' = sent /\ read' = read
        /\ Unread' = Unread
    BY DEF PushByte, Unread
  <2>2. \A i \in Cells : Dist(r_pos, i) < Unread => mem'[i] = mem[i]
    BY <1>1, <1>2, <1>3
  <2> QED
    BY <2>1, <2>2 DEF IInv, Content, Total
<1>8. Pushing'
  <2>1. UNCHANGED <<p_pc, p_len, w_pos, r_pos, sent, wrote, read>>
    BY DEF PushByte
  <2>2. p_pos' = Advance(w_pos, p_off + 1)
    BY <1>1, AdvanceAdds DEF IInv, TypeOK, Pushing, PushByte
  <2>3. \A i \in Cells : Dist(r_pos, i) \in Int
    BY DEF Cells, Dist, IInv, TypeOK
  <2>4. \A i \in Cells :
          Unread <= Dist(r_pos, i) /\ Dist(r_pos, i) < Unread + p_off + 1 =>
            mem'[i] = Byte(Len(sent) + 1, Dist(r_pos, i) - Unread + 1, p_len)
    <3> SUFFICES ASSUME NEW i \in Cells, Unread <= Dist(r_pos, i),
                        Dist(r_pos, i) < Unread + p_off + 1
                 PROVE  mem'[i] = Byte(Len(sent) + 1,
                                       Dist(r_pos, i) - Unread + 1, p_len)
      OBVIOUS
    <3>1. CASE Dist(r_pos, i) = end
      BY <1>1, <1>2, <1>4, <3>1
    <3>2. CASE Dist(r_pos, i) < end
      BY <1>1, <1>2, <1>3, <2>3, <3>2 DEF IInv, Pushing, PushByte
    <3> QED
      BY <1>1, <2>3, <3>1, <3>2
  <2>5. p_off + 1 <= HeadLen + p_len /\ p_off' = p_off + 1
    BY <1>1 DEF PushByte
  <2> QED
    BY <1>1, <2>1, <2>2, <2>4, <2>5 DEF IInv, Pushing, PushByte, Unread
<1> QED
  BY <1>5, <1>6, <1>7, <1>8 DEF IInv

(* Publishing a block: the bytes copied become published ones. *)
LEMMA PushEndStep ==
  ASSUME IInv, PushEnd
  PROVE  IInv'
<1> DEFINE n == HeadLen + p_len
           blk == [len |-> p_len, at |-> wrote]
<1> USE RingAssumption
<1>1. /\ p_len \in Nat /\ wrote \in Nat /\ read \in Nat /\ HeadLen \in Nat
      /\ Unread \in Nat /\ Unread + n < Size /\ n \in Nat
      /\ p_off = n
      /\ Len(sent) \in Nat /\ Len(got) \in Nat
      /\ \A k \in 1 .. Len(sent) : sent[k].at \in Nat /\ sent[k].len \in Nat
  <2>1. /\ p_len \in Nat /\ wrote \in Nat /\ read \in Nat /\ HeadLen \in Nat
        /\ Len(sent) \in Nat /\ Len(got) \in Nat
    BY LenProperties DEF IInv, TypeOK
  <2>2. Unread \in Nat
    BY <2>1 DEF IInv, Positions, Unread
  <2>3. p_off = n /\ Unread + HeadLen + p_len < Size
    BY DEF IInv, Pushing, PushEnd
  <2>4. \A k \in 1 .. Len(sent) : sent[k].at \in Nat /\ sent[k].len \in Nat
    BY SentFields DEF IInv
  <2> QED
    BY <2>1, <2>2, <2>3, <2>4
<1>2. /\ sent \in Seq([len : Nat, at : Nat])
      /\ blk \in [len : Nat, at : Nat]
      /\ sent' = Append(sent, blk)
  BY <1>1 DEF IInv, TypeOK, PushEnd
<1>3. /\ Len(sent') = Len(sent) + 1
      /\ sent'[Len(sent) + 1].len = p_len
      /\ sent'[Len(sent) + 1].at = wrote
      /\ \A k \in 1 .. Len(sent) : sent'[k] = sent[k]
  <2>1. /\ Len(sent') = Len(sent) + 1
        /\ sent'[Len(sent) + 1] = blk
        /\ \A k \in 1 .. Len(sent) : sent'[k] = sent[k]
    BY <1>2, AppendProperties
  <2> QED
    BY <2>1
<1>4. /\ Unread' = Unread + n
      /\ mem' = mem /\ r_pos' = r_pos /\ read' = read /\ got' = got
      /\ c_pc' = c_pc /\ c_pos' = c_pos /\ c_buf' = c_buf
      /\ pull_len' = pull_len
      /\ p_off' = p_off /\ p_len' = p_len /\ p_pos' = p_pos
      /\ w_pos' = p_pos /\ p_pc' = "idle" /\ wrote' = wrote + n
  <2>1. /\ mem' = mem /\ r_pos' = r_pos /\ read' = read /\ got' = got
        /\ c_pc' = c_pc /\ c_pos' = c_pos /\ c_buf' = c_buf
        /\ pull_len' = pull_len
        /\ p_off' = p_off /\ p_len' = p_len /\ p_pos' = p_pos
        /\ w_pos' = p_pos /\ p_pc' = "idle"
    BY DEF PushEnd, consumerVars
  <2>2. wrote' = wrote + n
    BY <1>1 DEF PushEnd
  <2>3. Unread' = Unread + n
    BY <1>1, <2>1, <2>2 DEF Unread
  <2> QED
    BY <2>1, <2>2, <2>3
<1>5. TypeOK'
  <2>1. sent' \in Seq([len : Nat, at : Nat])
    BY <1>2, AppendProperties
  <2> QED
    BY <1>1, <1>4, <2>1 DEF IInv, TypeOK
<1>6. Positions'
  <2>1. p_pos = Advance(w_pos, n) /\ w_pos = Advance(r_pos, Unread)
    BY <1>1 DEF IInv, Positions, Pushing, PushEnd
  <2>2. p_pos = Advance(r_pos, Unread + n)
    BY <1>1, <2>1, AdvanceAdds DEF IInv, TypeOK
  <2> QED
    BY <1>1, <1>4, <2>2 DEF Positions, Advance
<1>7. Stream'
  <2>1. \A k \in 1 .. Len(sent) : sent[k].at + (HeadLen + sent[k].len) <= wrote
    BY <1>1 DEF IInv, Stream, Total
  <2>2. \A k \in 1 .. Len(sent') :
          sent'[k].at + (HeadLen + sent'[k].len) <= wrote + n
    <3> SUFFICES ASSUME NEW k \in 1 .. Len(sent')
                 PROVE  sent'[k].at + (HeadLen + sent'[k].len) <= wrote + n
      OBVIOUS
    <3>1. CASE k = Len(sent) + 1
      BY <1>1, <1>3, <3>1
    <3>2. CASE k \in 1 .. Len(sent)
      <4>1. sent[k].at + (HeadLen + sent[k].len) <= wrote /\ sent'[k] = sent[k]
        BY <1>3, <2>1, <3>2
      <4>2. sent[k].at \in Nat /\ sent[k].len \in Nat
        BY <1>1, <3>2
      <4>3. wrote <= wrote + n /\ wrote \in Nat /\ n \in Nat /\ HeadLen \in Nat
        BY <1>1
      <4> HIDE DEF n
      <4> QED
        BY <4>1, <4>2, <4>3
    <3>3. Len(sent) \in Nat /\ Len(sent') = Len(sent) + 1
      BY <1>1, <1>3
    <3>4. k = Len(sent) + 1 \/ k \in 1 .. Len(sent)
      BY <3>3
    <3> QED
      BY <3>1, <3>2, <3>4
  <2>3. \A k, m \in 1 .. Len(sent') : k < m =>
          sent'[k].at + (HeadLen + sent'[k].len) <= sent'[m].at
    <3> SUFFICES ASSUME NEW k \in 1 .. Len(sent'), NEW m \in 1 .. Len(sent'),
                        k < m
                 PROVE  sent'[k].at + (HeadLen + sent'[k].len) <= sent'[m].at
      OBVIOUS
    <3>1. k \in 1 .. Len(sent) /\ sent'[k] = sent[k]
      BY <1>1, <1>3
    <3>2. CASE m = Len(sent) + 1
      BY <1>3, <2>1, <3>1, <3>2
    <3>3. CASE m \in 1 .. Len(sent)
      BY <1>3, <3>1, <3>3 DEF IInv, Stream, Total
    <3>4. Len(sent) \in Nat /\ Len(sent') = Len(sent) + 1
      BY <1>1, <1>3
    <3>5. m = Len(sent) + 1 \/ m \in 1 .. Len(sent)
      BY <3>4
    <3> QED
      BY <3>2, <3>3, <3>5
  <2>4. \A k \in 1 .. Len(sent') :
          sent'[k].at + (HeadLen + sent'[k].len) =
            IF k < Len(sent') THEN sent'[k + 1].at ELSE wrote + n
    <3> SUFFICES ASSUME NEW k \in 1 .. Len(sent')
                 PROVE  sent'[k].at + (HeadLen + sent'[k].len) =
                          IF k < Len(sent') THEN sent'[k + 1].at ELSE wrote + n
      OBVIOUS
    <3>1. CASE k = Len(sent) + 1
      BY <1>1, <1>3, <3>1
    <3>2. CASE k = Len(sent)
      BY <1>1, <1>3, <3>2, SMTT(60) DEF IInv, Stream, Total
    <3>3. CASE k \in 1 .. Len(sent) - 1
      BY <1>1, <1>3, <3>3, SMTT(30) DEF IInv, Stream, Total
    <3> QED
      BY <1>1, <1>3, <3>1, <3>2, <3>3
  <2>5. read = IF NextBlock <= Len(sent') THEN sent'[NextBlock].at
                                          ELSE wrote + n
    BY <1>1, <1>3 DEF IInv, Stream, NextBlock
  <2>6. Len(got) <= Len(sent')
    BY <1>1, <1>3 DEF IInv, Stream
  <2> QED
    BY <1>4, <2>2, <2>3, <2>4, <2>5, <2>6 DEF Stream, NextBlock, Total
<1>8. Content'
  <2> SUFFICES ASSUME NEW i \in Cells, Dist(r_pos, i) < Unread + n
               PROVE  /\ mem[i].blk \in 1 .. Len(sent')
                      /\ mem[i].off \in 1 .. HeadLen + sent'[mem[i].blk].len
                      /\ mem[i].len = sent'[mem[i].blk].len
                      /\ sent'[mem[i].blk].at + mem[i].off - 1
                           = read + Dist(r_pos, i)
    BY <1>4 DEF Content, Total
  <2>1. Dist(r_pos, i) \in Nat
    BY <1>1, DistAdvance DEF IInv, TypeOK, Cells, Dist
  <2>2. CASE Dist(r_pos, i) < Unread
    <3>1. /\ mem[i].blk \in 1 .. Len(sent)
          /\ mem[i].off \in 1 .. HeadLen + sent[mem[i].blk].len
          /\ mem[i].len = sent[mem[i].blk].len
          /\ sent[mem[i].blk].at + mem[i].off - 1 = read + Dist(r_pos, i)
      BY <2>2 DEF IInv, Content, Total
    <3> QED
      BY <1>1, <1>3, <3>1, SMTT(30)
  <2>3. CASE Dist(r_pos, i) >= Unread
    <3>1. mem[i] = Byte(Len(sent) + 1, Dist(r_pos, i) - Unread + 1, p_len)
      BY <1>1, <2>1, <2>3 DEF IInv, Pushing, PushEnd
    <3>2. /\ mem[i].blk = Len(sent) + 1
          /\ mem[i].off = Dist(r_pos, i) - Unread + 1
          /\ mem[i].len = p_len
      BY <3>1 DEF Byte
    <3> QED
      BY <1>1, <1>3, <2>1, <2>3, <3>2, SMTT(30) DEF Unread
  <2> QED
    BY <1>1, <2>1, <2>2, <2>3
<1>9. Pushing'
  BY <1>4 DEF Pushing
<1>10. Pulling'
  <2>1. c_pc # "idle" => NextBlock \in 1 .. Len(sent)
    BY <1>1 DEF IInv, Pulling, NextBlock
  <2> QED
    BY <1>1, <1>3, <1>4, <2>1 DEF IInv, Pulling, NextBlock, Total
<1>11. IntactFifo'
  <2>1. Len(got) <= Len(sent')
    BY <1>1, <1>3 DEF IInv, Stream
  <2>2. \A k \in 1 .. Len(got) : sent'[k] = sent[k]
    BY <1>1, <1>3 DEF IInv, Stream
  <2>3. \A k \in 1 .. Len(got) : got[k] \in {<<>>, Block(k, sent'[k].len)}
    BY <2>2 DEF IInv, IntactFifo
  <2> QED
    BY <1>4, <2>1, <2>3 DEF IntactFifo
<1> QED
  BY <1>5, <1>6, <1>7, <1>8, <1>9, <1>10, <1>11 DEF IInv

(* The positions and histories stay; only process-local state changes. *)
LEMMA ProducerCrashStep ==
  ASSUME IInv, ProducerCrash
  PROVE  IInv'
BY RingAssumption DEF IInv, ProducerCrash, consumerVars, TypeOK, Positions,
   Stream, Content, Pushing, Pulling, IntactFifo, Unread, NextBlock, Total

-----------------------------------------------------------------------------
(* The consumer's steps.                                                   *)

(* Plain facts about the block being pulled. *)
LEMMA NextFacts ==
  ASSUME IInv, NextBlock <= Len(sent)
  PROVE  /\ NextBlock \in 1 .. Len(sent)
         /\ sent[NextBlock].len \in Nat /\ sent[NextBlock].at \in Nat
         /\ Total(NextBlock) \in Nat /\ Total(NextBlock) >= HeadLen
         /\ Total(NextBlock) > 0
         /\ read = sent[NextBlock].at
         /\ Unread \in Nat /\ Unread < Size
         /\ Total(NextBlock) <= Unread
<1> USE RingAssumption
<1>1. NextBlock \in 1 .. Len(sent)
  BY LenProperties DEF IInv, TypeOK, NextBlock
<1>2. sent[NextBlock].len \in Nat /\ sent[NextBlock].at \in Nat
  BY <1>1, SentFields DEF IInv
<1>3. /\ Total(NextBlock) \in Nat /\ Total(NextBlock) >= HeadLen
      /\ Total(NextBlock) > 0
  <2>1. HeadLen \in Nat /\ HeadLen > 0
    OBVIOUS
  <2> QED
    BY <1>2, <2>1 DEF Total
<1>4. read = sent[NextBlock].at /\ sent[NextBlock].at + Total(NextBlock) <= wrote
  BY <1>1 DEF IInv, Stream
<1>5. Unread \in Nat /\ Total(NextBlock) <= Unread
  <2>1. wrote \in Nat /\ read \in Nat
    BY DEF IInv, TypeOK
  <2> QED
    BY <1>2, <1>3, <1>4, <2>1 DEF Unread
<1>6. Unread < Size
  BY <1>3, <1>5 DEF IInv, Positions
<1> QED
  BY <1>1, <1>2, <1>3, <1>4, <1>5, <1>6

(* The next byte a pull copies is the next byte of the block.  The cell is *)
(* a published one, and of all the blocks only the next covers that        *)
(* offset of the stream.                                                   *)
LEMMA NextByte ==
  ASSUME IInv, c_pc # "idle", Len(c_buf) < Total(NextBlock)
  PROVE  /\ Cell(c_pos) \in Cells
         /\ mem[Cell(c_pos)] =
              Byte(NextBlock, Len(c_buf) + 1, sent[NextBlock].len)
<1> DEFINE d == Len(c_buf)
           b == mem[Cell(c_pos)]
           nb == NextBlock
<1> USE RingAssumption
<1>1. NextBlock <= Len(sent) /\ c_pos = Advance(r_pos, d)
  BY DEF IInv, Pulling
<1>2. d \in Nat
  BY LenProperties DEF IInv, TypeOK
<1>3. d < Unread /\ d < Size
  BY <1>1, <1>2, NextFacts
<1>4. Cell(c_pos) \in Cells /\ Dist(r_pos, Cell(c_pos)) = d
  BY <1>1, <1>2, <1>3, CellAtDist DEF IInv, TypeOK
<1>5. /\ b.blk \in 1 .. Len(sent)
      /\ b.off \in 1 .. Total(b.blk)
      /\ b.len = sent[b.blk].len
      /\ sent[b.blk].at + b.off - 1 = read + d
  BY <1>3, <1>4 DEF IInv, Content
<1>6. sent[b.blk].at \in Nat /\ sent[b.blk].len \in Nat
  BY <1>5, SentFields DEF IInv
<1>7. Total(b.blk) \in Nat
  BY <1>6 DEF Total
<1>8. b.off \in Nat /\ 1 <= b.off /\ b.off <= Total(b.blk)
  BY <1>5, <1>7
<1>9. nb \in 1 .. Len(sent) /\ sent[nb].at \in Nat /\ Total(nb) \in Nat
  BY <1>1, NextFacts
<1>10. sent[b.blk].at + b.off - 1 = sent[nb].at + d
  BY <1>1, <1>5, NextFacts
<1>11. b.blk < nb => sent[b.blk].at + Total(b.blk) <= sent[nb].at
  BY <1>5, <1>9 DEF IInv, Stream
<1>12. nb < b.blk => sent[nb].at + Total(nb) <= sent[b.blk].at
  BY <1>5, <1>9 DEF IInv, Stream
<1> HIDE DEF d, b, nb
<1>13. ~ (b.blk < nb)
  <2> DEFINE x == sent[b.blk].at  t == Total(b.blk)  y == sent[nb].at  o == b.off
  <2>1. x \in Nat /\ t \in Nat /\ y \in Nat /\ o \in Nat /\ d \in Nat
        /\ o <= t /\ x + o - 1 = y + d
    BY <1>2, <1>6, <1>7, <1>8, <1>9, <1>10
  <2>2. b.blk < nb => x + t <= y
    BY <1>11
  <2> HIDE DEF x, t, y, o
  <2>3. ~(x + t <= y)
    BY <2>1
  <2> QED BY <2>2, <2>3
<1>14. ~ (nb < b.blk)
  <2>1. d < Total(nb)
    BY DEF d, nb
  <2> QED
    BY <1>2, <1>6, <1>8, <1>9, <1>10, <1>12, <2>1, SMTT(60)
<1>15. b.blk = nb
  BY <1>5, <1>9, <1>13, <1>14
<1>16. b.off = d + 1
  BY <1>2, <1>8, <1>9, <1>10, <1>15
<1>17. b \in Bytes
  BY <1>4 DEF IInv, TypeOK, b
<1>18. b = Byte(nb, d + 1, sent[nb].len)
  BY <1>5, <1>15, <1>16, <1>17 DEF Byte, Bytes
<1> QED
  BY <1>4, <1>18 DEF b, d, nb

(* Once the header is copied, SbLen is the length the block was sent with. *)
LEMMA HeaderRead ==
  ASSUME IInv, c_pc # "idle", HeadLen <= Len(c_buf)
  PROVE  SbLen = sent[NextBlock].len
<1>1. HeadLen \in 1 .. Len(c_buf)
  BY RingAssumption, LenProperties DEF IInv, TypeOK
<1>2. c_buf[HeadLen] = Byte(NextBlock, HeadLen, sent[NextBlock].len)
  BY <1>1 DEF IInv, Pulling
<1> QED
  BY <1>2 DEF SbLen, Byte

(* The load and check of shmq_pull: unread bytes mean an unread block. *)
LEMMA PullBeginStep ==
  ASSUME IInv, PullBegin
  PROVE  IInv'
<1> USE RingAssumption
<1>1. /\ c_pos' = r_pos /\ c_buf' = <<>> /\ c_pc' = "head"
      /\ UNCHANGED <<mem, w_pos, r_pos, pull_len, p_pc, p_pos, p_off, p_len>>
      /\ UNCHANGED <<sent, got, wrote, read>>
  BY DEF PullBegin, producerVars
<1>2. TypeOK'
  BY <1>1 DEF IInv, TypeOK
<1>3. Positions' /\ Stream' /\ Content' /\ Pushing' /\ IntactFifo'
  BY <1>1 DEF IInv, Positions, Stream, Content, Pushing, IntactFifo, Unread,
              Total, NextBlock
<1>4. Pulling'
  <2>1. Unread # 0
    <3>1. Readable(w_pos, r_pos) = Unread
      BY SpaceReadable DEF IInv, TypeOK, Positions, Unread
    <3> QED
      BY <3>1 DEF PullBegin
  <2>2. NextBlock <= Len(sent)
    BY <2>1 DEF IInv, Stream, Unread, TypeOK
  <2>3. Advance(r_pos, 0) = r_pos
    BY DEF IInv, TypeOK, Advance
  <2> QED
    BY <1>1, <2>2, <2>3 DEF Pulling, NextBlock
<1> QED
  BY <1>2, <1>3, <1>4 DEF IInv

(* One byte of a pull: the copy stays a prefix of the block. *)
LEMMA PullByteStep ==
  ASSUME IInv, PullByte
  PROVE  IInv'
<1> DEFINE cell == Cell(c_pos)
           d == Len(c_buf)
           l == sent[NextBlock].len
<1> USE RingAssumption
<1>1. c_pc # "idle" /\ NextBlock <= Len(sent) /\ d \in Nat
  BY LenProperties DEF PullByte, IInv, Pulling, TypeOK
<1>2. /\ c_pc = "head" => d < HeadLen
      /\ c_pc = "body" => HeadLen <= d /\ d < Total(NextBlock)
  BY <1>1, HeaderRead DEF PullByte, IInv, Pulling, TypeOK, Total
<1>3. d < Total(NextBlock) /\ c_pc \in {"head", "body"}
  BY <1>1, <1>2, NextFacts DEF IInv, TypeOK
<1>4. cell \in Cells /\ mem[cell] = Byte(NextBlock, d + 1, l)
  BY <1>1, <1>3, NextByte
<1>5. /\ c_buf' = Append(c_buf, mem[cell])
      /\ c_pos' = Advance(c_pos, 1)
      /\ UNCHANGED <<mem, w_pos, r_pos, c_pc, pull_len>>
      /\ UNCHANGED <<p_pc, p_pos, p_off, p_len>>
      /\ UNCHANGED <<sent, got, wrote, read>>
  BY DEF PullByte, producerVars
<1>6. /\ c_buf \in Seq(Bytes) /\ mem[cell] \in Bytes
      /\ c_pos \in 0 .. Size /\ r_pos \in 0 .. Size
  BY <1>4 DEF IInv, TypeOK
<1>7. /\ c_buf' \in Seq(Bytes)
      /\ Len(c_buf') = d + 1
      /\ c_buf'[d + 1] = mem[cell]
      /\ \A j \in 1 .. d : c_buf'[j] = c_buf[j]
  BY <1>5, <1>6, AppendProperties
<1>8. c_pos' = Advance(r_pos, d + 1) /\ c_pos' \in 0 .. Size
  <2>1. d + 1 < Size
    BY <1>1, <1>3, NextFacts
  <2>2. c_pos = Advance(r_pos, d)
    BY <1>1 DEF IInv, Pulling
  <2> QED
    BY <1>1, <1>5, <1>6, <2>1, <2>2, AdvanceAdds
<1>9. TypeOK'
  BY <1>5, <1>7, <1>8 DEF IInv, TypeOK
<1>10. Positions' /\ Stream' /\ Content' /\ Pushing' /\ IntactFifo'
  BY <1>5 DEF IInv, Positions, Stream, Content, Pushing, IntactFifo, Unread,
              Total, NextBlock
<1>11. Pulling'
  <2>1. \A j \in 1 .. d + 1 : c_buf'[j] = Byte(NextBlock, j, l)
    BY <1>1, <1>4, <1>7 DEF IInv, Pulling
  <2>2. NextBlock' = NextBlock /\ Total(NextBlock)' = Total(NextBlock)
    BY <1>5 DEF NextBlock, Total
  <2> QED
    BY <1>1, <1>2, <1>3, <1>5, <1>7, <1>8, <2>1, <2>2, NextFacts DEF Pulling
<1> QED
  BY <1>9, <1>10, <1>11 DEF IInv

(* The header is complete: only the buffer may have to grow. *)
LEMMA PullHeadStep ==
  ASSUME IInv, PullHead
  PROVE  IInv'
<1> USE RingAssumption
<1>1. /\ c_pc = "head" /\ Len(c_buf) = HeadLen /\ c_pc' = "body"
      /\ pull_len' = IF SbLen > pull_len THEN SbLen ELSE pull_len
      /\ UNCHANGED <<mem, w_pos, r_pos, c_pos, c_buf>>
      /\ UNCHANGED <<p_pc, p_pos, p_off, p_len>>
      /\ UNCHANGED <<sent, got, wrote, read>>
  BY DEF PullHead, producerVars
<1>2. NextBlock <= Len(sent)
  BY <1>1 DEF IInv, Pulling
<1>3. SbLen \in Nat
  BY <1>1, <1>2, HeaderRead, NextFacts
<1>4. TypeOK'
  BY <1>1, <1>3 DEF IInv, TypeOK
<1>5. Positions' /\ Stream' /\ Content' /\ Pushing' /\ IntactFifo'
  BY <1>1 DEF IInv, Positions, Stream, Content, Pushing, IntactFifo, Unread,
              Total, NextBlock
<1>6. Pulling'
  <2>1. HeadLen \in HeadLen .. Total(NextBlock)
    BY <1>2, NextFacts
  <2>2. NextBlock' = NextBlock /\ Total(NextBlock)' = Total(NextBlock)
    BY <1>1 DEF NextBlock, Total
  <2> QED
    BY <1>1, <1>2, <2>1, <2>2 DEF IInv, Pulling
<1> QED
  BY <1>4, <1>5, <1>6 DEF IInv

(* A cell at distance d is at distance e once r_pos has moved n cells: a   *)
(* distance below the unread bytes that are left, or between them and the  *)
(* end of what a push has written, has simply become n smaller.            *)
LEMMA Moved ==
  ASSUME NEW size \in Nat, NEW d \in Nat, NEW e \in Int, NEW n \in Nat,
         NEW u \in Nat, NEW m \in Nat,
         d < size, n <= u, u + m < size,
         e = IF d >= n THEN d - n ELSE d - n + size
  PROVE  e < u - n + m => e = d - n
<1>1. CASE d >= n
  BY <1>1
<1>2. CASE ~(d >= n)
  BY <1>2
<1> QED BY <1>1, <1>2

(* Moving r_pos past the next block, whether it is handed out or skipped. *)
LEMMA Consume ==
  ASSUME IInv, NextBlock <= Len(sent),
         r_pos' = Advance(r_pos, Total(NextBlock)),
         read' = read + Total(NextBlock),
         Len(got') = Len(got) + 1,
         UNCHANGED <<mem, w_pos, sent, wrote>>,
         UNCHANGED <<p_pc, p_pos, p_off, p_len>>
  PROVE  Positions' /\ Stream' /\ Content' /\ Pushing'
<1> DEFINE n == Total(NextBlock)
<1> USE RingAssumption
<1>1. /\ n \in Nat /\ n > 0 /\ Unread \in Nat /\ n <= Unread /\ Unread < Size
      /\ NextBlock \in 1 .. Len(sent) /\ read = sent[NextBlock].at
  BY NextFacts
<1>2. /\ wrote \in Nat /\ read \in Nat /\ Len(got) \in Nat /\ Len(sent) \in Nat
      /\ r_pos \in 0 .. Size
  BY LenProperties DEF IInv, TypeOK
<1>3. mem' = mem /\ w_pos' = w_pos /\ sent' = sent /\ wrote' = wrote
  OBVIOUS
<1>4. Unread' = Unread - n
  BY <1>1, <1>2, <1>3 DEF Unread
<1>5. Positions'
  <2>1. Advance(Advance(r_pos, n), Unread - n) = Advance(r_pos, Unread)
    BY <1>1, <1>2, AdvanceAdds
  <2>2. w_pos = Advance(r_pos, Unread)
    BY DEF IInv, Positions
  <2>3. w_pos' = Advance(r_pos', Unread')
    BY <1>3, <1>4, <2>1, <2>2
  <2> QED
    BY <1>1, <1>4, <2>3 DEF Positions, Advance
<1>6. Stream'
  <2>1. NextBlock' = NextBlock + 1
    BY <1>2 DEF NextBlock
  <2>2. sent[NextBlock].at + n =
          IF NextBlock < Len(sent) THEN sent[NextBlock + 1].at ELSE wrote
    BY <1>1 DEF IInv, Stream
  <2>3. read' = IF NextBlock + 1 <= Len(sent) THEN sent[NextBlock + 1].at
                                              ELSE wrote
    BY <1>1, <1>2, <2>2
  <2>4. Len(got') <= Len(sent)
    BY <1>1, <1>2 DEF NextBlock
  <2> QED
    BY <1>3, <2>1, <2>3, <2>4 DEF IInv, Stream, Total
<1>7. \A i \in Cells :
        /\ Dist(r_pos, i) \in 0 .. Size - 1
        /\ Dist(r_pos', i) = IF Dist(r_pos, i) >= n
                             THEN Dist(r_pos, i) - n
                             ELSE Dist(r_pos, i) - n + Size
  <2> TAKE i \in Cells
  <2>1. n < Size /\ r_pos' = Advance(r_pos, n)
    BY <1>1
  <2> QED
    BY <1>1, <1>2, <2>1, DistAdvance
<1>8. Content'
  <2> SUFFICES ASSUME NEW i \in Cells, Dist(r_pos', i) < Unread - n
               PROVE  /\ mem[i].blk \in 1 .. Len(sent)
                      /\ mem[i].off \in 1 .. Total(mem[i].blk)
                      /\ mem[i].len = sent[mem[i].blk].len
                      /\ sent[mem[i].blk].at + mem[i].off - 1
                           = read' + Dist(r_pos', i)
    BY <1>3, <1>4 DEF Content, Total
  <2>1. /\ Dist(r_pos, i) < Unread
        /\ read + Dist(r_pos, i) = read' + Dist(r_pos', i)
    <3>1. /\ Dist(r_pos, i) \in 0 .. Size - 1
          /\ Dist(r_pos', i) = IF Dist(r_pos, i) >= n
                               THEN Dist(r_pos, i) - n
                               ELSE Dist(r_pos, i) - n + Size
      BY <1>7
    <3> DEFINE d == Dist(r_pos, i)  e == Dist(r_pos', i)
    <3>2. /\ d \in Nat /\ d < Size /\ e \in Int /\ e < Unread - n
          /\ e = IF d >= n THEN d - n ELSE d - n + Size
      BY <1>1, <3>1
    <3>3. read' = read + n /\ read \in Int /\ Unread + 0 < Size /\ 0 \in Nat
      BY <1>1, <1>2
    <3> HIDE DEF d, e, n
    <3>4. e = d - n
      BY <1>1, <3>2, <3>3, Moved
    <3>5. d < Unread
      BY <1>1, <3>2, <3>4
    <3>6. read + d = read' + e
      <4>1. \A x, y, m \in Int : \A z, w : z = x + m /\ w = y - m => x + y = z + w
        OBVIOUS
      <4>2. n \in Int /\ d \in Int
        BY <1>1, <3>2
      <4> QED BY <3>3, <3>4, <4>1, <4>2
    <3> QED
      BY <3>5, <3>6 DEF d, e
  <2> QED
    BY <2>1 DEF IInv, Content
<1>9. Pushing'
  <2> SUFFICES ASSUME p_pc = "copy"
               PROVE  /\ Unread - n + HeadLen + p_len < Size
                      /\ \A i \in Cells :
                           Unread - n <= Dist(r_pos', i)
                           /\ Dist(r_pos', i) < Unread - n + p_off =>
                             mem[i] = Byte(Len(sent) + 1,
                                Dist(r_pos', i) - (Unread - n) + 1, p_len)
    BY <1>3, <1>4 DEF IInv, Pushing
  <2>1. /\ p_len \in Nat /\ p_off \in Nat /\ HeadLen \in Nat
        /\ p_off <= HeadLen + p_len /\ Unread + HeadLen + p_len < Size
    BY DEF IInv, TypeOK, Pushing
  <2>2. ASSUME NEW i \in Cells, Unread - n <= Dist(r_pos', i),
               Dist(r_pos', i) < Unread - n + p_off
        PROVE  mem[i] = Byte(Len(sent) + 1,
                             Dist(r_pos', i) - (Unread - n) + 1, p_len)
    <3>1. /\ Unread <= Dist(r_pos, i) /\ Dist(r_pos, i) < Unread + p_off
          /\ Dist(r_pos', i) - (Unread - n) = Dist(r_pos, i) - Unread
      <4>1. /\ Dist(r_pos, i) \in 0 .. Size - 1
            /\ Dist(r_pos', i) = IF Dist(r_pos, i) >= n
                                 THEN Dist(r_pos, i) - n
                                 ELSE Dist(r_pos, i) - n + Size
        BY <1>7
      <4> DEFINE d == Dist(r_pos, i)  e == Dist(r_pos', i)
      <4>2. /\ d \in Nat /\ d < Size /\ e \in Int
            /\ e = IF d >= n THEN d - n ELSE d - n + Size
            /\ Unread - n <= e /\ e < Unread - n + p_off
        BY <1>1, <2>2, <4>1
      <4>3. Unread + p_off < Size
        BY <1>1, <2>1
      <4> HIDE DEF d, e, n
      <4>4. e = d - n
        BY <1>1, <2>1, <4>2, <4>3, Moved
      <4>5. Unread <= d /\ d < Unread + p_off /\ e - (Unread - n) = d - Unread
        BY <1>1, <2>1, <4>2, <4>4
      <4> QED
        BY <4>5 DEF d, e
    <3>2. mem[i] = Byte(Len(sent) + 1, Dist(r_pos, i) - Unread + 1, p_len)
      BY <3>1 DEF IInv, Pushing
    <3> QED
      BY <3>1, <3>2
  <2> QED
    BY <1>1, <2>1, <2>2
<1> QED
  BY <1>5, <1>6, <1>8, <1>9

(* A complete copy is the block as it was pushed. *)
LEMMA WholeBlock ==
  ASSUME IInv, c_pc = "body", Len(c_buf) = HeadLen + SbLen
  PROVE  c_buf = Block(NextBlock, sent[NextBlock].len)
<1>1. c_buf \in Seq(Bytes) /\ HeadLen <= Len(c_buf)
  <2>1. Len(c_buf) \in HeadLen .. Total(NextBlock)
    BY DEF IInv, Pulling
  <2> QED
    BY <2>1 DEF IInv, TypeOK
<1>2. Len(c_buf) = HeadLen + sent[NextBlock].len
  BY <1>1, HeaderRead
<1>3. \A j \in 1 .. Len(c_buf) :
        c_buf[j] = Byte(NextBlock, j, sent[NextBlock].len)
  BY DEF IInv, Pulling
<1> QED
  BY <1>1, <1>2, <1>3, LenProperties DEF Block

(* What both ends of a pull establish about the block they finish. *)
LEMMA PullFinish ==
  ASSUME IInv, c_pc # "idle", HeadLen <= Len(c_buf)
  PROVE  /\ NextBlock <= Len(sent)
         /\ HeadLen + SbLen = Total(NextBlock)
         /\ SbLen \in Nat
         /\ c_buf \in Seq(Bytes)
         /\ got \in Seq(Seq(Bytes))
         /\ Advance(r_pos, Total(NextBlock)) \in 0 .. Size
         /\ read + Total(NextBlock) \in Nat
<1>1. NextBlock <= Len(sent)
  BY DEF IInv, Pulling
<1>2. SbLen = sent[NextBlock].len
  BY HeaderRead
<1>3. c_buf \in Seq(Bytes) /\ got \in Seq(Seq(Bytes)) /\ read \in Nat
  BY DEF IInv, TypeOK
<1>4. Advance(r_pos, Total(NextBlock)) \in 0 .. Size
  <2>1. Total(NextBlock) \in Nat /\ Total(NextBlock) + 0 <= Size
    BY <1>1, NextFacts, RingAssumption
  <2> QED
    BY <2>1, AdvanceAdds, RingAssumption DEF IInv, TypeOK
<1> QED
  BY <1>1, <1>2, <1>3, <1>4, NextFacts DEF Total

(* One more result keeps the history of results intact. *)
LEMMA IntactStep ==
  ASSUME IInv, NextBlock <= Len(sent), sent' = sent,
         Len(got') = Len(got) + 1,
         got'[Len(got) + 1] \in {<<>>, Block(NextBlock, sent[NextBlock].len)},
         \A k \in 1 .. Len(got) : got'[k] = got[k]
  PROVE  IntactFifo'
<1>1. Len(got) \in Nat /\ Len(sent) \in Nat
  BY LenProperties DEF IInv, TypeOK
<1>2. Len(got') <= Len(sent')
  BY <1>1 DEF NextBlock
<1>3. ASSUME NEW k \in 1 .. Len(got')
      PROVE  got'[k] \in {<<>>, Block(k, sent[k].len)}
  <2>1. CASE k = Len(got) + 1
    BY <2>1 DEF NextBlock
  <2>2. CASE k \in 1 .. Len(got)
    BY <2>2 DEF IInv, IntactFifo
  <2> QED
    BY <1>1, <2>1, <2>2
<1> QED
  BY <1>2, <1>3 DEF IntactFifo

(* A block skipped on a failed realloc. *)
LEMMA PullNoMemoryStep ==
  ASSUME IInv, PullNoMemory
  PROVE  IInv'
<1> USE RingAssumption
<1>1. /\ c_pc = "head" /\ Len(c_buf) = HeadLen /\ c_pc' = "idle"
      /\ r_pos' = Advance(c_pos, SbLen)
      /\ got' = Append(got, <<>>)
      /\ read' = read + HeadLen + SbLen
      /\ UNCHANGED <<mem, w_pos, c_pos, c_buf, pull_len, sent, wrote>>
      /\ UNCHANGED <<p_pc, p_pos, p_off, p_len>>
  BY DEF PullNoMemory, producerVars
<1>2. /\ NextBlock <= Len(sent) /\ HeadLen + SbLen = Total(NextBlock)
      /\ SbLen \in Nat /\ read \in Nat
      /\ got \in Seq(Seq(Bytes)) /\ <<>> \in Seq(Bytes)
      /\ Advance(r_pos, Total(NextBlock)) \in 0 .. Size
      /\ read + Total(NextBlock) \in Nat
  BY <1>1, PullFinish, SMTT(30) DEF IInv, TypeOK
<1>3. r_pos' = Advance(r_pos, Total(NextBlock))
  <2>1. c_pos = Advance(r_pos, HeadLen)
    BY <1>1 DEF IInv, Pulling
  <2>2. r_pos \in 0 .. Size /\ HeadLen + SbLen <= Size
    BY <1>2, NextFacts, SMTT(30) DEF IInv, TypeOK
  <2> QED
    BY <1>1, <1>2, <2>1, <2>2, AdvanceAdds
<1>4. read' = read + Total(NextBlock)
  BY <1>1, <1>2
<1>5. /\ got' \in Seq(Seq(Bytes)) /\ Len(got') = Len(got) + 1
      /\ got'[Len(got) + 1] = <<>>
      /\ \A k \in 1 .. Len(got) : got'[k] = got[k]
  BY <1>1, <1>2, AppendProperties
<1>6. TypeOK'
  BY <1>1, <1>2, <1>3, <1>4, <1>5 DEF IInv, TypeOK
<1>7. Positions' /\ Stream' /\ Content' /\ Pushing'
  BY <1>1, <1>2, <1>3, <1>4, <1>5, Consume
<1>8. Pulling'
  BY <1>1 DEF Pulling
<1>9. IntactFifo'
  BY <1>1, <1>2, <1>5, IntactStep
<1> QED
  BY <1>6, <1>7, <1>8, <1>9 DEF IInv

(* A block handed out: every byte of it is the byte that was pushed. *)
LEMMA PullEndStep ==
  ASSUME IInv, PullEnd
  PROVE  IInv'
<1> USE RingAssumption
<1>1. /\ c_pc = "body" /\ Len(c_buf) = HeadLen + SbLen /\ c_pc' = "idle"
      /\ r_pos' = c_pos
      /\ got' = Append(got, c_buf)
      /\ read' = read + HeadLen + SbLen
      /\ UNCHANGED <<mem, w_pos, c_pos, c_buf, pull_len, sent, wrote>>
      /\ UNCHANGED <<p_pc, p_pos, p_off, p_len>>
  BY DEF PullEnd, producerVars
<1>2. HeadLen <= Len(c_buf)
  BY <1>1 DEF IInv, Pulling, TypeOK
<1>3. /\ NextBlock <= Len(sent) /\ HeadLen + SbLen = Total(NextBlock)
      /\ SbLen \in Nat /\ read \in Nat
      /\ got \in Seq(Seq(Bytes)) /\ c_buf \in Seq(Bytes)
      /\ Advance(r_pos, Total(NextBlock)) \in 0 .. Size
      /\ read + Total(NextBlock) \in Nat
  BY <1>1, <1>2, PullFinish DEF IInv, TypeOK
<1>4. r_pos' = Advance(r_pos, Total(NextBlock))
  BY <1>1, <1>3 DEF IInv, Pulling
<1>5. read' = read + Total(NextBlock)
  BY <1>1, <1>3
<1>6. /\ got' \in Seq(Seq(Bytes)) /\ Len(got') = Len(got) + 1
      /\ got'[Len(got) + 1] = c_buf
      /\ \A k \in 1 .. Len(got) : got'[k] = got[k]
  BY <1>1, <1>3, AppendProperties
<1>7. TypeOK'
  BY <1>1, <1>3, <1>4, <1>5, <1>6 DEF IInv, TypeOK
<1>8. Positions' /\ Stream' /\ Content' /\ Pushing'
  BY <1>1, <1>3, <1>4, <1>5, <1>6, Consume
<1>9. Pulling'
  BY <1>1 DEF Pulling
<1>10. IntactFifo'
  <2>1. c_buf = Block(NextBlock, sent[NextBlock].len)
    BY <1>1, WholeBlock
  <2> QED
    BY <1>1, <1>3, <1>6, <2>1, IntactStep
<1> QED
  BY <1>7, <1>8, <1>9, <1>10 DEF IInv

(* A consumer that dies in a pull leaves the ring as it was. *)
LEMMA ConsumerCrashStep ==
  ASSUME IInv, ConsumerCrash
  PROVE  IInv'
BY RingAssumption DEF IInv, ConsumerCrash, producerVars, TypeOK, Positions,
   Stream, Content, Pushing, Pulling, IntactFifo, Unread, NextBlock, Total

-----------------------------------------------------------------------------
(* The theorems.                                                           *)

(* IInv is inductive, hence an invariant of the specification. *)
THEOREM Invariance == Spec => []IInv
<1>1. Init => IInv
  BY InitIInv
<1>2. IInv /\ [Next]_vars => IInv'
  <2> SUFFICES ASSUME IInv, [Next]_vars PROVE IInv'
    OBVIOUS
  <2>1. ASSUME NEW l \in Lens, PushBegin(l) PROVE IInv'
    BY <2>1, PushBeginStep
  <2>2. CASE PushByte
    BY <2>2, PushByteStep
  <2>3. CASE PushEnd
    BY <2>3, PushEndStep
  <2>4. CASE PullBegin
    BY <2>4, PullBeginStep
  <2>5. CASE PullByte
    BY <2>5, PullByteStep
  <2>6. CASE PullHead
    BY <2>6, PullHeadStep
  <2>7. CASE PullNoMemory
    BY <2>7, PullNoMemoryStep
  <2>8. CASE PullEnd
    BY <2>8, PullEndStep
  <2>9. CASE ProducerCrash
    BY <2>9, ProducerCrashStep
  <2>10. CASE ConsumerCrash
    BY <2>10, ConsumerCrashStep
  <2>11. CASE UNCHANGED vars
    BY <2>11 DEF vars, producerVars, consumerVars, IInv, TypeOK, Positions,
       Stream, Content, Pushing, Pulling, IntactFifo, Unread, NextBlock, Total
  <2> QED
    BY <2>1, <2>2, <2>3, <2>4, <2>5, <2>6, <2>7, <2>8, <2>9, <2>10, <2>11
    DEF Next, Producer, Consumer
<1> QED
  BY <1>1, <1>2, PTL DEF Spec

(* Every variable keeps its type. *)
THEOREM TypeCorrect == Spec => []TypeOK
<1>1. IInv => TypeOK
  BY DEF IInv
<1> QED
  BY <1>1, Invariance, PTL

(* A push never writes a byte the consumer may still read. *)
THEOREM NeverOverwrites == Spec => []NoOverwrite
<1>1. IInv => NoOverwrite
  <2> SUFFICES ASSUME IInv, p_pc = "copy", p_off < HeadLen + p_len,
                      Cell(p_pos) \in Published
               PROVE  FALSE
    BY DEF NoOverwrite
  <2>1. /\ Unread \in Nat /\ p_off \in Nat /\ p_len \in Nat /\ HeadLen \in Nat
        /\ r_pos \in 0 .. Size /\ Size \in Nat
    BY RingAssumption DEF IInv, TypeOK, Positions, Unread
  <2>2. Unread + p_off < Size
    BY <2>1 DEF IInv, Pushing
  <2>3. p_pos = Advance(r_pos, Unread + p_off)
    <3>1. p_pos = Advance(w_pos, p_off) /\ w_pos = Advance(r_pos, Unread)
      BY DEF IInv, Positions, Pushing
    <3> QED
      BY <2>1, <2>2, <3>1, AdvanceAdds
  <2>4. Dist(r_pos, Cell(p_pos)) = Unread + p_off
    BY <2>1, <2>2, <2>3, CellAtDist
  <2> QED
    BY <2>1, <2>4 DEF Published
<1> QED
  BY <1>1, Invariance, PTL

(* Pulls return the blocks pushed, whole, once each and in order. *)
THEOREM DeliversIntact == Spec => []IntactFifo
<1>1. IInv => IntactFifo
  BY DEF IInv
<1> QED
  BY <1>1, Invariance, PTL

(* Full and empty are never confused. *)
THEOREM CountsRight == Spec => []Accounting
<1>1. IInv => Accounting
  <2> SUFFICES ASSUME IInv PROVE Accounting
    OBVIOUS
  <2>1. /\ Readable(w_pos, r_pos) = Unread
        /\ Space(w_pos, r_pos) = Size - Unread
    BY RingAssumption, SpaceReadable DEF IInv, TypeOK, Positions, Unread
  <2>2. (w_pos = r_pos) <=> (Unread = 0)
    <3>1. w_pos \in 0 .. Size /\ r_pos \in 0 .. Size
      BY DEF IInv, TypeOK
    <3>2. w_pos = r_pos => Unread = 0
      BY <2>1, <3>1 DEF Readable
    <3>3. Unread = 0 => w_pos = r_pos
      BY <3>1, RingAssumption DEF IInv, Positions, Advance
    <3> QED
      BY <3>2, <3>3
  <2>3. (Unread = 0) <=> (Len(got) = Len(sent))
    <3>1. Len(got) = Len(sent) => Unread = 0
      BY LenProperties DEF IInv, TypeOK, Stream, NextBlock, Unread
    <3>2. Len(got) < Len(sent) => Unread # 0
      <4> SUFFICES ASSUME Len(got) < Len(sent) PROVE Unread # 0
        OBVIOUS
      <4>1. NextBlock <= Len(sent)
        BY LenProperties DEF IInv, TypeOK, NextBlock
      <4> QED
        BY <4>1, NextFacts
    <3>3. Len(got) <= Len(sent) /\ Len(got) \in Nat /\ Len(sent) \in Nat
      BY LenProperties DEF IInv, TypeOK, Stream
    <3> QED
      BY <3>1, <3>2, <3>3
  <2> QED
    BY <2>1, <2>2, <2>3 DEF Accounting
<1> QED
  BY <1>1, Invariance, PTL

-----------------------------------------------------------------------------
(* Refinement.                                                             *)

(* The abstract queue that the ring's histories stand for. *)
SentLens == [k \in 1 .. Len(sent) |-> sent[k].len]

(* Publishing a block is a Put of the bounded FIFO. *)
LEMMA PushEndIsPut ==
  ASSUME IInv, PushEnd
  PROVE  Fifo!Put(p_len)
<1> DEFINE n == HeadLen + p_len
           blk == [len |-> p_len, at |-> wrote]
<1>1. /\ p_len \in Nat /\ wrote \in Nat /\ read \in Nat /\ HeadLen \in Nat
      /\ Unread \in Nat /\ Unread + n < Size /\ Size \in Nat
  BY RingAssumption DEF IInv, TypeOK, Positions, Pushing, PushEnd, Unread
<1>2. /\ sent \in Seq([len : Nat, at : Nat]) /\ Len(sent) \in Nat
      /\ blk \in [len : Nat, at : Nat]
      /\ sent' = Append(sent, blk)
  BY <1>1, LenProperties DEF IInv, TypeOK, PushEnd
<1>3. /\ Len(sent') = Len(sent) + 1
      /\ sent'[Len(sent) + 1] = blk
      /\ \A k \in 1 .. Len(sent) : sent'[k] = sent[k]
  BY <1>2, AppendProperties
<1>4. SentLens \in Seq(Nat) /\ Len(SentLens) = Len(sent)
  <2>1. \A k \in 1 .. Len(sent) : sent[k].len \in Nat
    BY SentFields DEF IInv
  <2> QED
    BY <1>2, <2>1 DEF SentLens
<1>5. SentLens' = Append(SentLens, p_len)
  <2>1. /\ Append(SentLens, p_len) \in Seq(Nat)
        /\ Len(Append(SentLens, p_len)) = Len(sent) + 1
        /\ Append(SentLens, p_len)[Len(sent) + 1] = p_len
        /\ \A k \in 1 .. Len(sent) : Append(SentLens, p_len)[k] = SentLens[k]
    BY <1>1, <1>4, AppendProperties
  <2>2. Append(SentLens, p_len) =
          [k \in 1 .. Len(sent) + 1 |-> Append(SentLens, p_len)[k]]
    BY <2>1, LenProperties
  <2>3. \A k \in 1 .. Len(sent) + 1 :
          sent'[k].len = Append(SentLens, p_len)[k]
    <3> TAKE k \in 1 .. Len(sent) + 1
    <3>1. CASE k = Len(sent) + 1
      <4>1. sent'[k].len = p_len
        BY <1>3, <3>1
      <4> QED
        BY <2>1, <3>1, <4>1
    <3>2. CASE k \in 1 .. Len(sent)
      BY <1>3, <2>1, <3>2 DEF SentLens
    <3>3. Len(sent) \in Nat
      BY <1>2
    <3>4. k = Len(sent) + 1 \/ k \in 1 .. Len(sent)
      BY <3>3
    <3> QED
      BY <3>1, <3>2, <3>4
  <2> QED
    BY <1>3, <2>2, <2>3 DEF SentLens
<1>6. got' = got /\ read' = read /\ wrote' = wrote + n
  BY <1>1 DEF PushEnd
<1>7. Size - Unread >= HeadLen + p_len + 1
  BY <1>1
<1>8. (Size - Unread)' = Size - Unread - (HeadLen + p_len)
  BY <1>1, <1>6 DEF Unread
<1> QED
  BY <1>5, <1>6, <1>7, <1>8 DEF Fifo!Put, SentLens

(* Finishing a pull is a Take of the bounded FIFO. *)
LEMMA PullIsTake ==
  ASSUME IInv, PullEnd \/ PullNoMemory
  PROVE  Fifo!Take
<1>1. c_pc # "idle" /\ HeadLen <= Len(c_buf)
  BY RingAssumption, LenProperties DEF PullEnd, PullNoMemory, IInv, TypeOK,
     Pulling
<1>2. /\ NextBlock \in 1 .. Len(sent)
      /\ HeadLen + SbLen = HeadLen + sent[NextBlock].len
      /\ sent[NextBlock].len \in Nat
  BY <1>1, NextFacts, HeaderRead DEF IInv, Pulling
<1>3. SentLens[NextBlock] = sent[NextBlock].len /\ Len(SentLens) = Len(sent)
  BY <1>2, LenProperties DEF SentLens, IInv, TypeOK
<1>4. UNCHANGED <<sent, wrote>> /\ read' = read + HeadLen + SbLen
  BY DEF PullEnd, PullNoMemory
<1>5. SentLens' = SentLens
  BY <1>4 DEF SentLens
<1>6. \/ got' = Append(got, Block(NextBlock, sent[NextBlock].len))
      \/ got' = Append(got, <<>>)
  BY WholeBlock DEF PullEnd, PullNoMemory
<1>7. (Size - Unread)' = Size - Unread + HeadLen + sent[NextBlock].len
  <2>1. /\ wrote \in Nat /\ read \in Nat /\ Size \in Nat /\ HeadLen \in Nat
        /\ SbLen = sent[NextBlock].len
    BY <1>1, <1>2, HeaderRead, RingAssumption DEF IInv, TypeOK
  <2> QED
    BY <1>2, <1>4, <2>1 DEF Unread
<1> QED
  BY <1>2, <1>3, <1>5, <1>6, <1>7
  DEF Fifo!Take, Fifo!Oldest, SentLens, NextBlock

(* The ring implements the bounded FIFO. *)
THEOREM RingImplementsFifo == Spec => ImplementsFifo
<1>1. Init => Fifo!Init
  <2> SUFFICES ASSUME Init PROVE Fifo!Init
    OBVIOUS
  <2>1. Size - Unread = Size
    BY RingAssumption DEF Init, Unread
  <2>2. SentLens = <<>>
    BY DEF Init, SentLens
  <2> QED
    BY <2>1, <2>2 DEF Init, Fifo!Init, SentLens
<1>2. IInv /\ [Next]_vars => [Fifo!Next]_Fifo!vars
  <2> SUFFICES ASSUME IInv, [Next]_vars PROVE [Fifo!Next]_Fifo!vars
    OBVIOUS
  <2>1. CASE PushEnd
    <3>1. p_len \in Lens
      BY <2>1 DEF IInv, Pushing, PushEnd
    <3>2. Fifo!Put(p_len)
      BY <2>1, PushEndIsPut
    <3>3. \E l \in Lens : Fifo!Put(l)
      BY <3>1, <3>2 DEF Fifo!Put
    <3> QED
      BY <3>3 DEF Fifo!Next
  <2>2. CASE PullEnd \/ PullNoMemory
    BY <2>2, PullIsTake DEF Fifo!Next
  <2>3. CASE UNCHANGED <<sent, got, wrote, read>>
    BY <2>3 DEF Fifo!vars, Unread
  <2>4. \/ PushEnd \/ PullEnd \/ PullNoMemory
        \/ UNCHANGED <<sent, got, wrote, read>>
    BY DEF Next, Producer, Consumer, PushBegin, PushByte, PullBegin, PullByte,
       PullHead, ProducerCrash, ConsumerCrash, vars
  <2> QED
    BY <2>1, <2>2, <2>3, <2>4
<1>3. Spec => Fifo!Spec
  BY <1>1, <1>2, Invariance, PTL DEF Spec, Fifo!Spec
<1> QED
  BY <1>3 DEF ImplementsFifo

=============================================================================
