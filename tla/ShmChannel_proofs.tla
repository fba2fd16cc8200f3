------------------------- MODULE ShmChannel_proofs --------------------------
(***************************************************************************)
(* Proofs about ShmChannel for every ring, pipe and batch size, every set  *)
(* of block lengths and every number of calls.                             *)
(*                                                                         *)
(* The inductive invariant adds to the types what each position of the two *)
(* processes implies (Shape), that every block is older than the call      *)
(* being served (Older), that neither tokens nor blocks multiply (Counted), *)
(* and how many blocks the tokens account for (Tokens).  Kept, for the     *)
(* safe pushes, relates what the calls returned to the blocks that are     *)
(* under way or handled.                                                   *)
(***************************************************************************)
EXTENDS ShmChannel, SequenceTheorems, TLAPS

-----------------------------------------------------------------------------
(* The inductive invariant.                                                *)

Shape ==
  /\ p_pc \in {"push", "refused", "token"} => in_push
  /\ in_push /\ p_pc # "idle" => calls # <<>>
  /\ p_pc = "push" => push_list = <<>>
  /\ p_pc = "listtoken" => push_list # <<>>
  /\ c_pc = "handle" => pulled # <<>>
  /\ c_pc = "wait" => count = 0

(* The current call's block has not been put anywhere yet. *)
Due == in_push /\ p_pc \in {"pruge", "listtoken", "refused", "push"}

OlderIn(seq) ==
  \A i \in 1 .. Len(seq) :
    seq[i] <= Len(calls) /\ (Due => seq[i] < Len(calls))

Older == OlderIn(order) /\ OlderIn(push_list) /\ OlderIn(handled)

WaitingLen == IF p_pc = "listtoken" THEN Len(push_list) - 1 ELSE Len(push_list)

(* No more tokens than blocks, and no more blocks than calls. *)
Counted ==
  /\ pipe + TokenDue <= Len(order)
  /\ Len(order) + WaitingLen + (IF Due THEN 1 ELSE 0) <= Len(calls)

(* The blocks in the ring are covered by tokens. *)
Tokens == NoFaults => Len(order) - Len(pulled) <= pipe + TokenDue + count

IInv == TypeOK /\ Shape /\ Older /\ Counted /\ Tokens

-----------------------------------------------------------------------------
(* Lemmas on sequences.                                                    *)

(* The part of s after its first n elements. *)
After(s, n) == SubSeq(s, n + 1, Len(s))

LEMMA AfterType ==
  ASSUME NEW S, NEW s \in Seq(S), NEW n \in 0 .. Len(s)
  PROVE  After(s, n) \in Seq(S) /\ Len(After(s, n)) = Len(s) - n
<1>1. Len(s) \in Nat /\ \A i \in 1 .. Len(s) : s[i] \in S
  BY LenProperties, ElementOfSeq
<1>2. n + 1 \in Int /\ \A i \in n + 1 .. Len(s) : s[i] \in S
  BY <1>1
<1> QED BY <1>1, <1>2, SubSeqProperties DEF After

LEMMA AfterAppend ==
  ASSUME NEW S, NEW s \in Seq(S), NEW n \in 0 .. Len(s), NEW e \in S
  PROVE  After(Append(s, e), n) = Append(After(s, n), e)
<1> DEFINE t == Append(s, e)
<1>1. /\ t \in Seq(S) /\ Len(t) = Len(s) + 1 /\ t[Len(s) + 1] = e
      /\ Len(s) \in Nat /\ \A i \in 1 .. Len(s) : t[i] = s[i]
  BY AppendProperties, LenProperties
<1>2. Append(After(s, n), e) \in Seq(S)
  BY AfterType, AppendProperties
<1>3. After(t, n) \in Seq(S) /\ Len(After(t, n)) = Len(s) + 1 - n
  <2>1. n \in 0 .. Len(t) BY <1>1
  <2> HIDE DEF t
  <2> QED BY <1>1, <2>1, AfterType
<1>4. Len(Append(After(s, n), e)) = Len(s) + 1 - n
  BY <1>1, AfterType, AppendProperties
<1>5. \A i \in 1 .. Len(s) + 1 - n : After(t, n)[i] = t[n + i]
  <2>1. n + 1 \in Int /\ Len(t) \in Int /\ \A i \in n + 1 .. Len(t) : t[i] \in S
    BY <1>1, ElementOfSeq
  <2> HIDE DEF t
  <2> QED BY <1>1, <2>1, SubSeqProperties DEF After
<1>6. \A i \in 1 .. Len(s) - n : After(s, n)[i] = s[n + i]
  <2>1. n + 1 \in Int /\ Len(s) \in Int /\ \A i \in n + 1 .. Len(s) : s[i] \in S
    BY <1>1, ElementOfSeq
  <2> QED BY <1>1, <2>1, SubSeqProperties DEF After
<1>7. \A i \in 1 .. Len(s) + 1 - n : Append(After(s, n), e)[i] = t[n + i]
  <2> SUFFICES ASSUME NEW i \in 1 .. Len(s) + 1 - n
               PROVE  Append(After(s, n), e)[i] = t[n + i]
    OBVIOUS
  <2>1. Len(After(s, n)) = Len(s) - n /\ After(s, n) \in Seq(S)
    BY AfterType
  <2>2. CASE i = Len(s) + 1 - n
    BY <2>1, <2>2, <1>1, AppendProperties
  <2>3. CASE i # Len(s) + 1 - n
    BY <2>1, <2>3, <1>1, <1>6, AppendProperties
  <2> QED BY <2>2, <2>3
<1> HIDE DEF t
<1>8. After(t, n) = Append(After(s, n), e)
  BY <1>2, <1>3, <1>4, <1>5, <1>7, SeqEqual
<1> QED BY <1>8 DEF t

LEMMA AfterFirst ==
  ASSUME NEW S, NEW s \in Seq(S), NEW n \in 0 .. Len(s), n < Len(s)
  PROVE  After(s, n) = <<s[n + 1]>> \o After(s, n + 1)
<1>1. Len(s) \in Nat /\ n + 1 \in 1 .. Len(s) /\ Len(s) \in n + 1 .. Len(s)
  BY LenProperties
<1> QED BY <1>1, SubSeqRecursiveFirst DEF After

LEMMA HeadTail ==
  ASSUME NEW S, NEW e \in S, NEW s \in Seq(S)
  PROVE  /\ <<e>> \o s \in Seq(S) /\ <<e>> \o s # <<>>
         /\ Head(<<e>> \o s) = e /\ Tail(<<e>> \o s) = s
<1> DEFINE t == <<e>> \o s
<1>1. <<e>> \in Seq(S) /\ Len(<<e>>) = 1 /\ <<e>>[1] = e
  OBVIOUS
<1>2. /\ t \in Seq(S) /\ Len(t) = 1 + Len(s) /\ Len(s) \in Nat
      /\ \A i \in 1 .. 1 + Len(s) : t[i] = IF i <= 1 THEN e ELSE s[i - 1]
  BY <1>1, ConcatProperties, LenProperties
<1> HIDE DEF t
<1>3. t # <<>> /\ Head(t) = e
  BY <1>2
<1>4. Tail(t) \in Seq(S) /\ Len(Tail(t)) = Len(s)
      /\ \A i \in 1 .. Len(s) : Tail(t)[i] = s[i]
  BY <1>2, <1>3, HeadTailProperties
<1>5. Tail(t) = s
  BY <1>4, SeqEqual
<1> QED BY <1>2, <1>3, <1>5 DEF t

LEMMA ListSplit ==
  ASSUME NEW S, NEW s \in Seq(S), s # <<>>
  PROVE  s = <<Head(s)>> \o Tail(s)
<1>1. /\ Head(s) \in S /\ Tail(s) \in Seq(S) /\ Head(s) = s[1]
      /\ Len(Tail(s)) = Len(s) - 1 /\ Len(s) \in Nat
      /\ \A i \in 1 .. Len(Tail(s)) : Tail(s)[i] = s[i + 1]
  BY HeadTailProperties, LenProperties
<1> DEFINE h == Head(s)  t == Tail(s)
<1>2. <<h>> \in Seq(S) /\ Len(<<h>>) = 1 /\ <<h>>[1] = h
  BY <1>1
<1> HIDE DEF h, t
<1>3. /\ <<h>> \o t \in Seq(S) /\ Len(<<h>> \o t) = 1 + Len(t)
      /\ \A i \in 1 .. 1 + Len(t) :
           (<<h>> \o t)[i] = IF i <= 1 THEN h ELSE t[i - 1]
  BY <1>1, <1>2, ConcatProperties DEF h, t
<1>4. \A i \in 1 .. Len(s) : s[i] = (<<h>> \o t)[i]
  <2> SUFFICES ASSUME NEW i \in 1 .. Len(s) PROVE s[i] = (<<h>> \o t)[i]
    OBVIOUS
  <2>1. CASE i = 1
    BY <1>1, <1>3, <2>1 DEF h, t
  <2>2. CASE i # 1
    BY <1>1, <1>3, <2>2 DEF h, t
  <2> QED BY <2>1, <2>2
<1>5. Len(s) = Len(<<h>> \o t)
  BY <1>1, <1>3 DEF h, t
<1>6. s = <<h>> \o t
  BY <1>3, <1>4, <1>5, SeqEqual
<1> QED BY <1>6 DEF h, t

-----------------------------------------------------------------------------
(* What the invariant says of the variables, and what the pieces the       *)
(* actions share do to them.                                               *)

Blocks == {<<>>} \cup {<<k>> : k \in CallIds}

LEMMA Lengths ==
  ASSUME TypeOK
  PROVE  /\ Len(lens) \in Nat /\ Len(order) = Len(lens)
         /\ Len(pulled) \in 0 .. Len(order)
         /\ Len(push_list) \in Nat /\ Len(handled) \in Nat
         /\ Len(calls) \in Nat /\ Len(calls) <= MaxCalls /\ MaxCalls \in Nat
         /\ push_list # <<>> => Len(push_list) > 0
         /\ calls # <<>> => Len(calls) > 0
         /\ pulled # <<>> => Len(pulled) > 0
<1>1. /\ lens \in Seq(Lens) /\ order \in Seq(CallIds) /\ Len(order) = Len(lens)
      /\ pulled \in Seq(Blocks) /\ Len(pulled) <= Len(lens)
      /\ push_list \in Seq(CallIds) /\ handled \in Seq(CallIds)
      /\ calls \in Seq(Calls) /\ Len(calls) <= MaxCalls
  BY DEF TypeOK, Blocks
<1>2. /\ Len(lens) \in Nat /\ Len(pulled) \in Nat /\ Len(push_list) \in Nat
      /\ Len(handled) \in Nat /\ Len(calls) \in Nat
  BY <1>1, LenProperties
<1>3. /\ push_list # <<>> => Len(push_list) # 0
      /\ calls # <<>> => Len(calls) # 0
      /\ pulled # <<>> => Len(pulled) # 0
  BY <1>1, EmptySeq
<1> QED BY <1>1, <1>2, <1>3, ChannelAssumption

LEMMA CallFacts ==
  ASSUME TypeOK, NEW k \in 1 .. Len(calls)
  PROVE  calls[k].len \in Lens /\ calls[k].len \in Nat /\ k \in CallIds
<1>1. calls \in Seq(Calls) /\ Lens \subseteq Nat
  BY ChannelAssumption DEF TypeOK
<1>2. calls[k] \in Calls
  BY <1>1, ElementOfSeq
<1>3. k \in CallIds
  BY Lengths DEF CallIds
<1> QED BY <1>1, <1>2, <1>3 DEF Calls

LEMMA ReturnFacts ==
  ASSUME TypeOK, calls # <<>>, NEW ret \in Returns, Return(ret)
  PROVE  calls' \in Seq(Calls) /\ Len(calls') = Len(calls)
<1>1. calls \in Seq(Calls) /\ Current \in 1 .. Len(calls)
  BY Lengths DEF TypeOK, Current
<1>2. calls[Current] \in Calls
  BY <1>1, ElementOfSeq
<1> DEFINE e == [calls[Current] EXCEPT !.ret = ret]
<1>3. e \in Calls
  BY <1>2 DEF Calls
<1>4. calls' = [calls EXCEPT ![Current] = e]
  BY DEF Return
<1> HIDE DEF e
<1> QED BY <1>1, <1>3, <1>4, ExceptSeq

LEMMA WriteFacts ==
  ASSUME TypeOK, WritePipe
  PROVE  pipe' \in 0 .. PipeCap /\ pipe' <= pipe + 1
         /\ (pipe < PipeCap => pipe' = pipe + 1)
BY ChannelAssumption DEF TypeOK, WritePipe

LEMMA RingPutFacts ==
  ASSUME TypeOK, NEW k \in 1 .. Len(calls), RingPut(k)
  PROVE  /\ lens' \in Seq(Lens) /\ order' \in Seq(CallIds)
         /\ Len(lens') = Len(lens) + 1 /\ Len(order') = Len(order) + 1
         /\ order' = Append(order, k) /\ order'[Len(order) + 1] = k
         /\ \A i \in 1 .. Len(order) : order'[i] = order[i]
         /\ free' \in Nat \ {0}
         /\ UNCHANGED pulled
<1>1. calls[k].len \in Lens /\ calls[k].len \in Nat /\ k \in CallIds
  BY CallFacts
<1>2. /\ free >= HeadLen + calls[k].len + 1
      /\ lens' = Append(lens, calls[k].len)
      /\ free' = free - (HeadLen + calls[k].len)
      /\ UNCHANGED pulled /\ order' = Append(order, k)
  BY DEF RingPut, Ring!Put
<1>3. lens' \in Seq(Lens) /\ Len(lens') = Len(lens) + 1
  BY <1>1, <1>2, AppendProperties DEF TypeOK
<1>4. /\ order' \in Seq(CallIds) /\ Len(order') = Len(order) + 1
      /\ order'[Len(order) + 1] = k
      /\ \A i \in 1 .. Len(order) : order'[i] = order[i]
  BY <1>1, <1>2, AppendProperties DEF TypeOK
<1>5. free' \in Nat \ {0}
  <2> DEFINE l == calls[k].len
  <2>1. free \in Nat /\ HeadLen \in Nat /\ l \in Nat
    BY <1>1, ChannelAssumption DEF TypeOK
  <2>2. free >= HeadLen + l + 1 /\ free' = free - (HeadLen + l)
    BY <1>2
  <2> HIDE DEF l
  <2> QED BY <2>1, <2>2
<1> QED BY <1>2, <1>3, <1>4, <1>5

LEMMA TakeFacts ==
  ASSUME TypeOK, Shape, Counted, Ring!Take
  PROVE  /\ pulled' \in Seq(Blocks) /\ Len(pulled') = Len(pulled) + 1
         /\ Len(pulled) + 1 \in 1 .. Len(order)
         /\ free' \in Nat \ {0}
         /\ UNCHANGED lens
<1> DEFINE n == Len(pulled) + 1
<1>1. /\ n \in 1 .. Len(order) /\ Len(order) = Len(lens)
      /\ pulled' = Append(pulled, <<n>>) \/ pulled' = Append(pulled, <<>>)
      /\ free' = free + HeadLen + lens[n]
      /\ UNCHANGED lens
  BY Lengths DEF Ring!Take, Ring!Oldest, RingBlock
<1>2. lens[n] \in Nat
  <2>1. lens \in Seq(Lens) /\ Lens \subseteq Nat
    BY ChannelAssumption DEF TypeOK
  <2> QED BY <1>1, <2>1, ElementOfSeq
<1>3. free' \in Nat \ {0}
  BY <1>1, <1>2, ChannelAssumption DEF TypeOK
<1>4. n \in CallIds
  <2>1. WaitingLen \in Nat
    BY Lengths DEF WaitingLen, Shape
  <2>2. Len(order) <= Len(calls)
    BY <2>1, Lengths DEF Counted
  <2> QED BY <1>1, <2>2, Lengths DEF CallIds
<1>5. pulled' \in Seq(Blocks) /\ Len(pulled') = Len(pulled) + 1
  <2>1. pulled \in Seq(Blocks) /\ <<n>> \in Blocks /\ <<>> \in Blocks
    BY <1>4 DEF TypeOK, Blocks
  <2> HIDE DEF n
  <2>2. CASE pulled' = Append(pulled, <<n>>)
    BY <2>1, <2>2, AppendProperties
  <2>3. CASE pulled' = Append(pulled, <<>>)
    BY <2>1, <2>3, AppendProperties
  <2> QED BY <1>1, <2>2, <2>3
<1> QED BY <1>1, <1>3, <1>5

(* The number of blocks in the ring. *)
LEMMA RingLength ==
  ASSUME TypeOK
  PROVE  /\ InRing = After(order, Len(pulled)) /\ InRing \in Seq(CallIds)
         /\ Len(InRing) = Len(order) - Len(pulled)
<1>1. order \in Seq(CallIds) /\ Len(pulled) \in 0 .. Len(order)
  BY Lengths DEF TypeOK
<1>2. InRing = After(order, Len(pulled))
  BY DEF InRing, After, Ring!Oldest
<1> QED BY <1>1, <1>2, AfterType

(* Older survives when nothing is added and no new block becomes due. *)
LEMMA OlderKept ==
  ASSUME Older, UNCHANGED <<order, handled>>, Len(calls') = Len(calls),
         Due' => Due,
         UNCHANGED push_list \/ push_list' = <<>>
  PROVE  Older'
<1>1. OlderIn(order)' /\ OlderIn(handled)'
  BY DEF Older, OlderIn
<1>2. OlderIn(push_list)'
  BY DEF Older, OlderIn
<1> QED BY <1>1, <1>2 DEF Older

-----------------------------------------------------------------------------
(* The invariant holds initially and is kept by every action.              *)

LEMMA InitHolds == Init => IInv
<1> SUFFICES ASSUME Init PROVE IInv
  OBVIOUS
<1>1. TypeOK
  <2>1. /\ lens = <<>> /\ order = <<>> /\ pulled = <<>> /\ free = Size
        /\ push_list = <<>> /\ calls = <<>> /\ handled = <<>> /\ pipe = 0
        /\ p_pc = "idle" /\ in_push = FALSE /\ c_pc = "wait" /\ count = 0
    BY DEF Init, Ring!Init
  <2>2. \A S : <<>> \in Seq(S) /\ Len(<<>>) = 0
    BY EmptySeq
  <2>3. free \in Nat \ {0} /\ pipe \in 0 .. PipeCap /\ count \in 0 .. BatchMax
    BY <2>1, ChannelAssumption
  <2>4. MaxCalls >= 0
    BY ChannelAssumption
  <2>5. Len(lens) = 0 /\ Len(order) = 0 /\ Len(pulled) = 0 /\ Len(calls) = 0
    BY <2>1
  <2>6. lens \in Seq(Lens) /\ order \in Seq(CallIds) /\ push_list \in Seq(CallIds)
        /\ calls \in Seq(Calls) /\ handled \in Seq(CallIds)
        /\ pulled \in Seq({<<>>} \cup {<<k>> : k \in CallIds})
    BY <2>1, <2>2, Zenon
  <2>7. p_pc \in PCs /\ in_push \in BOOLEAN /\ c_pc \in {"wait", "pull", "handle"}
    BY <2>1 DEF PCs
  <2>8. Len(order) = Len(lens) /\ Len(pulled) <= Len(lens) /\ Len(calls) <= MaxCalls
    BY <2>4, <2>5
  <2> QED BY <2>3, <2>6, <2>7, <2>8, Zenon DEF TypeOK
<1>2. Shape /\ Older /\ Counted /\ Tokens
  <2>1. /\ Len(order) = 0 /\ Len(pulled) = 0 /\ Len(push_list) = 0
        /\ Len(handled) = 0 /\ Len(calls) = 0 /\ pipe = 0 /\ count = 0
        /\ p_pc = "idle" /\ c_pc = "wait"
    BY DEF Init, Ring!Init
  <2> QED BY <2>1 DEF Shape, Older, OlderIn, Counted, Tokens, WaitingLen, TokenDue, Due
<1> QED BY <1>1, <1>2 DEF IInv

LEMMA PushCallKeeps ==
  ASSUME IInv, NEW len \in Lens, NEW safe \in BOOLEAN, PushCall(len, safe)
  PROVE  IInv'
<1>1. /\ calls' \in Seq(Calls) /\ Len(calls') = Len(calls) + 1
      /\ Len(calls') <= MaxCalls /\ calls' # <<>>
  <2>1. [len |-> len, safe |-> safe, ret |-> "none"] \in Calls
    BY DEF Calls, Returns
  <2>2. calls \in Seq(Calls) /\ Len(calls) < MaxCalls
    BY DEF IInv, TypeOK, PushCall, Current
  <2> QED BY <2>1, <2>2, AppendProperties, Lengths, ChannelAssumption DEF PushCall, IInv
<1>2. TypeOK'
  BY <1>1 DEF IInv, TypeOK, PushCall, ringVars, consumerVars, PCs
<1>3. Shape'
  BY <1>1 DEF IInv, Shape, PushCall, ringVars, consumerVars
<1>4. Older'
  <2>1. /\ UNCHANGED <<order, push_list, handled>>
        /\ Len(calls) \in Nat /\ Len(calls') = Len(calls) + 1
    BY <1>1, Lengths DEF IInv, PushCall, ringVars, consumerVars
  <2>2. /\ \A i \in 1 .. Len(order) : order[i] \in Nat
        /\ \A i \in 1 .. Len(push_list) : push_list[i] \in Nat
        /\ \A i \in 1 .. Len(handled) : handled[i] \in Nat
    <3>1. \A s \in Seq(CallIds) : \A i \in 1 .. Len(s) : s[i] \in CallIds
      BY ElementOfSeq
    <3>2. CallIds \subseteq Nat
      BY DEF CallIds
    <3> QED BY <3>1, <3>2 DEF IInv, TypeOK
  <2>3. Older
    BY DEF IInv
  <2> QED BY <2>1, <2>2, <2>3 DEF Older, OlderIn
<1>5. Counted' /\ Tokens'
  BY <1>1, Lengths DEF IInv, Counted, Tokens, WaitingLen, TokenDue, Due, PushCall,
     ringVars, consumerVars
<1> QED BY <1>2, <1>3, <1>4, <1>5 DEF IInv

LEMMA PrugeCallKeeps == ASSUME IInv, PrugeCall PROVE IInv'
<1>1. TypeOK'
  BY DEF IInv, TypeOK, PrugeCall, ringVars, consumerVars, PCs
<1>2. Shape'
  BY DEF IInv, Shape, PrugeCall, ringVars, consumerVars
<1>3. Older'
  BY OlderKept DEF IInv, Due, PrugeCall, ringVars, consumerVars
<1>4. Counted' /\ Tokens'
  BY Lengths DEF IInv, Counted, Tokens, WaitingLen, TokenDue, Due, PrugeCall,
     ringVars, consumerVars
<1> QED BY <1>1, <1>2, <1>3, <1>4 DEF IInv

LEMMA PrugePutKeeps == ASSUME IInv, PrugePut PROVE IInv'
<1> DEFINE k == Head(push_list)
<1>1. k = push_list[1] /\ k \in 1 .. Len(calls) /\ (Due => k < Len(calls))
  <2>1. push_list \in Seq(CallIds) /\ push_list # <<>> /\ 1 \in 1 .. Len(push_list)
    BY Lengths DEF IInv, TypeOK, PrugePut
  <2>2. k = push_list[1] /\ k \in CallIds
    BY <2>1, ElementOfSeq, HeadTailProperties
  <2> QED BY <2>1, <2>2 DEF IInv, Older, OlderIn, CallIds
<1>2. /\ lens' \in Seq(Lens) /\ order' \in Seq(CallIds)
      /\ Len(lens') = Len(lens) + 1 /\ Len(order') = Len(order) + 1
      /\ order'[Len(order) + 1] = k
      /\ \A i \in 1 .. Len(order) : order'[i] = order[i]
      /\ free' \in Nat \ {0}
      /\ UNCHANGED pulled
  <2> HIDE DEF k
  <2>1. RingPut(k)
    BY DEF PrugePut, k
  <2> QED BY <1>1, <2>1, RingPutFacts DEF IInv
<1> HIDE DEF k
<1>3. TypeOK'
  BY <1>2, Lengths DEF IInv, TypeOK, PrugePut, consumerVars, PCs
<1>4. Shape'
  BY <1>2 DEF IInv, Shape, PrugePut, consumerVars
<1>5. Older'
  <2>1. /\ Due' = Due /\ Len(order) \in Nat
        /\ UNCHANGED <<calls, push_list, handled>>
    BY Lengths DEF IInv, PrugePut, Due, consumerVars
  <2>2. \A i \in 1 .. Len(order') : i = Len(order) + 1 \/ i \in 1 .. Len(order)
    BY <1>2, <2>1
  <2>3. OlderIn(order) /\ OlderIn(push_list) /\ OlderIn(handled)
    BY DEF IInv, Older
  <2>4. OlderIn(order)'
    BY <1>1, <1>2, <2>1, <2>2, <2>3, Lengths DEF IInv, OlderIn
  <2>5. OlderIn(push_list)' /\ OlderIn(handled)'
    BY <2>1, <2>3 DEF OlderIn
  <2> QED BY <2>4, <2>5 DEF Older
<1>6. Counted' /\ Tokens'
  <2>1. /\ p_pc = "pruge" /\ p_pc' = "listtoken"
        /\ UNCHANGED <<pipe, push_list, calls, in_push, count>>
    BY DEF PrugePut, consumerVars
  <2>2. /\ WaitingLen = Len(push_list) /\ WaitingLen' = Len(push_list) - 1
        /\ TokenDue = 0 /\ TokenDue' = 1 /\ Due' = Due
    BY <2>1 DEF WaitingLen, TokenDue, Due
  <2>3. pipe \in Nat /\ count \in Nat
    BY ChannelAssumption DEF IInv, TypeOK
  <2>4. Counted'
    BY <1>2, <2>1, <2>2, <2>3, Lengths DEF IInv, Counted
  <2>5. Tokens'
    BY <1>2, <2>1, <2>2, <2>3, Lengths DEF IInv, Tokens, NoFaults
  <2> QED BY <2>4, <2>5
<1> QED BY <1>3, <1>4, <1>5, <1>6 DEF IInv

LEMMA PrugeTokenKeeps == ASSUME IInv, PrugeToken PROVE IInv'
<1>1. /\ push_list' \in Seq(CallIds) /\ Len(push_list') = Len(push_list) - 1
      /\ \A i \in 1 .. Len(push_list') : push_list'[i] = push_list[i + 1]
  <2>1. push_list \in Seq(CallIds) /\ push_list # <<>> /\ push_list' = Tail(push_list)
    BY DEF IInv, TypeOK, Shape, PrugeToken
  <2> QED BY <2>1, HeadTailProperties
<1>2. pipe' \in 0 .. PipeCap /\ pipe' <= pipe + 1 /\ (pipe < PipeCap => pipe' = pipe + 1)
  BY WriteFacts DEF IInv, PrugeToken
<1>3. TypeOK'
  BY <1>1, <1>2 DEF IInv, TypeOK, PrugeToken, ringVars, consumerVars, PCs
<1>4. Shape'
  BY DEF IInv, Shape, PrugeToken, ringVars, consumerVars
<1>5. Older'
  BY <1>1, Lengths DEF IInv, Older, OlderIn, Due, PrugeToken, ringVars, consumerVars
<1>6. Counted' /\ Tokens'
  <2>1. pipe \in Nat /\ PipeCap \in Nat /\ pipe' \in Nat
    BY <1>2, ChannelAssumption DEF IInv, TypeOK
  <2>2. NoFaults => pipe < PipeCap
    BY <2>1, Lengths, ChannelAssumption
    DEF IInv, Shape, Counted, WaitingLen, TokenDue, Due, NoFaults, PrugeToken
  <2> QED BY <1>1, <1>2, <2>1, <2>2, Lengths
      DEF IInv, Shape, Counted, Tokens, WaitingLen, TokenDue, Due, PrugeToken,
          ringVars, consumerVars
<1> QED BY <1>3, <1>4, <1>5, <1>6 DEF IInv

LEMMA PrugeReturnKeeps == ASSUME IInv, PrugeReturn PROVE IInv'
<1>1. /\ p_pc = "pruge" /\ p_pc' \in {"idle", "push", "refused"}
      /\ p_pc' # "idle" => in_push
      /\ p_pc' = "push" => push_list = <<>>
      /\ UNCHANGED <<lens, pulled, free, order, pipe, push_list, calls, in_push,
                     c_pc, count, handled>>
  <2>1. CASE ~in_push
    BY <2>1 DEF PrugeReturn, ringVars, consumerVars
  <2>2. CASE in_push /\ push_list = <<>>
    BY <2>2 DEF PrugeReturn, ringVars, consumerVars
  <2>3. CASE in_push /\ push_list # <<>>
    BY <2>3 DEF PrugeReturn, ringVars, consumerVars
  <2> QED BY <2>1, <2>2, <2>3 DEF IInv, TypeOK
<1>2. TypeOK'
  BY <1>1 DEF IInv, TypeOK, PCs
<1>3. Shape'
  BY <1>1 DEF IInv, Shape
<1>4. Older'
  BY <1>1, OlderKept DEF IInv, Due
<1>5. Counted' /\ Tokens'
  <2>1. /\ WaitingLen = Len(push_list) /\ WaitingLen' = WaitingLen
        /\ TokenDue = 0 /\ TokenDue' = 0 /\ (Due' => Due)
    BY <1>1 DEF WaitingLen, TokenDue, Due
  <2>2. pipe \in Nat /\ count \in Nat
    BY ChannelAssumption DEF IInv, TypeOK
  <2> QED BY <1>1, <2>1, <2>2, Lengths DEF IInv, Counted, Tokens, NoFaults
<1> QED BY <1>2, <1>3, <1>4, <1>5 DEF IInv

(* The ends of recv_push that put no block anywhere. *)
LEMMA PushEndKeeps ==
  ASSUME IInv, p_pc \in {"push", "refused"}, NEW ret \in Returns, Return(ret),
         p_pc' = "idle", UNCHANGED <<ringVars, pipe, push_list, in_push, consumerVars>>
  PROVE  IInv'
<1>1. calls # <<>> /\ UNCHANGED <<lens, pulled, free, order, pipe, push_list, in_push,
                                  c_pc, count, handled>>
  BY DEF IInv, Shape, ringVars, consumerVars
<1>2. calls' \in Seq(Calls) /\ Len(calls') = Len(calls)
  BY <1>1, ReturnFacts DEF IInv
<1>3. TypeOK'
  BY <1>1, <1>2 DEF IInv, TypeOK, PCs
<1>4. Shape'
  BY <1>1 DEF IInv, Shape
<1>5. Older'
  BY <1>1, <1>2, OlderKept DEF IInv, Due
<1>6. Counted' /\ Tokens'
  <2>1. /\ WaitingLen = Len(push_list) /\ WaitingLen' = WaitingLen
        /\ TokenDue = 0 /\ TokenDue' = 0 /\ (Due' => Due)
    BY <1>1 DEF WaitingLen, TokenDue, Due
  <2>2. pipe \in Nat /\ count \in Nat
    BY ChannelAssumption DEF IInv, TypeOK
  <2> QED BY <1>1, <1>2, <2>1, <2>2, Lengths DEF IInv, Counted, Tokens, NoFaults
<1> QED BY <1>3, <1>4, <1>5, <1>6 DEF IInv

LEMMA PushTooLongKeeps == ASSUME IInv, PushTooLong PROVE IInv'
BY PushEndKeeps DEF PushTooLong, Returns

LEMMA PushDropKeeps == ASSUME IInv, PushDrop PROVE IInv'
<1>1. PICK ret \in {"error", "ok"} : Return(ret)
  BY DEF PushDrop
<1>2. p_pc \in {"push", "refused"}
  BY DEF PushDrop, MustWait
<1> QED BY <1>1, <1>2, PushEndKeeps DEF PushDrop, Returns

LEMMA PushPutKeeps == ASSUME IInv, PushPut PROVE IInv'
<1>1. /\ p_pc = "push" /\ p_pc' = "token" /\ in_push /\ calls # <<>>
      /\ UNCHANGED <<pipe, push_list, calls, in_push, c_pc, count, handled>>
  BY DEF IInv, Shape, PushPut, consumerVars
<1>2. Current \in 1 .. Len(calls) /\ Current = Len(calls)
  BY <1>1, Lengths DEF IInv, Current
<1>3. /\ lens' \in Seq(Lens) /\ order' \in Seq(CallIds)
      /\ Len(lens') = Len(lens) + 1 /\ Len(order') = Len(order) + 1
      /\ order'[Len(order) + 1] = Current
      /\ \A i \in 1 .. Len(order) : order'[i] = order[i]
      /\ free' \in Nat \ {0}
      /\ UNCHANGED pulled
  BY <1>2, RingPutFacts DEF IInv, PushPut
<1>4. TypeOK'
  BY <1>1, <1>3, Lengths DEF IInv, TypeOK, PCs
<1>5. Shape'
  BY <1>1, <1>3 DEF IInv, Shape
<1>6. Older'
  BY <1>1, <1>2, <1>3, Lengths DEF IInv, Older, OlderIn, Due
<1>7. Counted' /\ Tokens'
  <2>1. /\ WaitingLen' = WaitingLen /\ WaitingLen \in Nat
        /\ TokenDue = 0 /\ TokenDue' = 1 /\ Due /\ ~Due'
    BY <1>1, Lengths DEF IInv, WaitingLen, TokenDue, Due
  <2>2. pipe \in Nat /\ count \in Nat
    BY ChannelAssumption DEF IInv, TypeOK
  <2> QED BY <1>1, <1>3, <2>1, <2>2, Lengths DEF IInv, Counted, Tokens, NoFaults
<1> QED BY <1>4, <1>5, <1>6, <1>7 DEF IInv

LEMMA PushTokenKeeps == ASSUME IInv, PushToken PROVE IInv'
<1>1. /\ p_pc = "token" /\ p_pc' = "idle" /\ calls # <<>>
      /\ UNCHANGED <<lens, pulled, free, order, push_list, in_push, c_pc, count, handled>>
  BY DEF IInv, Shape, PushToken, ringVars, consumerVars
<1>2. calls' \in Seq(Calls) /\ Len(calls') = Len(calls)
  BY <1>1, ReturnFacts DEF IInv, PushToken, Returns
<1>3. pipe' \in 0 .. PipeCap /\ pipe' <= pipe + 1 /\ (pipe < PipeCap => pipe' = pipe + 1)
  BY WriteFacts DEF IInv, PushToken
<1>4. TypeOK'
  BY <1>1, <1>2, <1>3 DEF IInv, TypeOK, PCs
<1>5. Shape'
  BY <1>1 DEF IInv, Shape
<1>6. Older'
  BY <1>1, <1>2, OlderKept DEF IInv, Due
<1>7. Counted' /\ Tokens'
  <2>1. pipe \in Nat /\ PipeCap \in Nat /\ pipe' \in Nat
    BY <1>3, ChannelAssumption DEF IInv, TypeOK
  <2>2. NoFaults => pipe < PipeCap
    BY <1>1, <2>1, Lengths, ChannelAssumption
    DEF IInv, Counted, WaitingLen, TokenDue, Due, NoFaults
  <2> QED BY <1>1, <1>2, <1>3, <2>1, <2>2, Lengths
      DEF IInv, Counted, Tokens, WaitingLen, TokenDue, Due, NoFaults
<1> QED BY <1>4, <1>5, <1>6, <1>7 DEF IInv

LEMMA PushWaitKeeps == ASSUME IInv, PushWait PROVE IInv'
<1>0. p_pc \in {"push", "refused"}
  BY DEF PushWait, MustWait
<1>1. CASE UNCHANGED push_list /\ Return("error")
  BY <1>0, <1>1, PushEndKeeps DEF PushWait, Returns
<1>2. CASE push_list' = Append(push_list, Current) /\ Return("ok")
  <2>1. /\ p_pc' = "idle" /\ in_push /\ calls # <<>>
        /\ UNCHANGED <<lens, pulled, free, order, pipe, in_push, c_pc, count, handled>>
    BY <1>0 DEF IInv, Shape, PushWait, ringVars, consumerVars
  <2>2. calls' \in Seq(Calls) /\ Len(calls') = Len(calls)
    BY <1>2, <2>1, ReturnFacts DEF IInv, Returns
  <2>3. Current \in CallIds /\ Current = Len(calls)
    BY <2>1, Lengths DEF IInv, Current, CallIds
  <2>4. /\ push_list' \in Seq(CallIds) /\ Len(push_list') = Len(push_list) + 1
        /\ push_list'[Len(push_list) + 1] = Current
        /\ \A i \in 1 .. Len(push_list) : push_list'[i] = push_list[i]
    BY <1>2, <2>3, AppendProperties DEF IInv, TypeOK
  <2>5. TypeOK'
    BY <2>1, <2>2, <2>4 DEF IInv, TypeOK, PCs
  <2>6. Shape'
    BY <2>1 DEF IInv, Shape
  <2>7. Older'
    <3>1. ~Due' /\ Len(push_list) \in Nat
      BY <2>1, Lengths DEF IInv, Due
    <3>2. OlderIn(order)' /\ OlderIn(handled)'
      BY <2>1, <2>2, <3>1 DEF IInv, Older, OlderIn
    <3>3. \A i \in 1 .. Len(push_list) : push_list[i] <= Len(calls)
      BY DEF IInv, Older, OlderIn
    <3>4. \A i \in 1 .. Len(push_list') :
            i = Len(push_list) + 1 \/ i \in 1 .. Len(push_list)
      BY <2>4, <3>1
    <3>5. \A i \in 1 .. Len(push_list') : push_list'[i] <= Len(calls')
      BY <2>2, <2>3, <2>4, <3>1, <3>3, <3>4, Lengths DEF IInv
    <3>6. OlderIn(push_list)'
      BY <3>1, <3>5 DEF OlderIn
    <3> QED BY <3>2, <3>6 DEF Older
  <2>8. Counted' /\ Tokens'
    <3>1. /\ WaitingLen = Len(push_list) /\ WaitingLen' = Len(push_list) + 1
          /\ TokenDue = 0 /\ TokenDue' = 0 /\ Due /\ ~Due'
      BY <1>0, <2>1, <2>4 DEF WaitingLen, TokenDue, Due
    <3>2. pipe \in Nat /\ count \in Nat
      BY ChannelAssumption DEF IInv, TypeOK
    <3> QED BY <2>1, <2>2, <2>4, <3>1, <3>2, Lengths DEF IInv, Counted, Tokens, NoFaults
  <2> QED BY <2>5, <2>6, <2>7, <2>8 DEF IInv
<1> QED BY <1>1, <1>2 DEF PushWait

LEMMA ProducerCrashKeeps == ASSUME IInv, ProducerCrash PROVE IInv'
<1>1. /\ push_list' = <<>> /\ p_pc' = "idle" /\ in_push' = FALSE /\ ~NoFaults
      /\ UNCHANGED <<lens, pulled, free, order, pipe, c_pc, count, handled>>
  BY DEF ProducerCrash, NoFaults, ringVars, consumerVars
<1>2. calls' \in Seq(Calls) /\ Len(calls') = Len(calls)
  <2>1. CASE in_push /\ p_pc # "idle"
    BY <2>1, ReturnFacts DEF IInv, Shape, ProducerCrash, Returns
  <2>2. CASE ~(in_push /\ p_pc # "idle")
    BY <2>2 DEF IInv, TypeOK, ProducerCrash
  <2> QED BY <2>1, <2>2
<1>3. push_list' \in Seq(CallIds) /\ Len(push_list') = 0
  BY <1>1, EmptySeq
<1>4. TypeOK'
  BY <1>1, <1>2, <1>3 DEF IInv, TypeOK, PCs
<1>5. Shape'
  BY <1>1 DEF IInv, Shape
<1>6. Older'
  BY <1>1, <1>2, OlderKept DEF IInv, Due
<1>7. Counted' /\ Tokens'
  <2>1. pipe \in Nat /\ WaitingLen \in Nat
    BY Lengths, ChannelAssumption DEF IInv, TypeOK, WaitingLen, Shape
  <2>2. pipe <= Len(order) /\ Len(order) <= Len(calls)
    BY <2>1, Lengths DEF IInv, Counted, TokenDue
  <2>3. TokenDue' = 0 /\ WaitingLen' = 0 /\ ~Due' /\ ~NoFaults'
    BY <1>1, <1>3 DEF TokenDue, WaitingLen, Due, NoFaults
  <2> QED BY <1>1, <1>2, <2>1, <2>2, <2>3, Lengths DEF IInv, Counted, Tokens
<1> QED BY <1>4, <1>5, <1>6, <1>7 DEF IInv

(* What the consumer's steps leave alone. *)
LEMMA ConsumerKeeps ==
  ASSUME IInv, UNCHANGED <<lens, order, producerVars>>,
         pulled' \in Seq(Blocks), Len(pulled') <= Len(lens), free' \in Nat \ {0},
         pipe' \in 0 .. PipeCap, pipe' <= pipe,
         c_pc' \in {"wait", "pull", "handle"}, count' \in 0 .. BatchMax,
         c_pc' = "handle" => pulled' # <<>>, c_pc' = "wait" => count' = 0,
         handled' \in Seq(CallIds), OlderIn(handled)', Tokens'
  PROVE  IInv'
<1>1. UNCHANGED <<push_list, calls, p_pc, in_push>>
  BY DEF producerVars
<1>2. TypeOK'
  BY <1>1 DEF IInv, TypeOK, Blocks
<1>3. Shape'
  BY <1>1 DEF IInv, Shape
<1>4. Older'
  BY <1>1 DEF IInv, Older, OlderIn, Due
<1>5. Counted'
  <2>1. WaitingLen' = WaitingLen /\ TokenDue' = TokenDue /\ Due' = Due
    BY <1>1 DEF WaitingLen, TokenDue, Due
  <2>2. pipe \in Nat /\ pipe' \in Nat /\ TokenDue \in Nat
    BY ChannelAssumption DEF IInv, TypeOK, TokenDue
  <2> QED BY <1>1, <2>1, <2>2, Lengths DEF IInv, Counted
<1> QED BY <1>2, <1>3, <1>4, <1>5 DEF IInv

LEMMA OlderHandled ==
  ASSUME IInv, UNCHANGED <<producerVars, handled>>
  PROVE  OlderIn(handled)' /\ handled' \in Seq(CallIds)
BY DEF IInv, Older, OlderIn, Due, producerVars, TypeOK

LEMMA WakeUpKeeps == ASSUME IInv, WakeUp PROVE IInv'
<1>1. /\ c_pc = "wait" /\ c_pc' = "pull" /\ count = 0 /\ count' = BatchMax
      /\ UNCHANGED <<lens, pulled, free, order, producerVars, handled>>
  BY DEF IInv, Shape, WakeUp, ringVars
<1>2. /\ pipe \in Nat /\ pipe' \in 0 .. PipeCap /\ pipe' <= pipe
      /\ pipe <= pipe' + BatchMax /\ BatchMax \in Nat
  BY ChannelAssumption DEF IInv, TypeOK, WakeUp
<1>3. /\ pulled' \in Seq(Blocks) /\ Len(pulled') <= Len(lens) /\ free' \in Nat \ {0}
      /\ count' \in 0 .. BatchMax
  BY <1>1, <1>2 DEF IInv, TypeOK, Blocks
<1>4. OlderIn(handled)' /\ handled' \in Seq(CallIds)
  BY <1>1, OlderHandled
<1>5. Tokens'
  <2>1. TokenDue' = TokenDue /\ TokenDue \in Nat
    BY <1>1 DEF TokenDue, producerVars
  <2>2. pipe' \in Nat
    BY <1>2, ChannelAssumption
  <2>3. /\ Len(order) \in Nat /\ Len(pulled) \in Nat
        /\ NoFaults => Len(order) - Len(pulled) <= pipe + TokenDue
    BY <1>1, <1>2, <2>1, Lengths DEF IInv, Tokens
  <2>4. NoFaults => Len(order) - Len(pulled) <= pipe' + TokenDue + BatchMax
    <3>1. \A a \in Int : \A p, q, t, b \in Nat :
            a <= p + t /\ p <= q + b => a <= q + t + b
      OBVIOUS
    <3>2. Len(order) - Len(pulled) \in Int
      BY <2>3
    <3> QED BY <1>2, <2>1, <2>2, <2>3, <3>1, <3>2
  <2>5. order' = order /\ pulled' = pulled /\ count' = BatchMax
    BY <1>1
  <2> QED BY <2>1, <2>4, <2>5 DEF Tokens, NoFaults
<1> QED BY <1>1, <1>2, <1>3, <1>4, <1>5, ConsumerKeeps

LEMMA PullKeeps == ASSUME IInv, Pull PROVE IInv'
<1>1. /\ c_pc = "pull" /\ c_pc' = "handle" /\ count > 0 /\ count' = count - 1
      /\ UNCHANGED <<order, pipe, producerVars, handled>>
  BY DEF Pull
<1>2. /\ pulled' \in Seq(Blocks) /\ Len(pulled') = Len(pulled) + 1
      /\ Len(pulled) + 1 \in 1 .. Len(order)
      /\ free' \in Nat \ {0} /\ UNCHANGED lens
  BY TakeFacts DEF IInv, Pull
<1>3. /\ pipe \in 0 .. PipeCap /\ pipe' = pipe /\ pipe \in Nat
      /\ count \in Nat /\ count' \in 0 .. BatchMax /\ Len(pulled') <= Len(lens)
  BY <1>1, <1>2, Lengths, ChannelAssumption DEF IInv, TypeOK
<1>4. pulled' # <<>>
  <2>1. Len(pulled') # 0
    BY <1>2, Lengths DEF IInv
  <2> QED BY <2>1
<1>5. OlderIn(handled)' /\ handled' \in Seq(CallIds)
  BY <1>1, OlderHandled
<1>6. Tokens'
  <2>1. TokenDue' = TokenDue /\ TokenDue \in Nat
    BY <1>1 DEF TokenDue, producerVars
  <2> QED BY <1>1, <1>2, <1>3, <2>1, Lengths DEF IInv, Tokens, NoFaults
<1> QED BY <1>1, <1>2, <1>3, <1>4, <1>5, <1>6, ConsumerKeeps

LEMMA PullFailsKeeps == ASSUME IInv, PullFails PROVE IInv'
<1>1. /\ c_pc' = "wait" /\ count' = 0 /\ ~NoFaults
      /\ UNCHANGED <<order, pipe, producerVars, handled>>
  BY DEF PullFails, NoFaults
<1>2. /\ pulled' \in Seq(Blocks) /\ Len(pulled') = Len(pulled) + 1
      /\ Len(pulled) + 1 \in 1 .. Len(order)
      /\ free' \in Nat \ {0} /\ UNCHANGED lens
  BY TakeFacts DEF IInv, PullFails
<1>3. /\ pipe \in 0 .. PipeCap /\ pipe' = pipe /\ pipe \in Nat
      /\ count' \in 0 .. BatchMax /\ Len(pulled') <= Len(lens)
  BY <1>1, <1>2, Lengths, ChannelAssumption DEF IInv, TypeOK
<1>4. OlderIn(handled)' /\ handled' \in Seq(CallIds)
  BY <1>1, OlderHandled
<1>5. Tokens'
  BY <1>1 DEF Tokens, NoFaults
<1> QED BY <1>1, <1>2, <1>3, <1>4, <1>5, ConsumerKeeps

LEMMA HandleKeeps == ASSUME IInv, Handle PROVE IInv'
<1> DEFINE k == order[Len(pulled)]
<1>1. /\ c_pc = "handle" /\ c_pc' = "pull" /\ handled' = Append(handled, k)
      /\ UNCHANGED <<lens, pulled, free, order, pipe, producerVars, count>>
  BY DEF Handle, ringVars
<1>2. Len(pulled) \in 1 .. Len(order) /\ k \in CallIds
  <2>1. Len(pulled) \in 1 .. Len(order)
    BY <1>1, Lengths DEF IInv, Shape
  <2> QED BY <2>1, ElementOfSeq DEF IInv, TypeOK
<1>3. k <= Len(calls) /\ (Due => k < Len(calls))
  BY <1>2 DEF IInv, Older, OlderIn
<1> HIDE DEF k
<1>4. /\ handled' \in Seq(CallIds) /\ Len(handled') = Len(handled) + 1
      /\ handled'[Len(handled) + 1] = k
      /\ \A i \in 1 .. Len(handled) : handled'[i] = handled[i]
  BY <1>1, <1>2, AppendProperties DEF IInv, TypeOK
<1>5. OlderIn(handled)'
  <2>1. Due' = Due /\ calls' = calls
    BY <1>1 DEF Due, producerVars
  <2>2. \A i \in 1 .. Len(handled') : i = Len(handled) + 1 \/ i \in 1 .. Len(handled)
    BY <1>4, Lengths DEF IInv
  <2>3. OlderIn(handled)
    BY DEF IInv, Older
  <2> QED BY <1>3, <1>4, <2>1, <2>2, <2>3 DEF OlderIn
<1>6. /\ pulled' \in Seq(Blocks) /\ Len(pulled') <= Len(lens) /\ free' \in Nat \ {0}
      /\ pipe' \in 0 .. PipeCap /\ pipe' <= pipe /\ count' \in 0 .. BatchMax
  BY <1>1, ChannelAssumption DEF IInv, TypeOK, Blocks
<1>7. Tokens'
  BY <1>1 DEF IInv, Tokens, NoFaults, TokenDue, producerVars
<1> QED BY <1>1, <1>4, <1>5, <1>6, <1>7, ConsumerKeeps

LEMMA PullDoneKeeps == ASSUME IInv, PullDone PROVE IInv'
<1>1. /\ c_pc' = "wait" /\ count' = 0
      /\ UNCHANGED <<lens, pulled, free, order, pipe, producerVars, handled>>
  BY DEF PullDone, ringVars
<1>2. /\ pulled' \in Seq(Blocks) /\ Len(pulled') <= Len(lens) /\ free' \in Nat \ {0}
      /\ pipe \in Nat /\ pipe' \in 0 .. PipeCap /\ pipe' <= pipe
      /\ count' \in 0 .. BatchMax
  BY <1>1, ChannelAssumption DEF IInv, TypeOK, Blocks
<1>3. OlderIn(handled)' /\ handled' \in Seq(CallIds)
  BY <1>1, OlderHandled
<1>4. Tokens'
  <2>1. TokenDue' = TokenDue /\ TokenDue \in Nat
    BY <1>1 DEF TokenDue, producerVars
  <2>2. CASE count = 0
    BY <1>1, <2>1, <2>2 DEF IInv, Tokens, NoFaults
  <2>3. CASE InRing = <<>>
    <3>1. Len(order) - Len(pulled) = 0
      BY <2>3, RingLength, EmptySeq DEF IInv
    <3> QED BY <1>1, <1>2, <2>1, <3>1 DEF Tokens
  <2> QED BY <2>2, <2>3 DEF PullDone
<1> QED BY <1>1, <1>2, <1>3, <1>4, ConsumerKeeps

LEMMA ConsumerCrashKeeps == ASSUME IInv, ConsumerCrash PROVE IInv'
<1>1. /\ c_pc' = "wait" /\ count' = 0 /\ ~NoFaults
      /\ UNCHANGED <<lens, pulled, free, order, pipe, producerVars, handled>>
  BY DEF ConsumerCrash, NoFaults, ringVars
<1>2. /\ pulled' \in Seq(Blocks) /\ Len(pulled') <= Len(lens) /\ free' \in Nat \ {0}
      /\ pipe \in Nat /\ pipe' \in 0 .. PipeCap /\ pipe' <= pipe
      /\ count' \in 0 .. BatchMax
  BY <1>1, ChannelAssumption DEF IInv, TypeOK, Blocks
<1>3. OlderIn(handled)' /\ handled' \in Seq(CallIds)
  BY <1>1, OlderHandled
<1>4. Tokens'
  BY <1>1 DEF Tokens, NoFaults
<1> QED BY <1>1, <1>2, <1>3, <1>4, ConsumerKeeps

LEMMA NextKeeps == IInv /\ [Next]_vars => IInv'
<1> SUFFICES ASSUME IInv, [Next]_vars PROVE IInv'
  OBVIOUS
<1>1. ASSUME NEW len \in Lens, NEW safe \in BOOLEAN, PushCall(len, safe) PROVE IInv'
  BY <1>1, PushCallKeeps
<1>2. CASE PrugeCall     BY <1>2, PrugeCallKeeps
<1>3. CASE PrugePut      BY <1>3, PrugePutKeeps
<1>4. CASE PrugeToken    BY <1>4, PrugeTokenKeeps
<1>5. CASE PrugeReturn   BY <1>5, PrugeReturnKeeps
<1>6. CASE PushTooLong   BY <1>6, PushTooLongKeeps
<1>7. CASE PushPut       BY <1>7, PushPutKeeps
<1>8. CASE PushToken     BY <1>8, PushTokenKeeps
<1>9. CASE PushDrop      BY <1>9, PushDropKeeps
<1>10. CASE PushWait     BY <1>10, PushWaitKeeps
<1>11. CASE ProducerCrash  BY <1>11, ProducerCrashKeeps
<1>12. CASE WakeUp       BY <1>12, WakeUpKeeps
<1>13. CASE Pull         BY <1>13, PullKeeps
<1>14. CASE PullFails    BY <1>14, PullFailsKeeps
<1>15. CASE Handle       BY <1>15, HandleKeeps
<1>16. CASE PullDone     BY <1>16, PullDoneKeeps
<1>17. CASE ConsumerCrash  BY <1>17, ConsumerCrashKeeps
<1>18. CASE UNCHANGED vars
  <2>1. UNCHANGED <<lens, pulled, free, order, pipe, push_list, calls, p_pc, in_push,
                    c_pc, count, handled>>
    BY <1>18 DEF vars, ringVars, producerVars, consumerVars
  <2>2. TypeOK' /\ Shape' /\ Older' /\ Counted' /\ Tokens'
    BY <2>1 DEF IInv, TypeOK, Shape, Older, OlderIn, Counted, Tokens, WaitingLen,
       TokenDue, Due, NoFaults
  <2> QED BY <2>2 DEF IInv
<1> QED BY <1>1, <1>2, <1>3, <1>4, <1>5, <1>6, <1>7, <1>8, <1>9, <1>10, <1>11, <1>12,
        <1>13, <1>14, <1>15, <1>16, <1>17, <1>18 DEF Next, ProducerStep, ConsumerStep

LEMMA Invariance == Spec => []IInv
BY InitHolds, NextKeeps, PTL DEF Spec

-----------------------------------------------------------------------------
(* The theorems.                                                           *)

(* Every variable keeps its type: in particular a block number is the      *)
(* number of a call, nothing is pulled that was not put, and the ring      *)
(* always keeps a byte free (shmq.cpp:41-130).                             *)
THEOREM TypeCorrect == Spec => []TypeOK
<1>1. IInv => TypeOK
  BY DEF IInv
<1> QED BY <1>1, Invariance, PTL

(* No wake-up is lost: as long as nothing fails and the pipe has room,     *)
(* every block in the ring is covered by a token or by the batch the       *)
(* consumer is taking (write_pipe, pruge_pipe and the loop of              *)
(* handle_input, shm_revent.cpp:37-59).                                    *)
THEOREM NoLostWakeUp == Spec => []WakeUpPending
<1>1. IInv => WakeUpPending
  BY RingLength DEF IInv, Tokens, WakeUpPending
<1> QED BY <1>1, Invariance, PTL

-----------------------------------------------------------------------------
(* The refinement: each action is a step of LossyFifo or changes nothing   *)
(* it sees.                                                                *)

LEMMA Parts ==
  ASSUME IInv
  PROVE  /\ InHand \in Seq(CallIds) /\ InRing \in Seq(CallIds)
         /\ Waiting \in Seq(CallIds) /\ UnderWay \in Seq(CallIds)
         /\ InHand \o InRing \in Seq(CallIds)
<1>1. InHand \in Seq(CallIds)
  <2>1. CASE c_pc = "handle"
    <3>1. Len(pulled) \in 1 .. Len(order)
      BY <2>1, Lengths DEF IInv, Shape
    <3>2. order[Len(pulled)] \in CallIds
      BY <3>1, ElementOfSeq DEF IInv, TypeOK
    <3> QED BY <2>1, <3>2 DEF InHand
  <2>2. CASE c_pc # "handle"
    BY <2>2 DEF InHand
  <2> QED BY <2>1, <2>2
<1>2. InRing \in Seq(CallIds)
  BY RingLength DEF IInv
<1>3. Waiting \in Seq(CallIds)
  <2>1. CASE p_pc = "listtoken"
    BY <2>1, HeadTailProperties DEF IInv, TypeOK, Shape, Waiting
  <2>2. CASE p_pc # "listtoken"
    BY <2>2 DEF IInv, TypeOK, Waiting
  <2> QED BY <2>1, <2>2
<1>4. InHand \o InRing \in Seq(CallIds)
  BY <1>1, <1>2, ConcatProperties
<1>5. UnderWay \in Seq(CallIds)
  BY <1>3, <1>4, ConcatProperties DEF UnderWay
<1> QED BY <1>1, <1>2, <1>3, <1>4, <1>5

(* No block under way is moved, and the list's tail is what waits.         *)
LEMMA Stutters ==
  ASSUME UNCHANGED <<order, pulled, push_list, handled>>,
         c_pc' = "handle" <=> c_pc = "handle",
         p_pc' = "listtoken" <=> p_pc = "listtoken"
  PROVE  UNCHANGED <<UnderWay, handled>>
<1>1. InHand' = InHand
  BY DEF InHand
<1>2. InRing' = InRing
  BY DEF InRing, Ring!Oldest
<1>3. Waiting' = Waiting
  BY DEF Waiting
<1> QED BY <1>1, <1>2, <1>3 DEF UnderWay

(* A block put into the ring is behind all the others there. *)
LEMMA RingAppend ==
  ASSUME IInv, NEW k \in CallIds, order' = Append(order, k), UNCHANGED <<pulled, c_pc>>
  PROVE  InRing' = Append(InRing, k) /\ InHand' = InHand
<1>1. order \in Seq(CallIds) /\ Len(pulled) \in 0 .. Len(order)
  BY Lengths DEF IInv, TypeOK
<1>2. InRing' = Append(InRing, k)
  BY <1>1, AfterAppend DEF InRing, After, Ring!Oldest
<1>3. InHand' = InHand
  <2>1. CASE c_pc = "handle"
    <3>1. Len(pulled) \in 1 .. Len(order)
      BY <2>1, Lengths DEF IInv, Shape
    <3>2. order'[Len(pulled)] = order[Len(pulled)]
      BY <1>1, <3>1, AppendProperties
    <3> QED BY <2>1, <3>2 DEF InHand
  <2>2. CASE c_pc # "handle"
    BY <2>2 DEF InHand
  <2> QED BY <2>1, <2>2
<1> QED BY <1>2, <1>3

(* A pull takes the first block of the ring. *)
LEMMA RingTake ==
  ASSUME IInv, Ring!Take, UNCHANGED order
  PROVE  /\ InRing = <<order[Len(pulled) + 1]>> \o InRing'
         /\ order[Len(pulled) + 1] \in CallIds
         /\ InRing' \in Seq(CallIds)
         /\ Len(pulled') = Len(pulled) + 1
<1>1. /\ order \in Seq(CallIds) /\ Len(pulled) \in 0 .. Len(order)
      /\ Len(pulled) + 1 \in 1 .. Len(order)
      /\ Len(pulled') = Len(pulled) + 1
  BY Lengths, TakeFacts DEF IInv, TypeOK
<1>2. Len(pulled) < Len(order) /\ Len(pulled) + 1 \in 0 .. Len(order)
  BY <1>1
<1>3. InRing' = After(order, Len(pulled) + 1)
  BY <1>1 DEF InRing, After, Ring!Oldest
<1>4. InRing = After(order, Len(pulled))
  BY DEF InRing, After, Ring!Oldest
<1>5. After(order, Len(pulled)) = <<order[Len(pulled) + 1]>> \o After(order, Len(pulled) + 1)
  BY <1>1, <1>2, AfterFirst
<1>6. order[Len(pulled) + 1] \in CallIds
  BY <1>1, ElementOfSeq
<1>7. InRing' \in Seq(CallIds)
  BY <1>1, <1>2, <1>3, AfterType
<1> QED BY <1>1, <1>3, <1>4, <1>5, <1>6, <1>7

LEMMA PrugePutMaps == ASSUME IInv, PrugePut PROVE UNCHANGED <<UnderWay, handled>>
<1> DEFINE k == Head(push_list)
<1>1. /\ push_list \in Seq(CallIds) /\ push_list # <<>>
      /\ k \in CallIds /\ Tail(push_list) \in Seq(CallIds)
      /\ push_list = <<k>> \o Tail(push_list)
  BY HeadTailProperties, ListSplit DEF IInv, TypeOK, PrugePut
<1>2. order' = Append(order, k) /\ UNCHANGED <<pulled, c_pc, push_list, handled>>
  BY DEF PrugePut, RingPut, Ring!Put, consumerVars
<1>3. Waiting = push_list /\ Waiting' = Tail(push_list)
  BY <1>2 DEF PrugePut, Waiting
<1> HIDE DEF k
<1>4. InRing' = Append(InRing, k) /\ InHand' = InHand
  BY <1>1, <1>2, RingAppend
<1>5. InHand \o (InRing \o <<k>>) = (InHand \o InRing) \o <<k>>
  BY <1>1, Parts, ConcatAssociative
<1>6. ((InHand \o InRing) \o <<k>>) \o Tail(push_list)
      = (InHand \o InRing) \o (<<k>> \o Tail(push_list))
  <2> DEFINE q == InHand \o InRing  t == Tail(push_list)
  <2>1. q \in Seq(CallIds) /\ t \in Seq(CallIds) /\ <<k>> \in Seq(CallIds)
    BY <1>1, Parts
  <2> HIDE DEF q, t
  <2>2. (q \o <<k>>) \o t = q \o (<<k>> \o t)
    BY <2>1, ConcatAssociative
  <2> QED BY <2>2 DEF q, t
<1>7. Append(InRing, k) = InRing \o <<k>>
  BY <1>1, Parts, AppendIsConcat
<1> QED BY <1>1, <1>2, <1>3, <1>4, <1>5, <1>6, <1>7 DEF UnderWay

LEMMA PrugeTokenMaps == ASSUME IInv, PrugeToken PROVE UNCHANGED <<UnderWay, handled>>
<1>1. /\ p_pc = "listtoken" /\ p_pc' = "pruge" /\ push_list' = Tail(push_list)
      /\ UNCHANGED <<order, pulled, c_pc, handled>>
  BY DEF PrugeToken, ringVars, consumerVars
<1>2. InHand' = InHand /\ InRing' = InRing /\ Waiting' = Waiting
  BY <1>1 DEF InHand, InRing, Ring!Oldest, Waiting
<1> QED BY <1>1, <1>2 DEF UnderWay

LEMMA PullMaps == ASSUME IInv, Pull PROVE UNCHANGED <<UnderWay, handled>>
<1> DEFINE k == order[Len(pulled) + 1]
<1>1. /\ InRing = <<k>> \o InRing' /\ k \in CallIds /\ InRing' \in Seq(CallIds)
      /\ Len(pulled') = Len(pulled) + 1
  BY RingTake DEF Pull
<1>2. /\ c_pc = "pull" /\ c_pc' = "handle"
      /\ UNCHANGED <<order, push_list, p_pc, handled>>
  BY DEF Pull, producerVars
<1>3. InHand = <<>> /\ InHand' = <<k>>
  BY <1>1, <1>2 DEF InHand
<1>4. Waiting' = Waiting
  BY <1>2 DEF Waiting
<1> HIDE DEF k
<1>5. InHand \o InRing = InHand' \o InRing'
  BY <1>1, <1>3, Parts, ConcatEmptySeq
<1> QED BY <1>2, <1>4, <1>5 DEF UnderWay

(* Every block that is under way or handled is older than the call whose   *)
(* block is still due.                                                     *)
LEMMA CurrentIsNewest ==
  ASSUME IInv, Due
  PROVE  Lossy!Newest(Current) /\ Current \in CallIds
<1>1. Current \in CallIds /\ Current = Len(calls)
  BY Lengths DEF IInv, Shape, Due, Current, CallIds
<1> DEFINE Less(s) == \A i \in 1 .. Len(s) : s[i] < Current
<1>2. Less(order) /\ Less(push_list) /\ Less(handled)
  BY <1>1 DEF IInv, Older, OlderIn
<1>3. Less(InHand)
  <2>1. CASE c_pc = "handle"
    <3>1. Len(pulled) \in 1 .. Len(order)
      BY <2>1, Lengths DEF IInv, Shape
    <3> QED BY <1>2, <2>1, <3>1 DEF InHand
  <2>2. CASE c_pc # "handle"
    BY <2>2 DEF InHand
  <2> QED BY <2>1, <2>2
<1>4. Less(InRing)
  <2>1. Len(pulled) \in Nat /\ Len(order) \in Nat /\ Len(pulled) + 1 \in Int
    BY Lengths DEF IInv
  <2>2. \A i \in Len(pulled) + 1 .. Len(order) : order[i] \in CallIds
    BY <2>1, ElementOfSeq DEF IInv, TypeOK
  <2>3. \A i \in 1 .. Len(order) - Len(pulled) : InRing[i] = order[Len(pulled) + i]
    BY <2>1, <2>2, SubSeqProperties DEF InRing, Ring!Oldest
  <2>4. Len(InRing) = Len(order) - Len(pulled)
    BY RingLength DEF IInv
  <2> QED BY <1>2, <2>1, <2>3, <2>4
<1>5. Less(Waiting)
  <2>1. CASE p_pc = "listtoken"
    <3>1. /\ Len(Tail(push_list)) = Len(push_list) - 1 /\ Len(push_list) \in Nat
          /\ \A i \in 1 .. Len(Tail(push_list)) : Tail(push_list)[i] = push_list[i + 1]
      BY <2>1, Lengths, HeadTailProperties DEF IInv, TypeOK, Shape
    <3> QED BY <1>2, <2>1, <3>1 DEF Waiting
  <2>2. CASE p_pc # "listtoken"
    BY <1>2, <2>2 DEF Waiting
  <2> QED BY <2>1, <2>2
<1>6. \A s, t \in Seq(CallIds) : Less(s) /\ Less(t) => Less(s \o t)
  <2> SUFFICES ASSUME NEW s \in Seq(CallIds), NEW t \in Seq(CallIds), Less(s), Less(t)
               PROVE  Less(s \o t)
    OBVIOUS
  <2>1. /\ Len(s) \in Nat /\ Len(t) \in Nat /\ Len(s \o t) = Len(s) + Len(t)
        /\ \A i \in 1 .. Len(s) + Len(t) : (s \o t)[i] = IF i <= Len(s) THEN s[i] ELSE t[i - Len(s)]
    BY ConcatProperties, LenProperties
  <2> SUFFICES ASSUME NEW i \in 1 .. Len(s \o t) PROVE (s \o t)[i] < Current
    OBVIOUS
  <2>2. CASE i <= Len(s)
    BY <2>1, <2>2
  <2>3. CASE ~(i <= Len(s))
    <3>1. i - Len(s) \in 1 .. Len(t)
      BY <2>1, <2>3
    <3> QED BY <2>1, <2>3, <3>1
  <2> QED BY <2>2, <2>3
<1>7. Less(UnderWay)
  <2> HIDE DEF Less
  <2>1. Less(InHand \o InRing)
    BY <1>3, <1>4, <1>6, Parts
  <2> QED BY <1>5, <1>6, <2>1, Parts DEF UnderWay
<1>8. DOMAIN UnderWay = 1 .. Len(UnderWay) /\ DOMAIN handled = 1 .. Len(handled)
  <2>1. UnderWay \in Seq(CallIds) /\ handled \in Seq(CallIds)
    BY Parts DEF IInv, TypeOK
  <2> HIDE DEF Less
  <2> QED BY <2>1, LenProperties
<1>9. \A j \in Lossy!Range(UnderWay) \cup Lossy!Range(handled) : j < Current
  BY <1>2, <1>7, <1>8 DEF Lossy!Range
<1> QED BY <1>1, <1>9 DEF Lossy!Newest

LEMMA PushPutMaps == ASSUME IInv, PushPut PROVE Lossy!Send(Current)
<1>1. /\ p_pc = "push" /\ p_pc' = "token" /\ Due /\ push_list = <<>>
      /\ order' = Append(order, Current) /\ UNCHANGED <<pulled, c_pc, push_list, handled>>
  BY DEF IInv, Shape, Due, PushPut, RingPut, Ring!Put, consumerVars
<1>2. Lossy!Newest(Current) /\ Current \in CallIds
  BY <1>1, CurrentIsNewest
<1>3. InRing' = Append(InRing, Current) /\ InHand' = InHand
  BY <1>1, <1>2, RingAppend
<1>4. Waiting = <<>> /\ Waiting' = <<>>
  BY <1>1 DEF Waiting
<1> DEFINE k == Current  q == InHand \o InRing
<1>5. k \in CallIds /\ InHand \in Seq(CallIds) /\ InRing \in Seq(CallIds) /\ q \in Seq(CallIds)
  BY <1>2, Parts
<1>6. InHand \o Append(InRing, k) = Append(q, k) /\ Append(q, k) \in Seq(CallIds)
  <2>1. Append(InRing, k) = InRing \o <<k>> /\ Append(q, k) = q \o <<k>>
    <3> HIDE DEF k, q
    <3> QED BY <1>5, AppendIsConcat
  <2>2. <<k>> \in Seq(CallIds)
    BY <1>5
  <2>3. InHand \o (InRing \o <<k>>) = q \o <<k>>
    <3> HIDE DEF k
    <3> QED BY <1>5, <2>2, ConcatAssociative
  <2>4. Append(q, k) \in Seq(CallIds)
    <3> HIDE DEF k, q
    <3> QED BY <1>5, AppendProperties
  <2> QED BY <2>1, <2>3, <2>4
<1>7. UnderWay = q /\ UnderWay' = Append(q, k)
  <2>1. q \o <<>> = q /\ Append(q, k) \o <<>> = Append(q, k)
    <3> HIDE DEF q, k
    <3> QED BY <1>5, <1>6, ConcatEmptySeq
  <2> QED BY <1>3, <1>4, <1>6, <2>1 DEF UnderWay
<1> QED BY <1>1, <1>2, <1>7 DEF Lossy!Send

LEMMA PushWaitMaps ==
  ASSUME IInv, PushWait
  PROVE  Lossy!Send(Current) \/ UNCHANGED <<UnderWay, handled>>
<1>1. /\ p_pc \in {"push", "refused"} /\ p_pc' = "idle" /\ Due
      /\ UNCHANGED <<order, pulled, c_pc, handled>>
  BY DEF IInv, Shape, Due, PushWait, MustWait, ringVars, consumerVars
<1>2. CASE UNCHANGED push_list
  BY <1>1, <1>2, Stutters
<1>3. CASE push_list' = Append(push_list, Current)
  <2>1. Lossy!Newest(Current) /\ Current \in CallIds
    BY <1>1, CurrentIsNewest
  <2>2. InHand' = InHand /\ InRing' = InRing
    BY <1>1 DEF InHand, InRing, Ring!Oldest
  <2>3. Waiting = push_list /\ Waiting' = Append(Waiting, Current)
    BY <1>1, <1>3 DEF Waiting
  <2> DEFINE q == InHand \o InRing  w == Waiting  k == Current
  <2>4. q \in Seq(CallIds) /\ w \in Seq(CallIds) /\ k \in CallIds /\ <<k>> \in Seq(CallIds)
        /\ q \o w \in Seq(CallIds)
    BY <2>1, Parts DEF UnderWay
  <2>5. q \o Append(w, k) = Append(q \o w, k)
    <3> HIDE DEF q, w, k
    <3>1. Append(w, k) = w \o <<k>> /\ Append(q \o w, k) = (q \o w) \o <<k>>
      BY <2>4, AppendIsConcat
    <3> QED BY <2>4, <3>1, ConcatAssociative
  <2>6. UnderWay' = Append(UnderWay, Current)
    BY <2>2, <2>3, <2>5 DEF UnderWay
  <2> QED BY <1>1, <2>1, <2>6 DEF Lossy!Send
<1> QED BY <1>2, <1>3 DEF PushWait

(* The first block under way and what follows it. *)
LEMMA FirstUnderWay ==
  ASSUME NEW k \in CallIds, NEW a \in Seq(CallIds), NEW b \in Seq(CallIds)
  PROVE  LET u == (<<k>> \o a) \o b
         IN  u # <<>> /\ Head(u) = k /\ Tail(u) = a \o b
<1>1. <<k>> \in Seq(CallIds) /\ a \o b \in Seq(CallIds)
  BY ConcatProperties
<1>2. (<<k>> \o a) \o b = <<k>> \o (a \o b)
  BY <1>1, ConcatAssociative
<1> QED BY <1>1, <1>2, HeadTail

LEMMA HandleMaps == ASSUME IInv, Handle PROVE Lossy!Receive
<1> DEFINE k == order[Len(pulled)]
<1>1. /\ c_pc = "handle" /\ c_pc' = "pull" /\ handled' = Append(handled, k)
      /\ UNCHANGED <<order, pulled, push_list, p_pc>>
  BY DEF Handle, ringVars, producerVars
<1>2. k \in CallIds
  <2>1. Len(pulled) \in 1 .. Len(order)
    BY <1>1, Lengths DEF IInv, Shape
  <2> QED BY <2>1, ElementOfSeq DEF IInv, TypeOK
<1>3. InHand = <<k>> /\ InHand' = <<>> /\ InRing' = InRing /\ Waiting' = Waiting
  BY <1>1 DEF InHand, InRing, Ring!Oldest, Waiting
<1> HIDE DEF k
<1>4. UnderWay = (<<k>> \o InRing) \o Waiting /\ UnderWay' = InRing \o Waiting
  BY <1>3, Parts, ConcatEmptySeq DEF UnderWay
<1>5. UnderWay # <<>> /\ Head(UnderWay) = k /\ Tail(UnderWay) = UnderWay'
  <2>1. InRing \in Seq(CallIds) /\ Waiting \in Seq(CallIds)
    BY Parts
  <2> QED BY <1>2, <1>4, <2>1, FirstUnderWay
<1> QED BY <1>1, <1>5 DEF Lossy!Receive

LEMMA PullFailsMaps == ASSUME IInv, PullFails PROVE Lossy!LoseOldest
<1> DEFINE k == order[Len(pulled) + 1]
<1>1. /\ InRing = <<k>> \o InRing' /\ k \in CallIds /\ InRing' \in Seq(CallIds)
  BY RingTake DEF PullFails
<1>2. /\ c_pc = "pull" /\ c_pc' = "wait"
      /\ UNCHANGED <<order, push_list, p_pc, handled>>
  BY DEF PullFails, producerVars
<1>3. InHand = <<>> /\ InHand' = <<>> /\ Waiting' = Waiting
  BY <1>2 DEF InHand, Waiting
<1> HIDE DEF k
<1>4. UnderWay = (<<k>> \o InRing') \o Waiting /\ UnderWay' = InRing' \o Waiting
  <2>1. <<>> \o InRing = InRing /\ <<>> \o InRing' = InRing'
    BY <1>1, Parts, ConcatEmptySeq
  <2> QED BY <1>1, <1>3, <2>1 DEF UnderWay
<1>5. UnderWay # <<>> /\ Tail(UnderWay) = UnderWay'
  BY <1>1, <1>4, Parts, FirstUnderWay
<1> QED BY <1>2, <1>5 DEF Lossy!LoseOldest

LEMMA ConsumerCrashMaps ==
  ASSUME IInv, ConsumerCrash
  PROVE  Lossy!LoseOldest \/ UNCHANGED <<UnderWay, handled>>
<1>1. /\ c_pc' = "wait"
      /\ UNCHANGED <<order, pulled, push_list, p_pc, handled>>
  BY DEF ConsumerCrash, ringVars, producerVars
<1>2. CASE c_pc # "handle"
  BY <1>1, <1>2, Stutters
<1>3. CASE c_pc = "handle"
  <2> DEFINE k == order[Len(pulled)]
  <2>1. k \in CallIds
    <3>1. Len(pulled) \in 1 .. Len(order)
      BY <1>3, Lengths DEF IInv, Shape
    <3> QED BY <3>1, ElementOfSeq DEF IInv, TypeOK
  <2>2. InHand = <<k>> /\ InHand' = <<>> /\ InRing' = InRing /\ Waiting' = Waiting
    BY <1>1, <1>3 DEF InHand, InRing, Ring!Oldest, Waiting
  <2> HIDE DEF k
  <2>3. UnderWay = (<<k>> \o InRing) \o Waiting /\ UnderWay' = InRing \o Waiting
    BY <2>2, Parts, ConcatEmptySeq DEF UnderWay
  <2>4. UnderWay # <<>> /\ Tail(UnderWay) = UnderWay'
    BY <2>1, <2>3, Parts, FirstUnderWay
  <2> QED BY <1>1, <2>4 DEF Lossy!LoseOldest
<1> QED BY <1>2, <1>3

LEMMA ProducerCrashMaps ==
  ASSUME IInv, ProducerCrash
  PROVE  Lossy!Next \/ UNCHANGED <<UnderWay, handled>>
<1>1. /\ push_list' = <<>> /\ p_pc' = "idle"
      /\ UNCHANGED <<order, pulled, c_pc, handled>>
  BY DEF ProducerCrash, ringVars, consumerVars
<1>2. InHand' = InHand /\ InRing' = InRing /\ Waiting' = <<>>
  BY <1>1 DEF InHand, InRing, Ring!Oldest, Waiting
<1> DEFINE q == InHand \o InRing  w == Waiting  n == Len(Waiting)
<1>3. q \in Seq(CallIds) /\ w \in Seq(CallIds) /\ n \in Nat
  BY Parts, LenProperties
<1>4. UnderWay = q \o w /\ UnderWay' = q
  <2>1. q \o <<>> = q
    <3> HIDE DEF q
    <3> QED BY <1>3, ConcatEmptySeq
  <2> QED BY <1>2, <2>1 DEF UnderWay
<1>5. /\ Len(q) \in Nat /\ Len(q \o w) = Len(q) + n
      /\ \A i \in 1 .. Len(q) : (q \o w)[i] = q[i]
  <2> HIDE DEF q, w
  <2>1. Len(q) \in Nat /\ n = Len(w)
    BY <1>3, LenProperties DEF w
  <2> HIDE DEF n
  <2> QED BY <1>3, <2>1, ConcatProperties
<1>6. SubSeq(q \o w, 1, Len(q)) = q
  <2> HIDE DEF w, n
  <2>1. \A i \in 1 .. Len(q) : (q \o w)[i] \in CallIds
    BY <1>3, <1>5, ElementOfSeq
  <2> HIDE DEF q
  <2> DEFINE v == q \o w
  <2>2. Len(q) \in Int /\ 1 \in Int /\ \A i \in 1 .. Len(q) : v[i] \in CallIds
    BY <1>5, <2>1
  <2>3. \A i \in 1 .. Len(q) : v[i] = q[i]
    BY <1>5
  <2> HIDE DEF v
  <2>4. /\ SubSeq(v, 1, Len(q)) \in Seq(CallIds)
        /\ Len(SubSeq(v, 1, Len(q))) = IF 1 <= Len(q) THEN Len(q) - 1 + 1 ELSE 0
        /\ \A i \in 1 .. Len(q) - 1 + 1 : SubSeq(v, 1, Len(q))[i] = v[1 + i - 1]
    BY <2>2, SubSeqProperties
  <2>5. Len(SubSeq(v, 1, Len(q))) = Len(q)
    BY <1>5, <2>4
  <2>6. \A i \in 1 .. Len(q) : SubSeq(v, 1, Len(q))[i] = q[i]
    BY <1>5, <2>3, <2>4
  <2>7. SubSeq(v, 1, Len(q)) = q
    BY <1>3, <2>4, <2>5, <2>6, SeqEqual
  <2> QED BY <2>7 DEF v
<1>7. Len(UnderWay) - n = Len(q) /\ n \in 0 .. Len(UnderWay)
  BY <1>3, <1>4, <1>5
<1>8. CASE n = 0
  <2>1. w = <<>>
    <3> HIDE DEF w
    <3>1. Len(w) = 0
      BY <1>8 DEF w
    <3> QED BY <1>3, <3>1
  <2>2. q \o <<>> = q
    <3> HIDE DEF q
    <3> QED BY <1>3, ConcatEmptySeq
  <2> QED BY <1>1, <1>4, <2>1, <2>2
<1>9. CASE n # 0
  <2>1. n \in 1 .. Len(UnderWay)
    BY <1>3, <1>7, <1>9
  <2>2. UnderWay' = SubSeq(UnderWay, 1, Len(UnderWay) - n)
    BY <1>4, <1>6, <1>7
  <2>3. \E m \in 1 .. Len(UnderWay) : Lossy!LoseLatest(m)
    BY <1>1, <2>1, <2>2 DEF Lossy!LoseLatest
  <2> QED BY <2>3 DEF Lossy!Next
<1> QED BY <1>3, <1>8, <1>9

LEMMA StepMaps ==
  ASSUME IInv, [Next]_vars
  PROVE  Lossy!Next \/ UNCHANGED <<UnderWay, handled>>
<1>1. ASSUME NEW len \in Lens, NEW safe \in BOOLEAN, PushCall(len, safe)
      PROVE  UNCHANGED <<UnderWay, handled>>
  BY <1>1, Stutters DEF PushCall, ringVars, consumerVars
<1>2. CASE PrugeCall \/ PushTooLong \/ PushToken \/ PushDrop \/ WakeUp \/ PullDone
  <2>1. /\ UNCHANGED <<order, pulled, push_list, handled>>
        /\ c_pc' = "handle" <=> c_pc = "handle"
        /\ p_pc' = "listtoken" <=> p_pc = "listtoken"
    BY <1>2 DEF PrugeCall, PushTooLong, PushToken, PushDrop, MustWait, WakeUp, PullDone,
       ringVars, producerVars, consumerVars
  <2> QED BY <2>1, Stutters
<1>3. CASE PrugeReturn
  <2>1. /\ UNCHANGED <<order, pulled, push_list, handled, c_pc>>
        /\ p_pc = "pruge" /\ p_pc' # "listtoken"
    BY <1>3 DEF PrugeReturn, ringVars, consumerVars
  <2> QED BY <2>1, Stutters
<1>4. CASE PrugePut \/ PrugeToken \/ Pull
  BY <1>4, PrugePutMaps, PrugeTokenMaps, PullMaps
<1>5. CASE PushPut
  <2>1. Due
    BY <1>5 DEF IInv, Shape, Due, PushPut
  <2>2. Current \in CallIds /\ Lossy!Send(Current)
    BY <1>5, <2>1, PushPutMaps, CurrentIsNewest
  <2>3. \E k \in CallIds : Lossy!Send(k)
    BY <2>2 DEF Lossy!Send, Lossy!Newest
  <2> QED BY <2>3 DEF Lossy!Next
<1>6. CASE PushWait
  <2>1. Due
    BY <1>6 DEF IInv, Shape, Due, PushWait, MustWait
  <2>2. CASE Lossy!Send(Current)
    <3>1. \E k \in CallIds : Lossy!Send(k)
      BY <2>1, <2>2, CurrentIsNewest DEF Lossy!Send, Lossy!Newest
    <3> QED BY <3>1 DEF Lossy!Next
  <2> QED BY <1>6, <2>2, PushWaitMaps
<1>7. CASE Handle
  BY <1>7, HandleMaps DEF Lossy!Next
<1>8. CASE PullFails
  BY <1>8, PullFailsMaps DEF Lossy!Next
<1>9. CASE ConsumerCrash
  BY <1>9, ConsumerCrashMaps DEF Lossy!Next
<1>10. CASE ProducerCrash
  BY <1>10, ProducerCrashMaps
<1>11. CASE UNCHANGED vars
  BY <1>11, Stutters DEF vars, ringVars, producerVars, consumerVars
<1> QED BY <1>1, <1>2, <1>3, <1>4, <1>5, <1>6, <1>7, <1>8, <1>9, <1>10, <1>11
    DEF Next, ProducerStep, ConsumerStep

(* Whatever fails and however the two processes interleave, a channel is a *)
(* LossyFifo: blocks arrive in the order they were pushed, across ring and *)
(* push_list, at most once each; a death loses only the latest blocks (the *)
(* producer's) or the oldest (the consumer's).                             *)
THEOREM ChannelIsLossyFifo == Spec => ImplementsLossyFifo
<1>1. Init => Lossy!Init
  <2> SUFFICES ASSUME Init PROVE Lossy!Init
    OBVIOUS
  <2>1. /\ Len(order) = 0 /\ Len(pulled) = 0 /\ push_list = <<>> /\ handled = <<>>
        /\ c_pc = "wait" /\ p_pc = "idle" /\ order = <<>>
    BY DEF Init, Ring!Init
  <2>2. InHand = <<>> /\ Waiting = <<>>
    BY <2>1 DEF InHand, Waiting
  <2>3. InRing = <<>>
    BY <2>1, SubSeqEmpty DEF InRing, Ring!Oldest
  <2>4. <<>> \o <<>> \o <<>> = <<>>
    <3>1. <<>> \in Seq(CallIds)
      BY EmptySeq
    <3> QED BY <3>1, ConcatEmptySeq
  <2> QED BY <2>1, <2>2, <2>3, <2>4 DEF UnderWay, Lossy!Init
<1>2. IInv /\ [Next]_vars => [Lossy!Next]_Lossy!vars
  BY StepMaps DEF Lossy!vars
<1> QED BY <1>1, <1>2, Invariance, PTL DEF Spec, ImplementsLossyFifo, Lossy!Spec

-----------------------------------------------------------------------------
(* Safe pushes.  While nothing fails, the blocks that have reached the     *)
(* channel only become more, and only a call's own step adds its block.    *)

Reached == Range(handled) \cup Range(UnderWay)

Running == in_push /\ p_pc # "idle"

Kept ==
  NoFaults =>
    /\ \A k \in 1 .. Len(calls) : calls[k].safe =>
         /\ calls[k].ret = "ok" => k \in Reached
         /\ calls[k].ret = "error" => k \notin Reached
    /\ p_pc = "token" => Current \in Reached
    /\ Running => calls[Current].ret = "none"

LEMMA RangeConcat ==
  ASSUME NEW S, NEW s \in Seq(S), NEW t \in Seq(S)
  PROVE  Range(s \o t) = Range(s) \cup Range(t)
<1>1. /\ Len(s) \in Nat /\ Len(t) \in Nat /\ Len(s \o t) = Len(s) + Len(t)
      /\ DOMAIN s = 1 .. Len(s) /\ DOMAIN t = 1 .. Len(t)
      /\ DOMAIN (s \o t) = 1 .. Len(s) + Len(t)
      /\ \A i \in 1 .. Len(s) + Len(t) :
           (s \o t)[i] = IF i <= Len(s) THEN s[i] ELSE t[i - Len(s)]
  BY ConcatProperties, LenProperties
<1> DEFINE r == s \o t
<1>2. \A i \in 1 .. Len(s) : i \in DOMAIN r /\ r[i] = s[i]
  BY <1>1
<1>3. \A i \in 1 .. Len(t) : Len(s) + i \in DOMAIN r /\ r[Len(s) + i] = t[i]
  BY <1>1
<1>4. \A i \in DOMAIN r : \/ i \in 1 .. Len(s) /\ r[i] = s[i]
                          \/ i - Len(s) \in 1 .. Len(t) /\ r[i] = t[i - Len(s)]
  BY <1>1
<1> HIDE DEF r
<1>5. Range(r) = Range(s) \cup Range(t)
  BY <1>1, <1>2, <1>3, <1>4 DEF Range
<1> QED BY <1>5 DEF r

LEMMA RangeOfOne ==
  ASSUME NEW e
  PROVE  Range(<<e>>) = {e}
BY DEF Range

LEMMA RangeAppend ==
  ASSUME NEW S, NEW s \in Seq(S), NEW e \in S
  PROVE  Range(Append(s, e)) = Range(s) \cup {e}
<1>1. <<e>> \in Seq(S) /\ Append(s, e) = s \o <<e>>
  BY AppendIsConcat
<1> DEFINE u == <<e>>
<1>2. u \in Seq(S) /\ Append(s, e) = s \o u /\ Range(u) = {e}
  BY <1>1, RangeOfOne
<1> HIDE DEF u
<1>3. Range(s \o u) = Range(s) \cup Range(u)
  BY <1>2, RangeConcat
<1> QED BY <1>2, <1>3

LEMMA RangeHeadTail ==
  ASSUME NEW S, NEW s \in Seq(S), s # <<>>
  PROVE  Head(s) \in S /\ Range(s) = {Head(s)} \cup Range(Tail(s))
<1>1. Head(s) \in S /\ Tail(s) \in Seq(S) /\ s = <<Head(s)>> \o Tail(s)
  BY ListSplit, HeadTailProperties
<1> DEFINE h == Head(s)  t == Tail(s)
<1>2. <<h>> \in Seq(S) /\ t \in Seq(S) /\ s = <<h>> \o t
  BY <1>1
<1> HIDE DEF h, t
<1>3. Range(s) = Range(<<h>>) \cup Range(t)
  BY <1>2, RangeConcat
<1> QED BY <1>1, <1>3, RangeOfOne DEF h, t

LEMMA ReachedTypes ==
  ASSUME IInv
  PROVE  /\ UnderWay \in Seq(CallIds) /\ handled \in Seq(CallIds)
         /\ Range(handled \o UnderWay) = Reached
<1>1. UnderWay \in Seq(CallIds) /\ handled \in Seq(CallIds)
  BY Parts DEF IInv, TypeOK
<1> QED BY <1>1, RangeConcat DEF Reached

(* Sending and receiving a block. *)
LEMMA SendReaches ==
  ASSUME IInv, NEW k \in CallIds, Lossy!Send(k)
  PROVE  Reached' = Reached \cup {k}
<1>1. UnderWay' = Append(UnderWay, k) /\ handled' = handled
  BY DEF Lossy!Send
<1>2. Range(Append(UnderWay, k)) = Range(UnderWay) \cup {k}
  BY ReachedTypes, RangeAppend
<1> QED BY <1>1, <1>2 DEF Reached

LEMMA ReceiveReaches ==
  ASSUME IInv, Lossy!Receive
  PROVE  Reached' = Reached
<1> DEFINE h == Head(UnderWay)  t == Tail(UnderWay)
<1>1. UnderWay # <<>> /\ handled' = Append(handled, h) /\ UnderWay' = t
  BY DEF Lossy!Receive
<1>2. h \in CallIds /\ Range(UnderWay) = {h} \cup Range(t)
  BY <1>1, ReachedTypes, RangeHeadTail
<1>3. Range(Append(handled, h)) = Range(handled) \cup {h}
  BY <1>2, ReachedTypes, RangeAppend
<1> HIDE DEF h, t
<1> QED BY <1>1, <1>2, <1>3 DEF Reached

LEMMA DueNotReached ==
  ASSUME IInv, Due
  PROVE  Current \notin Reached /\ Current \in CallIds
<1>1. Lossy!Newest(Current) /\ Current \in CallIds
  BY CurrentIsNewest
<1>2. \A j \in Reached : j < Current
  BY <1>1 DEF Lossy!Newest, Lossy!Range, Reached, Range
<1>3. ~(Current < Current)
  BY <1>1 DEF CallIds
<1> QED BY <1>1, <1>2, <1>3

(* A step that reaches nothing new and leaves the calls alone. *)
LEMMA QuietKeeps ==
  ASSUME Kept, Reached' = Reached, UNCHANGED calls,
         p_pc' = "token" => p_pc = "token", Running' => Running
  PROVE  Kept'
BY DEF Kept, NoFaults, Current

(* What a call's return changes: its own entry. *)
LEMMA ReturnSets ==
  ASSUME TypeOK, calls # <<>>, NEW ret \in Returns, Return(ret)
  PROVE  /\ Current \in 1 .. Len(calls) /\ Len(calls') = Len(calls)
         /\ calls'[Current].ret = ret /\ calls'[Current].safe = calls[Current].safe
         /\ \A k \in 1 .. Len(calls) : k # Current => calls'[k] = calls[k]
<1>1. calls \in Seq(Calls) /\ Current \in 1 .. Len(calls)
  BY Lengths DEF TypeOK, Current
<1>2. calls[Current] \in Calls /\ DOMAIN calls = 1 .. Len(calls)
  BY <1>1, ElementOfSeq, LenProperties
<1> DEFINE e == [calls[Current] EXCEPT !.ret = ret]
<1>3. e.ret = ret /\ e.safe = calls[Current].safe
  BY <1>2 DEF Calls
<1>4. calls' = [calls EXCEPT ![Current] = e]
  BY DEF Return
<1>5. Len(calls') = Len(calls)
  BY ReturnFacts
<1> HIDE DEF e
<1>6. calls'[Current] = e /\ \A k \in 1 .. Len(calls) : k # Current => calls'[k] = calls[k]
  BY <1>1, <1>2, <1>4
<1> QED BY <1>1, <1>3, <1>5, <1>6

(* A call ends: with its block there if it says "ok", without it if it     *)
(* says "error", and nobody else's block is touched.                       *)
LEMMA EndKeeps ==
  ASSUME IInv, Kept, calls # <<>>, NEW ret \in Returns, Return(ret), p_pc' = "idle",
         Reached \subseteq Reached', Reached' \subseteq Reached \cup {Current},
         NoFaults /\ calls[Current].safe =>
           /\ ret = "ok" => Current \in Reached'
           /\ ret = "error" => Current \notin Reached'
  PROVE  Kept'
<1>1. /\ Current \in 1 .. Len(calls) /\ Len(calls') = Len(calls)
      /\ calls'[Current].ret = ret /\ calls'[Current].safe = calls[Current].safe
      /\ \A k \in 1 .. Len(calls) : k # Current => calls'[k] = calls[k]
  BY ReturnSets DEF IInv
<1>2. ASSUME NoFaults, NEW k \in 1 .. Len(calls'), calls'[k].safe
      PROVE  /\ calls'[k].ret = "ok" => k \in Reached'
             /\ calls'[k].ret = "error" => k \notin Reached'
  <2>1. CASE k = Current
    BY <1>1, <1>2, <2>1
  <2>2. CASE k # Current
    BY <1>1, <1>2, <2>2 DEF Kept
  <2> QED BY <2>1, <2>2
<1> QED BY <1>2 DEF Kept, NoFaults, Running

LEMMA UnchangedReaches ==
  ASSUME UNCHANGED <<UnderWay, handled>>
  PROVE  Reached' = Reached
BY DEF Reached

LEMMA PushCallKept ==
  ASSUME IInv, Kept, NEW len \in Lens, NEW safe \in BOOLEAN, PushCall(len, safe)
  PROVE  Kept'
<1> DEFINE c == [len |-> len, safe |-> safe, ret |-> "none"]
<1>1. c \in Calls /\ c.ret = "none"
  BY DEF Calls, Returns
<1>2. calls' = Append(calls, c) /\ p_pc' = "pruge"
  BY DEF PushCall
<1>3. calls \in Seq(Calls)
  BY DEF IInv, TypeOK
<1> HIDE DEF c
<1>4. /\ Len(calls') = Len(calls) + 1 /\ Len(calls) \in Nat
      /\ calls'[Len(calls) + 1] = c
      /\ \A k \in 1 .. Len(calls) : calls'[k] = calls[k]
  BY <1>1, <1>2, <1>3, AppendProperties, LenProperties
<1>5. Reached' = Reached
  <2>1. UNCHANGED <<UnderWay, handled>>
    BY Stutters DEF PushCall, ringVars, consumerVars
  <2> QED BY <2>1, UnchangedReaches
<1>6. \A k \in 1 .. Len(calls') : k \in 1 .. Len(calls) \/ k = Len(calls) + 1
  BY <1>4
<1>7. calls'[Current'].ret = "none"
  BY <1>1, <1>4 DEF Current
<1> QED BY <1>1, <1>2, <1>4, <1>5, <1>6, <1>7 DEF Kept, NoFaults

LEMMA PushTooLongKept == ASSUME IInv, Kept, PushTooLong PROVE Kept'
<1>1. Due /\ calls # <<>>
  BY DEF IInv, Shape, Due, PushTooLong
<1>2. Reached' = Reached
  <2>1. UNCHANGED <<UnderWay, handled>>
    BY Stutters DEF PushTooLong, ringVars, consumerVars
  <2> QED BY <2>1, UnchangedReaches
<1>3. Return("error") /\ p_pc' = "idle" /\ "error" \in Returns
  BY DEF PushTooLong, Returns
<1>4. Current \notin Reached'
  BY <1>1, <1>2, DueNotReached
<1> QED BY <1>1, <1>2, <1>3, <1>4, EndKeeps

LEMMA PushDropKept == ASSUME IInv, Kept, PushDrop PROVE Kept'
<1>1. calls # <<>> /\ ~calls[Current].safe
  BY DEF IInv, Shape, PushDrop, MustWait
<1>2. Reached' = Reached
  <2>1. UNCHANGED <<UnderWay, handled>>
    BY Stutters DEF PushDrop, MustWait, ringVars, consumerVars
  <2> QED BY <2>1, UnchangedReaches
<1>3. PICK ret \in {"ok", "error"} : Return(ret)
  BY DEF PushDrop
<1>4. p_pc' = "idle" /\ ret \in Returns
  BY DEF PushDrop, Returns
<1> QED BY <1>1, <1>2, <1>3, <1>4, EndKeeps

LEMMA PushPutKept == ASSUME IInv, Kept, PushPut PROVE Kept'
<1>1. Due /\ Running /\ calls # <<>> /\ p_pc' = "token" /\ UNCHANGED <<calls, in_push>>
  BY DEF IInv, Shape, Due, Running, PushPut
<1>2. Current \in CallIds /\ Reached' = Reached \cup {Current}
  BY <1>1, DueNotReached, PushPutMaps, SendReaches
<1>3. Current' = Current
  BY <1>1 DEF Current
<1>4. ASSUME NoFaults
      PROVE  calls[Current].ret = "none"
  BY <1>1, <1>4 DEF Kept
<1> QED BY <1>1, <1>2, <1>3, <1>4 DEF Kept, NoFaults

LEMMA PushTokenKept == ASSUME IInv, Kept, PushToken PROVE Kept'
<1>1. p_pc = "token" /\ calls # <<>>
  BY DEF IInv, Shape, PushToken
<1>2. Reached' = Reached
  <2>1. UNCHANGED <<UnderWay, handled>>
    BY Stutters DEF PushToken, ringVars, consumerVars
  <2> QED BY <2>1, UnchangedReaches
<1>3. Return("ok") /\ p_pc' = "idle" /\ "ok" \in Returns
  BY DEF PushToken, Returns
<1>4. NoFaults => Current \in Reached'
  BY <1>1, <1>2 DEF Kept
<1> QED BY <1>1, <1>2, <1>3, <1>4, EndKeeps

LEMMA PushWaitKept == ASSUME IInv, Kept, PushWait PROVE Kept'
<1>1. Due /\ calls # <<>> /\ p_pc' = "idle"
  BY DEF IInv, Shape, Due, PushWait, MustWait
<1>2. /\ Current \in CallIds /\ Current \notin Reached
      /\ Reached' = Reached \/ Reached' = Reached \cup {Current}
  BY <1>1, DueNotReached, PushWaitMaps, SendReaches, UnchangedReaches
<1>3. CASE "memory" \in Faults
  <2>1. PICK ret \in {"ok", "error"} : Return(ret)
    BY DEF PushWait
  <2> QED BY <1>1, <1>2, <1>3, <2>1, EndKeeps DEF NoFaults, Returns
<1>4. CASE "memory" \notin Faults
  <2>1. push_list' = Append(push_list, Current) /\ Return("ok") /\ "ok" \in Returns
    BY <1>4 DEF PushWait, Returns
  <2>2. Current \in Reached'
    <3>1. Waiting' = Append(push_list, Current)
      BY <1>1, <2>1 DEF Waiting
    <3>2. Current \in Range(Append(push_list, Current))
      BY <1>2, RangeAppend DEF IInv, TypeOK
    <3>3. IInv'
      BY PushWaitKeeps
    <3>4. (InHand \o InRing)' \in Seq(CallIds) /\ Waiting' \in Seq(CallIds)
      BY <1>1, <1>2, <2>1, Parts, AppendProperties
         DEF PushWait, ringVars, consumerVars, InHand, InRing, Ring!Oldest, IInv, TypeOK, Waiting
    <3>5. Range(UnderWay') = Range((InHand \o InRing)') \cup Range(Waiting')
      <4> DEFINE a == (InHand \o InRing)'
      <4> DEFINE w == Waiting'
      <4>1. a \in Seq(CallIds) /\ w \in Seq(CallIds) /\ UnderWay' = a \o w
        BY <3>4 DEF UnderWay
      <4> HIDE DEF a, w
      <4>2. Range(a \o w) = Range(a) \cup Range(w)
        BY <4>1, RangeConcat
      <4> QED BY <4>1, <4>2 DEF a, w
    <3> QED BY <3>1, <3>2, <3>5 DEF Reached
  <2> QED BY <1>1, <1>2, <2>1, <2>2, EndKeeps
<1> QED BY <1>3, <1>4

LEMMA StepKept == IInv /\ Kept /\ [Next]_vars => Kept'
<1> SUFFICES ASSUME IInv, Kept, [Next]_vars PROVE Kept'
  OBVIOUS
<1>1. ASSUME NEW len \in Lens, NEW safe \in BOOLEAN, PushCall(len, safe) PROVE Kept'
  BY <1>1, PushCallKept
<1>2. CASE PushTooLong \/ PushDrop \/ PushPut \/ PushToken \/ PushWait
  BY <1>2, PushTooLongKept, PushDropKept, PushPutKept, PushTokenKept, PushWaitKept
<1>3. CASE PrugeCall \/ WakeUp \/ PullDone
  <2>1. /\ UNCHANGED <<order, pulled, push_list, handled, calls>>
        /\ c_pc' = "handle" <=> c_pc = "handle"
        /\ p_pc' = "listtoken" <=> p_pc = "listtoken"
    BY <1>3 DEF PrugeCall, WakeUp, PullDone, ringVars, producerVars, consumerVars
  <2>2. (p_pc' = "token" => p_pc = "token") /\ (Running' => Running)
    BY <1>3 DEF PrugeCall, WakeUp, PullDone, producerVars, Running
  <2> QED BY <2>1, <2>2, Stutters, UnchangedReaches, QuietKeeps
<1>4. CASE PrugeReturn
  <2>1. /\ UNCHANGED <<order, pulled, push_list, handled, calls, c_pc>>
        /\ p_pc = "pruge" /\ p_pc' # "listtoken"
    BY <1>4 DEF PrugeReturn, ringVars, consumerVars
  <2>2. (p_pc' = "token" => p_pc = "token") /\ (Running' => Running)
    BY <1>4 DEF PrugeReturn, Running
  <2> QED BY <2>1, <2>2, Stutters, UnchangedReaches, QuietKeeps
<1>5. CASE PrugePut \/ PrugeToken \/ Pull
  <2>1. UNCHANGED <<UnderWay, handled>>
    BY <1>5, PrugePutMaps, PrugeTokenMaps, PullMaps
  <2>2. /\ UNCHANGED calls
        /\ p_pc' = "token" => p_pc = "token"
        /\ Running' => Running
    BY <1>5 DEF PrugePut, PrugeToken, Pull, producerVars, Running
  <2> QED BY <2>1, <2>2, UnchangedReaches, QuietKeeps
<1>6. CASE Handle
  <2>1. UNCHANGED <<calls, p_pc, in_push>>
    BY <1>6 DEF Handle, producerVars
  <2> QED BY <1>6, <2>1, HandleMaps, ReceiveReaches, QuietKeeps DEF Running
<1>7. CASE PullFails \/ ConsumerCrash \/ ProducerCrash
  BY <1>7 DEF PullFails, ConsumerCrash, ProducerCrash, Kept, NoFaults
<1>8. CASE UNCHANGED vars
  <2>1. /\ UNCHANGED <<order, pulled, push_list, handled, calls, c_pc, p_pc, in_push>>
    BY <1>8 DEF vars, ringVars, producerVars, consumerVars
  <2> QED BY <2>1, Stutters, UnchangedReaches, QuietKeeps DEF Running
<1> QED BY <1>1, <1>2, <1>3, <1>4, <1>5, <1>6, <1>7, <1>8
    DEF Next, ProducerStep, ConsumerStep

(* A safe push that returned 0 is under way or handled, and one that       *)
(* returned -1 never was, for every ring, pipe and batch size: nothing     *)
(* that was pushed with safe = true is dropped while nothing fails         *)
(* (shmq.cpp:198-224).                                                     *)
THEOREM SafePushesKept == Spec => []SafeKept
<1>1. Init => Kept
  BY DEF Init, Kept, Running
<1>2. IInv /\ Kept => SafeKept
  BY ReachedTypes DEF Kept, SafeKept
<1> QED BY <1>1, <1>2, StepKept, InitHolds, NextKeeps, PTL DEF Spec

=============================================================================
