------------------------------- MODULE ShmFifo -------------------------------
(***************************************************************************)
(* What a channel's ring promises its two users: a bounded FIFO.  A block  *)
(* is accepted whole when it leaves at least one byte free, blocks come    *)
(* out once each, in order, with the bytes that went in; a block may be    *)
(* dropped by the reader (its pull reports -1) but never reordered.        *)
(***************************************************************************)
EXTENDS Integers, Sequences

CONSTANTS
  Size,        (* bytes of the ring                                       *)
  HeadLen,     (* bytes of a block header                                 *)
  Lens,        (* payload lengths a block may have                        *)
  BlockOf(_, _)  (* the bytes of the k-th block when it carries l bytes   *)

VARIABLES
  lens,        (* payload lengths of the blocks accepted so far           *)
  pulled,      (* what every pull returned so far, <<>> for a drop        *)
  free         (* bytes free                                              *)

vars == <<lens, pulled, free>>

Init ==
  /\ lens = <<>>
  /\ pulled = <<>>
  /\ free = Size

(* Accept a block of l payload bytes. *)
Put(l) ==
  /\ free >= HeadLen + l + 1
  /\ lens' = Append(lens, l)
  /\ free' = free - (HeadLen + l)
  /\ UNCHANGED pulled

(* The oldest block not yet pulled. *)
Oldest == Len(pulled) + 1

(* Hand out the oldest block, or drop it. *)
Take ==
  /\ Oldest <= Len(lens)
  /\ \/ pulled' = Append(pulled, BlockOf(Oldest, lens[Oldest]))
     \/ pulled' = Append(pulled, <<>>)
  /\ free' = free + HeadLen + lens[Oldest]
  /\ UNCHANGED lens

Next == (\E l \in Lens : Put(l)) \/ Take

Spec == Init /\ [][Next]_vars

=============================================================================
