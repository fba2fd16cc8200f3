----------------------------- MODULE LossyFifo ------------------------------
(***************************************************************************)
(* What a channel promises when its two processes may die: blocks reach    *)
(* the other side in the order they were sent and never twice.  A death of *)
(* the producer can lose only the latest blocks, a death of the consumer   *)
(* (or a failed pull) only the oldest; nothing in between disappears.      *)
(***************************************************************************)
EXTENDS Integers, Sequences, Functions

CONSTANT Ids     (* numbers of the blocks that may be sent                *)

VARIABLES
  queue,         (* sent and not yet received or lost, oldest first       *)
  out            (* received, in order                                    *)

vars == <<queue, out>>

Init == queue = <<>> /\ out = <<>>

(* Block k was sent after every block that is under way or has arrived. *)
Newest(k) == \A j \in Range(queue) \cup Range(out) : j < k

Send(k) ==
  /\ Newest(k)
  /\ queue' = Append(queue, k)
  /\ UNCHANGED out

Receive ==
  /\ queue # <<>>
  /\ out' = Append(out, Head(queue))
  /\ queue' = Tail(queue)

LoseOldest ==
  /\ queue # <<>>
  /\ queue' = Tail(queue)
  /\ UNCHANGED out

LoseLatest(n) ==
  /\ queue' = SubSeq(queue, 1, Len(queue) - n)
  /\ UNCHANGED out

Next ==
  \/ \E k \in Ids : Send(k)
  \/ Receive
  \/ LoseOldest
  \/ \E n \in 1 .. Len(queue) : LoseLatest(n)

Spec == Init /\ [][Next]_vars

=============================================================================
