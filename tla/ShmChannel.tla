----------------------------- MODULE ShmChannel -----------------------------
(***************************************************************************)
(* One direction of a channel between the connection process and a worker  *)
(* (async_server/src/shmq.cpp): a ring, the producer's push_list in its    *)
(* own memory, and a pipe whose bytes ("tokens") wake the consumer up.     *)
(*                                                                         *)
(* The producer runs recv_push / send_push when it has a block to send and *)
(* pruge_recv / pruge_send once per turn of its main loop.  The consumer   *)
(* runs c_revent::handle_input / c_sevent::handle_input when its reactor   *)
(* finds the pipe readable.  The two interleave at every shmq_push,        *)
(* write_pipe, pruge_pipe and shmq_pull.                                   *)
(*                                                                         *)
(* The ring is the abstract ShmFifo, which ShmRing is proved to implement. *)
(* Ring, pipe and their contents outlive a process that dies; push_list    *)
(* and what the process had in hand do not.                                *)
(***************************************************************************)
EXTENDS Integers, Sequences, Functions

CONSTANTS
  Size, HeadLen, Lens,   (* as in ShmFifo                                 *)
  PipeCap,    (* bytes the pipe holds (64 KiB on Linux)                   *)
  TokenMax,   (* bytes one pruge_pipe reads (1024)                        *)
  BatchMax,   (* blocks one handle_input takes (1024)                     *)
  Faults,     (* subset of {"crash", "memory"}: what may fail             *)
  MaxCalls    (* bound: pushes ever called                                *)

ASSUME ChannelAssumption ==
  /\ Size \in Nat \ {0}
  /\ HeadLen \in Nat \ {0}
  /\ Lens \subseteq Nat
  /\ PipeCap \in Nat \ {0}
  /\ TokenMax \in Nat \ {0}
  /\ BatchMax \in Nat
  /\ TokenMax <= BatchMax
  /\ MaxCalls \in Nat

(* Calls are numbered; a block is named by the number of its call. *)
CallIds == 1 .. MaxCalls

VARIABLES
  lens, pulled, free,  (* the ring, as ShmFifo's variables                *)
  order,     (* order[k]: the call whose block was k-th into the ring     *)
  pipe,      (* tokens in the pipe                                        *)
  push_list, (* blocks waiting in the producer's memory                   *)
  calls,     (* every call so far: its arguments and its return value     *)
  p_pc,      (* the producer, see PCs                                     *)
  in_push,   (* the producer is in recv_push, not in the main loop's call *)
  c_pc,      (* the consumer: "wait", "pull" or "handle"                  *)
  count,     (* blocks the current handle_input may still take            *)
  handled    (* history: blocks given to the handler, in order            *)

ringVars     == <<lens, pulled, free, order>>
producerVars == <<push_list, calls, p_pc, in_push>>
consumerVars == <<c_pc, count, handled>>
vars == <<ringVars, pipe, producerVars, consumerVars>>

(* idle: between two calls; pruge: at the loop of pruge_recv; refused: its *)
(* loop failed and recv_push goes on; push: before recv_push's own         *)
(* shmq_push; listtoken, token: a block is in the ring and its write_pipe  *)
(* is to come.                                                             *)
PCs == {"idle", "pruge", "refused", "push", "listtoken", "token"}

(* A call's return value; "none" while it runs, "lost" if it died. *)
Returns == {"none", "ok", "error", "lost"}
Calls == [len : Lens, safe : BOOLEAN, ret : Returns]

(* What a pull returns for the k-th block of the ring. *)
RingBlock(k, l) == <<k>>

Ring == INSTANCE ShmFifo WITH BlockOf <- RingBlock

(* The blocks in the ring, oldest first. *)
InRing == SubSeq(order, Ring!Oldest, Len(order))

(* The call being served. *)
Current == Len(calls)
Return(ret) == calls' = [calls EXCEPT ![Current].ret = ret]

Fits(k) == free >= HeadLen + calls[k].len + 1

(* Mutant of TooLong: off by one. *)
LongerThanRing(k) == calls[k].len > Size

(* The length check of recv_push.  It leaves out the block's header: a     *)
(* block of Size - HeadLen to Size - 1 bytes passes and never fits.        *)
TooLong(k) == calls[k].len >= Size

-----------------------------------------------------------------------------
Init ==
  /\ Ring!Init /\ order = <<>>
  /\ pipe = 0
  /\ push_list = <<>> /\ calls = <<>>
  /\ p_pc = "idle" /\ in_push = FALSE
  /\ c_pc = "wait" /\ count = 0 /\ handled = <<>>

-----------------------------------------------------------------------------
(* The producer.                                                           *)

(* Put call k's block into the ring: shmq_push returning 0. *)
RingPut(k) ==
  /\ Ring!Put(calls[k].len)
  /\ order' = Append(order, k)

(* write_pipe ignores the result of write: a full pipe takes no token. *)
WritePipe == pipe' = IF pipe < PipeCap THEN pipe + 1 ELSE pipe

(* recv_push(channel, sb, buf, safe) is called; it starts with pruge_recv. *)
PushCall(len, safe) ==
  /\ p_pc = "idle"
  /\ Current < MaxCalls
  /\ calls' = Append(calls, [len |-> len, safe |-> safe, ret |-> "none"])
  /\ p_pc' = "pruge" /\ in_push' = TRUE
  /\ UNCHANGED <<ringVars, pipe, push_list, consumerVars>>

(* The main loop calls pruge_recv after each handle_event. *)
PrugeCall ==
  /\ p_pc = "idle"
  /\ p_pc' = "pruge" /\ in_push' = FALSE
  /\ UNCHANGED <<ringVars, pipe, push_list, calls, consumerVars>>

(* One turn of the loop: the list's first block goes into the ring. *)
PrugePut ==
  /\ p_pc = "pruge" /\ push_list # <<>>
  /\ RingPut(Head(push_list))
  /\ p_pc' = "listtoken"
  /\ UNCHANGED <<pipe, push_list, calls, in_push, consumerVars>>

(* Mutant of PrugeToken: a block moved from the list wakes nobody. *)
PrugeNoToken ==
  /\ p_pc = "listtoken"
  /\ push_list' = Tail(push_list)
  /\ p_pc' = "pruge"
  /\ UNCHANGED <<ringVars, pipe, calls, in_push, consumerVars>>

(* Its token is written and it leaves the list. *)
PrugeToken ==
  /\ p_pc = "listtoken"
  /\ WritePipe
  /\ push_list' = Tail(push_list)
  /\ p_pc' = "pruge"
  /\ UNCHANGED <<ringVars, calls, in_push, consumerVars>>

(* Mutant of PrugeReturn: recv_push ignores that the list is stuck. *)
PrugeIgnored ==
  /\ p_pc = "pruge"
  /\ push_list # <<>> => ~Fits(Head(push_list))
  /\ p_pc' = IF in_push THEN "push" ELSE "idle"
  /\ UNCHANGED <<ringVars, pipe, push_list, calls, in_push, consumerVars>>

(* pruge_recv returns: 0 with the list empty, -1 when its first block does *)
(* not fit.                                                                *)
PrugeReturn ==
  /\ p_pc = "pruge"
  /\ push_list # <<>> => ~Fits(Head(push_list))
  /\ p_pc' = IF ~in_push THEN "idle"
             ELSE IF push_list = <<>> THEN "push" ELSE "refused"
  /\ UNCHANGED <<ringVars, pipe, push_list, calls, in_push, consumerVars>>

(* A block as long as the ring can never be sent: -1. *)
PushTooLong ==
  /\ p_pc \in {"push", "refused"}
  /\ TooLong(Current)
  /\ Return("error")
  /\ p_pc' = "idle"
  /\ UNCHANGED <<ringVars, pipe, push_list, in_push, consumerVars>>

(* The list is empty and the block goes into the ring. *)
PushPut ==
  /\ p_pc = "push"
  /\ ~TooLong(Current)
  /\ RingPut(Current)
  /\ p_pc' = "token"
  /\ UNCHANGED <<pipe, push_list, calls, in_push, consumerVars>>

PushToken ==
  /\ p_pc = "token"
  /\ WritePipe
  /\ Return("ok")
  /\ p_pc' = "idle"
  /\ UNCHANGED <<ringVars, push_list, in_push, consumerVars>>

(* The block cannot go into the ring now. *)
MustWait ==
  /\ p_pc = "refused" \/ (p_pc = "push" /\ ~Fits(Current))
  /\ ~TooLong(Current)

(* Mutant of PushDrop: the flag safe is not looked at. *)
PushDropAny ==
  /\ MustWait
  /\ Return(IF p_pc = "refused" THEN "error" ELSE "ok")
  /\ p_pc' = "idle"
  /\ UNCHANGED <<ringVars, pipe, push_list, in_push, consumerVars>>

(* An unsafe block is dropped and the call returns what pruge_recv had     *)
(* returned: -1 if the list is stuck, but 0 if only the own push failed.   *)
PushDrop ==
  /\ MustWait /\ ~calls[Current].safe
  /\ Return(IF p_pc = "refused" THEN "error" ELSE "ok")
  /\ p_pc' = "idle"
  /\ UNCHANGED <<ringVars, pipe, push_list, in_push, consumerVars>>

(* A safe block joins the list; malloc may fail, and the call returns -1. *)
PushWait ==
  /\ MustWait /\ calls[Current].safe
  /\ \/ push_list' = Append(push_list, Current) /\ Return("ok")
     \/ "memory" \in Faults /\ UNCHANGED push_list /\ Return("error")
  /\ p_pc' = "idle"
  /\ UNCHANGED <<ringVars, pipe, in_push, consumerVars>>

(* The producer dies and is forked again, with an empty push_list. *)
ProducerCrash ==
  /\ "crash" \in Faults
  /\ push_list' = <<>>
  /\ IF in_push /\ p_pc # "idle" THEN Return("lost") ELSE UNCHANGED calls
  /\ p_pc' = "idle" /\ in_push' = FALSE
  /\ UNCHANGED <<ringVars, pipe, consumerVars>>

-----------------------------------------------------------------------------
(* The consumer.                                                           *)

(* epoll reports the pipe; handle_input starts with pruge_pipe. *)
WakeUp ==
  /\ c_pc = "wait" /\ pipe > 0
  /\ pipe' = IF pipe > TokenMax THEN pipe - TokenMax ELSE 0
  /\ c_pc' = "pull" /\ count' = BatchMax
  /\ UNCHANGED <<ringVars, producerVars, handled>>

(* Mutant of Pull: the batch has no end. *)
PullUncounted ==
  /\ c_pc = "pull"
  /\ Ring!Take /\ pulled'[Ring!Oldest] # <<>>
  /\ c_pc' = "handle" /\ count' = count - 1
  /\ UNCHANGED <<order, pipe, producerVars, handled>>

(* shmq_pull returns a block. *)
Pull ==
  /\ c_pc = "pull" /\ count > 0
  /\ Ring!Take /\ pulled'[Ring!Oldest] # <<>>
  /\ c_pc' = "handle" /\ count' = count - 1
  /\ UNCHANGED <<order, pipe, producerVars, handled>>

(* shmq_pull returns -1: the block is gone and the loop ends. *)
PullFails ==
  /\ "memory" \in Faults
  /\ c_pc = "pull" /\ count > 0
  /\ Ring!Take /\ pulled'[Ring!Oldest] = <<>>
  /\ c_pc' = "wait" /\ count' = 0
  /\ UNCHANGED <<order, pipe, producerVars, handled>>

(* The block pulled last is given to its handler. *)
Handle ==
  /\ c_pc = "handle"
  /\ handled' = Append(handled, order[Len(pulled)])
  /\ c_pc' = "pull"
  /\ UNCHANGED <<ringVars, pipe, producerVars, count>>

(* The ring is empty, or the batch is used up. *)
PullDone ==
  /\ c_pc = "pull"
  /\ count = 0 \/ InRing = <<>>
  /\ c_pc' = "wait" /\ count' = 0
  /\ UNCHANGED <<ringVars, pipe, producerVars, handled>>

(* The consumer dies and is forked again; the block in hand is lost. *)
ConsumerCrash ==
  /\ "crash" \in Faults
  /\ c_pc' = "wait" /\ count' = 0
  /\ UNCHANGED <<ringVars, pipe, producerVars, handled>>

-----------------------------------------------------------------------------
ProducerStep ==
  \/ PrugeCall \/ PrugePut \/ PrugeToken \/ PrugeReturn
  \/ PushTooLong \/ PushPut \/ PushToken \/ PushDrop \/ PushWait

ConsumerStep == WakeUp \/ Pull \/ PullFails \/ Handle \/ PullDone

Next ==
  \/ \E len \in Lens, safe \in BOOLEAN : PushCall(len, safe)
  \/ ProducerStep \/ ConsumerStep
  \/ ProducerCrash \/ ConsumerCrash

Spec == Init /\ [][Next]_vars

(* The producer's main loop runs: epoll_wait returns within a second.  The *)
(* consumer's reactor runs: epoll is level triggered.                      *)
FairSpec == Spec /\ WF_vars(ProducerStep) /\ WF_vars(ConsumerStep)

-----------------------------------------------------------------------------
(* Properties.                                                             *)

TypeOK ==
  /\ lens \in Seq(Lens) /\ order \in Seq(CallIds)
  /\ Len(order) = Len(lens)
  /\ pulled \in Seq({<<>>} \cup {<<k>> : k \in CallIds})
  /\ Len(pulled) <= Len(lens)
  /\ free \in Nat \ {0}
  /\ pipe \in 0 .. PipeCap
  /\ push_list \in Seq(CallIds)
  /\ calls \in Seq(Calls) /\ Len(calls) <= MaxCalls
  /\ p_pc \in PCs /\ in_push \in BOOLEAN
  /\ c_pc \in {"wait", "pull", "handle"}
  /\ count \in 0 .. BatchMax
  /\ handled \in Seq(CallIds)

(* The block the consumer has pulled and not yet handled. *)
InHand == IF c_pc = "handle" THEN <<order[Len(pulled)]>> ELSE <<>>

(* The blocks that are only in the producer's memory. *)
Waiting == IF p_pc = "listtoken" THEN Tail(push_list) ELSE push_list

UnderWay == InHand \o InRing \o Waiting

TokenDue == IF p_pc \in {"listtoken", "token"} THEN 1 ELSE 0

NoFaults == Faults = {} /\ PipeCap >= MaxCalls

(* No wake-up is lost: while nothing fails and the pipe has room, every    *)
(* block in the ring is covered by a token in the pipe, a token about to   *)
(* be written, or the batch being taken, although pruge_pipe swallows many *)
(* tokens at once and handle_input may stop at its 1024th block            *)
(* (shm_revent.cpp:45-52) while the producer pushes.                       *)
WakeUpPending == NoFaults => Len(InRing) <= pipe + TokenDue + count

(* While nothing fails, a safe push that returned 0 is under way or        *)
(* handled and one that returned -1 is not: the LOGIN and CLOSE blocks and *)
(* the replies pushed with safe = true are never dropped behind the        *)
(* caller's back (shmq.cpp:198-224).                                       *)
SafeKept ==
  NoFaults => \A k \in 1 .. Len(calls) :
    LET kept == k \in Range(handled \o UnderWay)
    IN  calls[k].safe => /\ calls[k].ret = "ok" => kept
                         /\ calls[k].ret = "error" => ~kept

(* A block that recv_push lets pass although no empty ring takes it: its   *)
(* length alone fits, with its header it does not.                         *)
PassesAndNeverFits(k) == calls[k].len \in Size - HeadLen .. Size - 1

(* Such a block on the list, and every block behind it, stays there.       *)
Stuck(k) ==
  \E i, j \in DOMAIN Waiting :
    i <= j /\ PassesAndNeverFits(Waiting[i]) /\ Waiting[j] = k

(* Every block in the ring is handled in the end, and every block on the   *)
(* list too unless it is Stuck: the list is flushed as the consumer makes  *)
(* room and nobody sleeps on a full ring.  The length check of recv_push   *)
(* leaves out the header (shmq.cpp:202), so a safe block of Size - HeadLen *)
(* to Size - 1 bytes does block the list, and nothing else does: a block   *)
(* of Size bytes is refused, those before the stuck one go out, and what   *)
(* is in the ring never depends on the list.                               *)
Delivered ==
  /\ \A k \in CallIds : k \in Range(InRing) ~> k \in Range(handled)
  /\ \A k \in CallIds :
       k \in Range(Waiting) ~> k \in Range(handled) \/ Stuck(k)

(* Whatever fails, the channel is a LossyFifo: order is kept across the    *)
(* ring and the push_list, a block is handled at most once even if its     *)
(* consumer dies and is forked again, the ring survives both processes.    *)
Lossy == INSTANCE LossyFifo WITH
  Ids <- CallIds, queue <- UnderWay, out <- handled

ImplementsLossyFifo == Lossy!Spec

=============================================================================
