-------------------------------- MODULE Xsk ---------------------------------
(***************************************************************************)
(* The AF_XDP socket of an IO worker (src/src/xdp_datapath/xsk.rs) and the *)
(* part of io_loop (runtime.rs) that drives it: four rings in memory       *)
(* shared with the kernel, their indexes u32 counters that wrap, and the   *)
(* worker's own copies of the indexes it writes.  Every access to a shared *)
(* index is a step of its own, between which the kernel moves.             *)
(*                                                                         *)
(* The kernel is external.  It takes descriptors from the TX ring while it *)
(* is awake: after a kick or a poll, for a number of descriptors; then it  *)
(* asks for a wakeup again.                                                *)
(***************************************************************************)
EXTENDS Integers, Sequences

CONSTANTS
  RingSize,     \* RING_SIZE, a power of two
  Wrap,         \* 2^32: the range of a counter
  RxChunks,     \* RX_CHUNKS
  ChunkCount,   \* CHUNK_COUNT
  BatchSize,    \* IO_BATCH_SIZE
  KickBatch     \* descriptors the kernel takes after a wakeup

ASSUME XskAssumption ==
  /\ RingSize \in Nat \ {0} /\ Wrap \in Nat /\ Wrap % RingSize = 0 /\ Wrap > RingSize
  /\ RxChunks \in 0..RingSize /\ ChunkCount \in RxChunks..(RxChunks + RingSize)
  /\ BatchSize \in Nat \ {0} /\ KickBatch \in Nat \ {0}

VARIABLES
  fill, rx, tx, completion,   \* the rings: slot, producer and consumer
  rx_consumer, fill_producer, tx_producer, completion_consumer,   \* the worker's copies
  free_tx,      \* chunks for sending
  flight,       \* chunks of the device, in the order it got them
  awake,        \* descriptors the kernel will take before the next wakeup
  pc,           \* where the worker is
  batch,        \* frames it is working on
  moved         \* this round received or transmitted something

rings == <<fill, rx, tx, completion>>
own == <<rx_consumer, fill_producer, tx_producer, completion_consumer, free_tx>>
vars == <<rings, own, flight, awake, pc, batch, moved>>

Minus(a, b) == (a - b) % Wrap   \* wrapping_sub
Plus(a, b) == (a + b) % Wrap    \* wrapping_add
Least(a, b) == IF a < b THEN a ELSE b

(* The slots from one index to another, and cs written from an index on. *)
Slots(ring, from, to) == [k \in 1..Minus(to, from) |-> ring.slot[(from + k - 1) % RingSize]]
Put(ring, at, cs) ==
  [ring EXCEPT !.slot = [i \in DOMAIN ring.slot |->
     IF \E k \in 1..Len(cs) : (at + k - 1) % RingSize = i
     THEN cs[CHOOSE k \in 1..Len(cs) : (at + k - 1) % RingSize = i] ELSE ring.slot[i]]]

Empty == [slot |-> [i \in 0..(RingSize - 1) |-> 0], producer |-> 0, consumer |-> 0]

(* Xsk::configure and seed_fill_ring. *)
Init ==
  /\ fill = [Put(Empty, 0, [k \in 1..RxChunks |-> k - 1]) EXCEPT !.producer = RxChunks]
  /\ rx = Empty /\ tx = Empty /\ completion = Empty
  /\ rx_consumer = 0 /\ fill_producer = RxChunks /\ tx_producer = 0 /\ completion_consumer = 0
  /\ free_tx = [k \in 1..(ChunkCount - RxChunks) |-> RxChunks + k - 1]
  /\ flight = <<>> /\ awake = 0 /\ pc = "receive" /\ batch = 0 /\ moved = FALSE

-----------------------------------------------------------------------------
(* receive_with: the frames there are, up to the budget, are handled and   *)
(* their chunks written to the fill ring, which is not published yet.      *)
ReceiveWith ==
  LET count == Least(Minus(rx.producer, rx_consumer), BatchSize)
      cs == Slots(rx, rx_consumer, rx_consumer + count)
  IN  /\ pc = "receive"
      /\ moved' = (count > 0) /\ batch' = 0
      /\ pc' = IF count > 0 THEN "release" ELSE "transmit"
      /\ fill' = Put(fill, fill_producer, cs)
      /\ fill_producer' = Plus(fill_producer, count) /\ rx_consumer' = Plus(rx_consumer, count)
      /\ UNCHANGED <<rx, tx, completion, tx_producer, completion_consumer, free_tx, flight, awake>>

(* receive_with: the write of rx.consumer, ... *)
ReleaseRx ==
  /\ pc = "release" /\ pc' = "return"
  /\ rx' = [rx EXCEPT !.consumer = rx_consumer]
  /\ UNCHANGED <<fill, tx, completion, own, flight, awake, batch, moved>>

(* Variant: the fill ring is not published. *)
ReturnFillForgotten ==
  /\ pc = "return" /\ pc' = "transmit"
  /\ UNCHANGED <<rings, own, flight, awake, batch, moved>>

(* ... then that of fill.producer. *)
ReturnFill ==
  /\ pc = "return" /\ pc' = "transmit"
  /\ fill' = [fill EXCEPT !.producer = fill_producer]
  /\ UNCHANGED <<rx, tx, completion, own, flight, awake, batch, moved>>

(* io_loop: n frames for the channel's packets; without any the round ends. *)
TakeFrames(n) ==
  /\ pc = "transmit" /\ batch' = n
  /\ pc' = IF n > 0 THEN "reclaim" ELSE IF moved THEN "receive" ELSE "poll"
  /\ UNCHANGED <<rings, own, flight, awake, moved>>

(* Variant: the worker's index stays. *)
ReclaimKeepsIndex ==
  /\ pc = "reclaim" /\ pc' = "consume"
  /\ free_tx' = free_tx \o Slots(completion, completion_consumer, completion.producer)
  /\ UNCHANGED <<rings, rx_consumer, fill_producer, tx_producer, completion_consumer,
                 flight, awake, batch, moved>>

(* reclaim_completions. *)
Reclaim ==
  /\ pc = "reclaim" /\ pc' = "consume"
  /\ free_tx' = free_tx \o Slots(completion, completion_consumer, completion.producer)
  /\ completion_consumer' = completion.producer
  /\ UNCHANGED <<rings, rx_consumer, fill_producer, tx_producer, flight, awake, batch, moved>>

ConsumeCompletion ==
  /\ pc = "consume" /\ pc' = "capacity"
  /\ completion' = [completion EXCEPT !.consumer = completion_consumer]
  /\ UNCHANGED <<fill, rx, tx, own, flight, awake, batch, moved>>

(* tx_batch_capacity. *)
TxBatchCapacity(requested, buffers, producer, consumer) ==
  Least(Least(requested, buffers),
        IF Minus(producer, consumer) > RingSize THEN 0 ELSE RingSize - Minus(producer, consumer))

(* transmit_batch: the capacity; a batch with a frame that is too large    *)
(* (big) is refused.  What is not sent is counted as dropped.              *)
Capacity(big) ==
  LET count == TxBatchCapacity(batch, Len(free_tx), tx.producer, tx.consumer)
  IN  /\ pc = "capacity"
      /\ IF count = 0 \/ big THEN pc' = "transmit" /\ batch' = 0
                             ELSE pc' = "queue" /\ batch' = count
      /\ UNCHANGED <<rings, own, flight, awake, moved>>

(* transmit_batch: the frames are written, ... *)
QueueFrames ==
  /\ pc = "queue" /\ pc' = "publish"
  /\ tx' = Put(tx, tx_producer, SubSeq(free_tx, 1, batch))
  /\ tx_producer' = Plus(tx_producer, batch)
  /\ free_tx' = SubSeq(free_tx, batch + 1, Len(free_tx))
  /\ UNCHANGED <<fill, rx, completion, rx_consumer, fill_producer, completion_consumer,
                 flight, awake, batch, moved>>

(* ... published, ... *)
PublishTx ==
  /\ pc = "publish" /\ pc' = "kick"
  /\ tx' = [tx EXCEPT !.producer = tx_producer]
  /\ UNCHANGED <<fill, rx, completion, own, flight, awake, batch, moved>>

(* ... and the kernel is woken if it asks for it.  sendto may fail; the    *)
(* batch then counts as dropped, though it is queued.                      *)
Kick(sendto) ==
  /\ pc = "kick" /\ pc' = "transmit" /\ batch' = 0
  /\ awake' = IF awake = 0 /\ sendto = "ok" THEN KickBatch ELSE awake
  /\ moved' = (moved \/ awake > 0 \/ sendto # "error")
  /\ UNCHANGED <<rings, own, flight>>

(* poll, which also wakes the kernel. *)
Poll ==
  /\ pc = "poll" /\ pc' = "receive"
  /\ awake' = IF awake = 0 THEN KickBatch ELSE awake
  /\ UNCHANGED <<rings, own, flight, batch, moved>>

-----------------------------------------------------------------------------
(* The kernel: a frame is received, ... *)
KernelReceive ==
  /\ fill.consumer # fill.producer /\ Minus(rx.producer, rx.consumer) < RingSize
  /\ rx' = [Put(rx, rx.producer, Slots(fill, fill.consumer, fill.consumer + 1))
              EXCEPT !.producer = Plus(@, 1)]
  /\ fill' = [fill EXCEPT !.consumer = Plus(@, 1)]
  /\ UNCHANGED <<tx, completion, own, flight, awake, pc, batch, moved>>

(* ... a descriptor is taken, if its completion will find a slot, ... *)
KernelSend ==
  /\ awake > 0 /\ tx.consumer # tx.producer
  /\ Minus(completion.producer, completion.consumer) + Len(flight) < RingSize
  /\ flight' = Append(flight, tx.slot[tx.consumer % RingSize])
  /\ tx' = [tx EXCEPT !.consumer = Plus(@, 1)] /\ awake' = awake - 1
  /\ UNCHANGED <<fill, rx, completion, own, pc, batch, moved>>

KernelSleep ==
  /\ awake > 0 /\ tx.consumer = tx.producer /\ awake' = 0
  /\ UNCHANGED <<rings, own, flight, pc, batch, moved>>

(* ... and a frame has left the device: any of them. *)
Without(s, k) == SubSeq(s, 1, k - 1) \o SubSeq(s, k + 1, Len(s))

KernelComplete(k) ==
  /\ flight' = Without(flight, k)
  /\ completion' = [Put(completion, completion.producer, <<flight[k]>>)
                       EXCEPT !.producer = Plus(@, 1)]
  /\ UNCHANGED <<fill, rx, tx, own, awake, pc, batch, moved>>

IoStep ==
  \/ ReceiveWith \/ ReleaseRx \/ ReturnFill \/ Reclaim \/ ConsumeCompletion \/ QueueFrames
  \/ PublishTx \/ Poll
  \/ \E n \in 0..BatchSize : TakeFrames(n)
  \/ \E big \in BOOLEAN : Capacity(big)
  \/ \E sendto \in {"ok", "again", "error"} : Kick(sendto)

KernelStep == KernelSend \/ KernelSleep \/ \E k \in 1..Len(flight) : KernelComplete(k)

Next == IoStep \/ KernelStep \/ KernelReceive

Spec == Init /\ [][Next]_vars

(* The worker's thread runs and the kernel does what it was asked to. *)
FairSpec == Spec /\ WF_vars(IoStep) /\ WF_vars(KernelStep)

-----------------------------------------------------------------------------
(* The queues as they stand between the worker's indexes and the kernel's. *)
InFill == Slots(fill, fill.consumer, fill.producer)
InRx == Slots(rx, rx_consumer, rx.producer)
InTx == Slots(tx, tx.consumer, tx.producer)
InCompletion == Slots(completion, completion_consumer, completion.producer)
Returning == Slots(fill, fill.producer, fill_producer)
Ready == Slots(tx, tx.producer, tx_producer)

Queues == INSTANCE UmemQueues WITH
  RxChunkSet <- 0..(RxChunks - 1), TxChunkSet <- RxChunks..(ChunkCount - 1),
  fill <- InFill, rx <- InRx, back <- Returning, free <- free_tx, ready <- Ready, tx <- InTx,
  done <- InCompletion

(* The rings and counters implement the queues of UmemQueues: whatever the *)
(* kernel does between two accesses of the worker, and through every wrap  *)
(* of the counters, each chunk has one owner and keeps its place in line,  *)
(* also when a kick fails after its frames were queued.  push_fill and     *)
(* reclaim_completions check no capacity: the numbers of chunks have to    *)
(* suffice.                                                                *)
ImplementsQueues == Queues!Spec

Among(c, cs) == \E k \in DOMAIN cs : cs[k] = c

(* A worker that polls again and again leaves no frame behind: queued      *)
(* frames leave the TX ring, whether kicks fail or the kernel takes only   *)
(* some of them, and received ones are handled and their chunks returned.  *)
QueuesMove ==
  []<>(pc = "poll") =>
    /\ \A c \in RxChunks..(ChunkCount - 1) : Among(c, InTx) ~> ~Among(c, InTx)
    /\ \A c \in 0..(RxChunks - 1) : Among(c, InRx) ~> Among(c, InFill)
=============================================================================
