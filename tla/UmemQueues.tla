----------------------------- MODULE UmemQueues -----------------------------
(***************************************************************************)
(* What an AF_XDP socket promises about the chunks of its UMEM: each chunk *)
(* is in one place, moves from owner to owner in the order of the queues,  *)
(* and is never lost, duplicated or taken back while the kernel has it.    *)
(*                                                                         *)
(* A chunk for receiving goes through fill, rx and back (read by the IO    *)
(* worker, not yet returned); one for sending through free, ready          *)
(* (written, not yet published), tx, flight (with the device) and done.    *)
(***************************************************************************)
EXTENDS Integers, Sequences

CONSTANTS RxChunkSet, TxChunkSet

VARIABLES fill, rx, back, free, ready, tx, flight, done

queues == <<fill, rx, back, free, ready, tx, flight, done>>

(* s lists the members of S, each of them once, in some order. *)
Lists(s, S) ==
  /\ s \in Seq(S) /\ \A c \in S : \E k \in 1..Len(s) : s[k] = c
  /\ \A j, k \in 1..Len(s) : s[j] = s[k] => j = k

Init ==
  /\ Lists(fill, RxChunkSet) /\ Lists(free, TxChunkSet)
  /\ rx = <<>> /\ back = <<>> /\ ready = <<>> /\ tx = <<>> /\ flight = <<>> /\ done = <<>>

(* The kernel receives a frame. *)
Receive ==
  /\ fill # <<>>
  /\ rx' = Append(rx, Head(fill)) /\ fill' = Tail(fill)
  /\ UNCHANGED <<back, free, ready, tx, flight, done>>

(* The IO worker is done with k frames, and later returns their chunks. *)
Consume(k) ==
  /\ back' = back \o SubSeq(rx, 1, k) /\ rx' = SubSeq(rx, k + 1, Len(rx))
  /\ UNCHANGED <<fill, free, ready, tx, flight, done>>

Return ==
  /\ fill' = fill \o back /\ back' = <<>>
  /\ UNCHANGED <<rx, free, ready, tx, flight, done>>

(* The IO worker writes k frames, and later publishes them. *)
Prepare(k) ==
  /\ ready' = ready \o SubSeq(free, 1, k) /\ free' = SubSeq(free, k + 1, Len(free))
  /\ UNCHANGED <<fill, rx, back, tx, flight, done>>

Publish ==
  /\ tx' = tx \o ready /\ ready' = <<>>
  /\ UNCHANGED <<fill, rx, back, free, flight, done>>

(* The kernel hands a frame to the device, and completes it: in any order. *)
Send ==
  /\ tx # <<>>
  /\ flight' = Append(flight, Head(tx)) /\ tx' = Tail(tx)
  /\ UNCHANGED <<fill, rx, back, free, ready, done>>

Without(s, k) == SubSeq(s, 1, k - 1) \o SubSeq(s, k + 1, Len(s))

Complete(k) ==
  /\ flight' = Without(flight, k) /\ done' = Append(done, flight[k])
  /\ UNCHANGED <<fill, rx, back, free, ready, tx>>

(* The IO worker takes back what is completed. *)
Reclaim ==
  /\ free' = free \o done /\ done' = <<>>
  /\ UNCHANGED <<fill, rx, back, ready, tx, flight>>

Next ==
  \/ Receive \/ Return \/ Publish \/ Send \/ Reclaim
  \/ \E k \in 1..Len(rx) : Consume(k)
  \/ \E k \in 1..Len(free) : Prepare(k)
  \/ \E k \in 1..Len(flight) : Complete(k)

Spec == Init /\ [][Next]_queues
=============================================================================
