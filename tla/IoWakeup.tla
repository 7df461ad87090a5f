------------------------------ MODULE IoWakeup ------------------------------
(***************************************************************************)
(* How Flow workers wake an IO worker (src/src/xdp_datapath/io_wakeup.rs,  *)
(* send_io and io_loop of runtime.rs): a sender enqueues a packet, then    *)
(* notifies; a flag, pending, makes all but one of the senders skip the    *)
(* write to the eventfd; the IO worker empties its channel, and sleeps in  *)
(* poll only when a whole round moved nothing.                             *)
(***************************************************************************)
EXTENDS Integers, Sequences

CONSTANTS
  Senders,          \* Flow workers
  ChannelCapacity,  \* of the channel
  WriteMayFail,     \* whether the write to the eventfd may return an error
  MaxItems          \* bound: packets enqueued

ASSUME IoWakeupAssumption ==
  /\ ChannelCapacity \in Nat /\ MaxItems \in Nat /\ WriteMayFail \in BOOLEAN

VARIABLES
  channel,      \* packets for the IO worker
  pending,      \* IoWakeup.pending
  eventfd,      \* the eventfd's counter
  spc,          \* per sender: "idle", "notify", "write" or "reset"
  ipc,          \* IO worker: "receive", "transmit", "poll", "drain" or "clear"
  worked,       \* IO worker: this round received or transmitted something
  items,        \* packets enqueued so far
  failed        \* history: some write failed

wakeup_vars == <<channel, pending, eventfd, spc, ipc, worked, items, failed>>

WakeupInit ==
  /\ channel = <<>> /\ pending = FALSE /\ eventfd = 0
  /\ spc = [s \in Senders |-> "idle"]
  /\ ipc = "receive" /\ worked = FALSE /\ items = 0 /\ failed = FALSE

(* send_io: try_send; a packet for a full channel is dropped. *)
TrySend(s) ==
  /\ spc[s] = "idle" /\ items < MaxItems
  /\ items' = items + 1
  /\ IF Len(channel) < ChannelCapacity
     THEN channel' = Append(channel, s) /\ spc' = [spc EXCEPT ![s] = "notify"]
     ELSE UNCHANGED <<channel, spc>>
  /\ UNCHANGED <<pending, eventfd, ipc, worked, failed>>

(* notify: pending.swap(true); only the first one goes on to write. *)
Swap(s) ==
  /\ spc[s] = "notify"
  /\ spc' = [spc EXCEPT ![s] = IF pending THEN "idle" ELSE "write"]
  /\ pending' = TRUE
  /\ UNCHANGED <<channel, eventfd, ipc, worked, items, failed>>

(* notify: the write, successful. *)
Write(s) ==
  /\ spc[s] = "write"
  /\ eventfd' = eventfd + 1
  /\ spc' = [spc EXCEPT ![s] = "idle"]
  /\ UNCHANGED <<channel, pending, ipc, worked, items, failed>>

(* notify: the write fails, and pending is reset. *)
WriteFails(s) ==
  /\ WriteMayFail /\ spc[s] = "write"
  /\ spc' = [spc EXCEPT ![s] = "reset"] /\ failed' = TRUE
  /\ UNCHANGED <<channel, pending, eventfd, ipc, worked, items>>

Reset(s) ==
  /\ spc[s] = "reset"
  /\ pending' = FALSE
  /\ spc' = [spc EXCEPT ![s] = "idle"]
  /\ UNCHANGED <<channel, eventfd, ipc, worked, items, failed>>

(* io_loop: receive_with finds frames on the XSK, or none. *)
Receive(found) ==
  /\ ipc = "receive" /\ ipc' = "transmit" /\ worked' = found
  /\ UNCHANGED <<channel, pending, eventfd, spc, items, failed>>

(* io_loop: a packet is taken and transmitted (or dropped by the XSK). *)
Transmit(sent) ==
  /\ ipc = "transmit" /\ channel # <<>>
  /\ channel' = Tail(channel) /\ worked' = (worked \/ sent)
  /\ UNCHANGED <<pending, eventfd, spc, ipc, items, failed>>

(* Variant: the worker sleeps with packets left, as after one batch. *)
RoundEndsAfterBatch ==
  /\ ipc = "transmit"
  /\ ipc' = IF worked THEN "receive" ELSE "poll"
  /\ UNCHANGED <<channel, pending, eventfd, spc, worked, items, failed>>

(* io_loop: the channel is empty; another round, or sleep. *)
RoundEnds ==
  /\ ipc = "transmit" /\ channel = <<>>
  /\ ipc' = IF worked THEN "receive" ELSE "poll"
  /\ UNCHANGED <<channel, pending, eventfd, spc, worked, items, failed>>

(* Variant: poll is repeated without a look at the eventfd. *)
PollWakeIgnored ==
  /\ ipc = "poll" /\ eventfd > 0 /\ UNCHANGED wakeup_vars

(* poll returns because the eventfd is readable. *)
PollWake ==
  /\ ipc = "poll" /\ eventfd > 0 /\ ipc' = "drain"
  /\ UNCHANGED <<channel, pending, eventfd, spc, worked, items, failed>>

(* Variant: a poll that ends without the eventfd is only repeated. *)
PollOtherRepeats ==
  /\ ipc = "poll" /\ eventfd = 0 /\ UNCHANGED wakeup_vars

(* poll returns because of the XSK alone, or after 100 ms. *)
PollOther ==
  /\ ipc = "poll" /\ eventfd = 0 /\ ipc' = "receive"
  /\ UNCHANGED <<channel, pending, eventfd, spc, worked, items, failed>>

(* Variant: clear_pending comes before the read of the eventfd. *)
DrainClearsFirst ==
  /\ ipc = "drain" /\ pending' = FALSE /\ ipc' = "clear"
  /\ UNCHANGED <<channel, eventfd, spc, worked, items, failed>>

(* drain: the read resets the counter. *)
Drain ==
  /\ ipc = "drain" /\ eventfd' = 0 /\ ipc' = "clear"
  /\ UNCHANGED <<channel, pending, spc, worked, items, failed>>

(* clear_pending. *)
ClearPending ==
  /\ ipc = "clear" /\ pending' = FALSE /\ ipc' = "receive"
  /\ UNCHANGED <<channel, eventfd, spc, worked, items, failed>>

Notify(s) == Swap(s) \/ Write(s) \/ WriteFails(s) \/ Reset(s)

WorkerStep ==
  \/ \E found \in BOOLEAN : Receive(found)
  \/ \E sent \in BOOLEAN : Transmit(sent)
  \/ RoundEnds \/ PollWake \/ Drain \/ ClearPending

WakeupNext == (\E s \in Senders : TrySend(s) \/ Notify(s)) \/ WorkerStep \/ PollOther

WakeupSpec == WakeupInit /\ [][WakeupNext]_wakeup_vars

(* Threads make progress; poll need not time out. *)
FairWakeupSpec ==
  /\ WakeupSpec /\ WF_wakeup_vars(WorkerStep)
  /\ \A s \in Senders : WF_wakeup_vars(Notify(s))

-----------------------------------------------------------------------------
TypeOK ==
  /\ channel \in Seq(Senders) /\ Len(channel) <= ChannelCapacity
  /\ pending \in BOOLEAN /\ worked \in BOOLEAN /\ failed \in BOOLEAN
  /\ eventfd \in Nat /\ items \in Nat
  /\ spc \in [Senders -> {"idle", "notify", "write", "reset"}]
  /\ ipc \in {"receive", "transmit", "poll", "drain", "clear"}

Writing(s) == spc[s] \in {"write", "reset"}

(* The pending flag is the right to wake the IO worker, and there is one:  *)
(* while it is set, exactly one of the following holds: a sender is about  *)
(* to write (or to give up), the eventfd is readable, or the IO worker is  *)
(* between reading the eventfd and clearing the flag.  So the eventfd      *)
(* never counts beyond one, and no write can find it full.                 *)
OneWakeup ==
  /\ eventfd \in {0, 1}
  /\ pending <=> eventfd = 1 \/ ipc = "clear" \/ \E s \in Senders : Writing(s)
  /\ eventfd = 1 => ipc # "clear" /\ \A s \in Senders : ~Writing(s)
  /\ ipc = "drain" => eventfd = 1
  /\ ipc = "clear" => \A s \in Senders : ~Writing(s)
  /\ \A s, t \in Senders : Writing(s) /\ Writing(t) => s = t

(* No packet waits for a sleeping IO worker: if the worker is in poll and  *)
(* its channel is not empty, the eventfd wakes it, or some sender has yet  *)
(* to finish its notification.                                             *)
NoLostWakeup ==
  ipc = "poll" /\ channel # <<>> =>
    eventfd > 0 \/ failed \/ \E s \in Senders : spc[s] \in {"notify", "write"}

(* Every packet gets out, by the wakeups alone: a channel with packets is  *)
(* emptied again, unless a write to the eventfd has failed.                *)
ChannelEmptied == channel # <<>> ~> channel = <<>> \/ failed

(* Where a write did fail, poll's timeout of 100 ms takes its place: if    *)
(* poll also returns without the eventfd, the channel is always emptied.   *)
TimeoutEmpties == WF_wakeup_vars(PollOther) => (channel # <<>> ~> channel = <<>>)
=============================================================================
