--------------------------- MODULE InnerFragments ---------------------------
(***************************************************************************)
(* Inner packets in QUIC datagrams (src/src/quic_engine.rs): a packet that *)
(* fits is sent whole, a larger one in fragments under a packet id, which  *)
(* the receiver puts together in a buffer of limited size.  A packet is    *)
(* the sequence of its bytes.                                              *)
(***************************************************************************)
EXTENDS Integers, Sequences, FiniteSets, FiniteSetsExt, Functions

CONSTANTS
  MaxDatagram,     \* max_size of a datagram
  HeaderLen,       \* INNER_FRAGMENT_HEADER_LEN
  IdWrap,          \* 2^64: the range of a packet id
  MaxPacket,       \* MAX_INNER_PACKET_LEN
  MaxEntries,      \* MAX_REASSEMBLY_ENTRIES
  MaxBytes         \* MAX_REASSEMBLY_BYTES

ASSUME FragmentAssumption == HeaderLen \in 1..(MaxDatagram - 1) /\ IdWrap \in Nat \ {0}

Missing == 0     \* of a byte; the bytes are positive
NoBuffer == [entry |-> <<>>, bytes |-> 0]    \* clear_reassembly

Whole(packet) == Len(packet) < MaxDatagram
Fits(packet) == Whole(packet) \/ Len(packet) <= MaxPacket

(* send_inner and send_fragmented_inner: the datagrams of a packet. *)
Datagrams(id, packet) ==
  LET size == MaxDatagram - HeaderLen
      Piece(offset) == SubSeq(packet, offset + 1, Min({Len(packet), offset + size}))
  IN  IF Whole(packet) THEN {[whole |-> TRUE, bytes |-> packet]}
      ELSE {[whole |-> FALSE, id |-> id, total |-> Len(packet), offset |-> o, bytes |-> Piece(o)] :
              o \in {k \in 0..(Len(packet) - 1) : k % size = 0}}

NextId(id, packet) == IF Whole(packet) THEN id ELSE (id + 1) % IdWrap

Bytes(buf) == MapThenSumSet(LAMBDA id : Len(buf.entry[id].packet), DOMAIN buf.entry)

Without(buf, ids) ==
  [buf EXCEPT !.entry = Restrict(@, DOMAIN @ \ ids)]

(* Variant: fragments that wait are never given up. *)
PruneNothing(buf) == [buf EXCEPT !.bytes = Bytes(buf)]

(* prune_reassembly: old entries are five seconds old. *)
Prune(buf) ==
  LET kept == Without(buf, {id \in DOMAIN buf.entry : buf.entry[id].old})
  IN  [kept EXCEPT !.bytes = Bytes(kept)]

Aged(buf) == [buf EXCEPT !.entry = [id \in DOMAIN @ |-> [@[id] EXCEPT !.old = TRUE]]]

(* The entry a fragment goes to: an existing one, or a new one if it fits. *)
Opened(buf, d) ==
  IF d.id \in DOMAIN buf.entry \/ Cardinality(DOMAIN buf.entry) >= MaxEntries
     \/ buf.bytes + d.total > MaxBytes
  THEN buf
  ELSE [entry |-> [id \in DOMAIN buf.entry \cup {d.id} |->
                     IF id = d.id THEN [packet |-> [k \in 1..d.total |-> Missing], old |-> FALSE]
                     ELSE buf.entry[id]],
        bytes |-> buf.bytes + d.total]

(* Variant: the bytes of a completed packet stay counted. *)
HandleInnerFragmentCounted(buf, d) ==
  LET b == Opened(buf, d)
  IN  IF d.id \notin DOMAIN b.entry \/ Len(b.entry[d.id].packet) # d.total
      THEN [buf |-> b, packets |-> <<>>]
      ELSE LET packet == [k \in 1..d.total |->
                            IF k \in (d.offset + 1)..(d.offset + Len(d.bytes))
                            THEN d.bytes[k - d.offset] ELSE b.entry[d.id].packet[k]]
           IN  IF Missing \in Range(packet)
               THEN [buf |-> [b EXCEPT !.entry[d.id].packet = packet], packets |-> <<>>]
               ELSE [buf |-> Without(b, {d.id}), packets |-> <<packet>>]

(* handle_inner_fragment: the buffer, and the packet it completes. *)
HandleInnerFragment(buf, d) ==
  LET b == Opened(buf, d)
  IN  IF d.id \notin DOMAIN b.entry \/ Len(b.entry[d.id].packet) # d.total
      THEN [buf |-> b, packets |-> <<>>]
      ELSE LET packet == [k \in 1..d.total |->
                            IF k \in (d.offset + 1)..(d.offset + Len(d.bytes))
                            THEN d.bytes[k - d.offset] ELSE b.entry[d.id].packet[k]]
           IN  IF Missing \in Range(packet)
               THEN [buf |-> [b EXCEPT !.entry[d.id].packet = packet], packets |-> <<>>]
               ELSE [buf |-> [Without(b, {d.id}) EXCEPT !.bytes = @ - d.total],
                     packets |-> <<packet>>]

(* handle_application_datagram, of an authenticated engine. *)
HandleDatagram(buf, d) ==
  IF d.whole THEN [buf |-> buf, packets |-> <<d.bytes>>] ELSE HandleInnerFragment(buf, d)
=============================================================================
