--------------------------- MODULE PublicAddress ----------------------------
(***************************************************************************)
(* Which destinations are public: is_public_v4 and is_public_v6 of the XDP *)
(* program (src/src/xdp_datapath/xdp_filter.c) and is_public_destination   *)
(* of the IO worker (src/src/xdp_datapath/io_worker.rs), which Classifier  *)
(* takes to be one set, Public.                                            *)
(*                                                                         *)
(* An IPv4 address is its octets, an IPv6 address the sequence of its 16   *)
(* bytes, counted from 0.  x & mask, for a mask of leading ones, is x      *)
(* without its remainder.                                                  *)
(***************************************************************************)
EXTENDS Integers

Byte == 0..255
V6Bytes == [0..15 -> Byte]

(* x & ~(unit - 1), for a power of two. *)
Masked(x, unit) == x - (x % unit)

-----------------------------------------------------------------------------
(* The XDP program. *)

IsPublicV4(a, b, c, d) ==
  /\ ~(a = 0 \/ a = 10 \/ a = 127 \/ a >= 224)
  /\ ~(a = 100 /\ b >= 64 /\ b <= 127)
  /\ ~(a = 169 /\ b = 254)
  /\ ~(a = 172 /\ b >= 16 /\ b <= 31)
  /\ ~(a = 192 /\ b = 168)
  /\ ~(a = 192 /\ b = 0 /\ c \in {0, 2})
  /\ ~(a = 192 /\ <<b, c>> \in {<<31, 196>>, <<52, 193>>, <<88, 99>>, <<175, 48>>})
  /\ ~(a = 198 /\ b \in {18, 19})
  /\ ~(a = 198 /\ b = 51 /\ c = 100)
  /\ ~(a = 203 /\ b = 0 /\ c = 113)
  /\ ~(a = 255 /\ b = 255 /\ c = 255 /\ d = 255)

Zero(s, first, last) == \A i \in first..last : s[i] = 0

IsUnspecifiedV6(s) == Zero(s, 0, 15)
IsLoopbackV6(s) == Zero(s, 0, 14) /\ s[15] = 1

IsPublicV6(s) ==
  /\ ~IsUnspecifiedV6(s) /\ ~IsLoopbackV6(s)
  /\ s[0] # 255
  /\ ~(s[0] = 254 /\ Masked(s[1], 64) = 128)
  /\ ~(s[0] = 254 /\ Masked(s[1], 64) = 192)
  /\ Masked(s[0], 2) # 252
  /\ ~(Zero(s, 0, 9) /\ s[10] = 255 /\ s[11] = 255)
  /\ ~(s[0] = 1 /\ s[1] = 0 /\ Zero(s, 2, 7))
  /\ ~(s[0] = 32 /\ s[1] = 1 /\ s[2] = 13 /\ s[3] = 184)
  /\ ~(s[0] = 32 /\ s[1] = 1 /\ s[2] = 0 /\ s[3] = 2 /\ s[4] = 0 /\ s[5] = 0)

-----------------------------------------------------------------------------
(* The IO worker.  is_loopback, is_private and the other tests are those   *)
(* of Rust's standard library.                                             *)

IsPrivate(a, b) == a = 10 \/ (a = 172 /\ b \in 16..31) \/ (a = 192 /\ b = 168)

IsPublicDestinationV4(a, b, c, d) ==
  /\ a # 0 /\ a # 127 /\ ~IsPrivate(a, b) /\ ~(a = 169 /\ b = 254) /\ a \notin 224..239
  /\ ~(a = 255 /\ b = 255 /\ c = 255 /\ d = 255)
  /\ ~(a = 100 /\ b \in 64..127)
  /\ ~(a = 192 /\ b = 0 /\ c = 0) /\ ~(a = 192 /\ b = 0 /\ c = 2)
  /\ ~(a = 192 /\ b = 31 /\ c = 196) /\ ~(a = 192 /\ b = 52 /\ c = 193)
  /\ ~(a = 192 /\ b = 88 /\ c = 99) /\ ~(a = 192 /\ b = 175 /\ c = 48)
  /\ ~(a = 198 /\ (b = 18 \/ b = 19)) /\ ~(a = 198 /\ b = 51 /\ c = 100)
  /\ ~(a = 203 /\ b = 0 /\ c = 113)
  /\ a < 240

(* Ipv6Addr::segments. *)
Segment(s, k) == 256 * s[2 * k] + s[2 * k + 1]
ZeroSegments(s, last) == \A k \in 0..last : Segment(s, k) = 0

IsPublicDestinationV6(s) ==
  /\ ~ZeroSegments(s, 7) /\ ~(ZeroSegments(s, 6) /\ Segment(s, 7) = 1)
  /\ Segment(s, 0) \div 256 # 255
  /\ Masked(Segment(s, 0), 64) # 65152
  /\ Masked(Segment(s, 0), 64) # 65216
  /\ Masked(Segment(s, 0), 512) # 64512
  /\ ~(ZeroSegments(s, 4) /\ Segment(s, 5) = 65535)
  /\ ~(Segment(s, 0) = 256 /\ Segment(s, 1) = 0 /\ Segment(s, 2) = 0 /\ Segment(s, 3) = 0)
  /\ ~(Segment(s, 0) = 8193 /\ Segment(s, 1) = 3512)
  /\ ~(Segment(s, 0) = 8193 /\ Segment(s, 1) = 2 /\ Segment(s, 2) = 0)
=============================================================================
