--------------------------- MODULE TunnelChannel ---------------------------
(***************************************************************************)
(* The tunnel as a channel for inner packets: the receiver of a direction  *)
(* is at the latest connection the server has made active, or at the       *)
(* client's present one.                                                   *)
(***************************************************************************)
EXTENDS Tunnel

Channel == INSTANCE InnerChannel WITH
  Directions <- {"up", "down"}, session <- [up |-> latest, down |-> client.conn.gen]

(* The tunnel is the channel of InnerChannel: whatever is lost, reordered  *)
(* or left half-assembled when a connection is replaced, no packet arrives *)
(* mixed with another, twice, or on a connection it was not sent on.       *)
(* Packet ids start again with every connection of the client, and a drive *)
(* that sees the candidate authenticate handles its datagrams while the    *)
(* old connection is still active.                                         *)
ImplementsChannel == Channel!Spec
=============================================================================
