---------------------------- MODULE InnerChannel ----------------------------
(***************************************************************************)
(* What the tunnel promises the inner packets: each arrives unchanged or   *)
(* not at all, at most once, in any order, and only at a receiver that     *)
(* still uses the connection it was sent on.  Receivers move to newer      *)
(* connections and never back.                                             *)
(***************************************************************************)
EXTENDS Integers, Sequences, SequencesExt

CONSTANT Directions

VARIABLES
  session,     \* per direction: the receiver's latest connection
  sent,        \* packets: direction, connection and bytes
  delivered    \* sequence of packets

Init == session \in [Directions -> Nat] /\ sent = {} /\ delivered = <<>>

Send(p) == sent' = sent \cup {p} /\ UNCHANGED <<session, delivered>>

Receive(d, g) ==
  /\ g >= session[d] /\ session' = [session EXCEPT ![d] = g]
  /\ IsPrefix(delivered, delivered') /\ IsInjective(delivered')
  /\ \A k \in (Len(delivered) + 1)..Len(delivered') :
       LET p == delivered'[k] IN p \in sent /\ p.dir = d /\ p.conn = g
  /\ UNCHANGED sent

Next ==
  \/ \E p \in sent' \ sent : Send(p)
  \/ \E d \in Directions : Receive(d, session'[d])

Spec == Init /\ [][Next]_<<session, sent, delivered>>
=============================================================================
