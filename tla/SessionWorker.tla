--------------------------- MODULE SessionWorker ---------------------------
(***************************************************************************)
(* One Flow worker's session and NAT state under every sequence of the     *)
(* operations the worker performs on it: packets of both directions, DNS   *)
(* bindings taken and released, sessions dropped, sessions expiring, time  *)
(* passing.                                                                *)
(***************************************************************************)
EXTENDS SessionTable

CONSTANTS
  Worker,        \* owner_worker_id
  Ports,         \* the worker's share of the SNAT port range
  Flows,         \* original flows that packets may belong to
  DnsFlows,      \* client-to-resolver flows of DNS transactions
  Ios,           \* IO owners packets may arrive on
  DnsBit,        \* tokens of DNS transactions start here (bit 63)
  MaxTime,       \* bound: the clock stops here
  MaxSessions,   \* bound: sessions created
  MaxTokens      \* bound: DNS tokens drawn

ASSUME BoundsAssumption ==
  /\ Ports \subseteq Nat
  /\ {DnsBit, MaxTime, MaxSessions, MaxTokens} \subseteq Nat
  /\ MaxSessions < DnsBit
  /\ \A flow \in Flows \cup DnsFlows : flow.proto \in Protocols

VARIABLES
  table,            \* the SessionTable
  next_dns_token,
  now,              \* Instant::now()
  released,         \* history: when a return tuple was last released
  heard             \* history: what the packets of each session have said

vars == <<table, next_dns_token, now, released, heard>>

Init ==
  /\ table = NewTable(Ports)
  /\ next_dns_token = 1
  /\ now = 0
  /\ released = EmptyMap
  /\ heard = EmptyMap

(* History: the return tuples of the given bindings were released now. *)
Released(ids) ==
  LET keys == {BindingKey(table.nat.forward[i]) : i \in ids}
  IN  [k \in DOMAIN released \cup keys |-> IF k \in keys THEN now ELSE released[k]]

(* History of a session: the flag of its first packet, until another one   *)
(* comes; whether one of the others was an RST, and the directions a FIN   *)
(* among them came from; the time of the last packet.                      *)
FirstHeard(flag) == [at |-> now, opened |-> flag, rst |-> FALSE, fins |-> {}]

NowHeard(h, flag, dir) ==
  [at |-> now, opened |-> "none", rst |-> h.rst \/ flag = "rst",
   fins |-> IF flag = "fin" THEN h.fins \cup {dir} ELSE h.fins]

Hear(id, flag, dir) == [heard EXCEPT ![id] = NowHeard(@, flag, dir)]

(* handle_intercept / handle_server_inner: the session of an outgoing      *)
(* packet is touched, or created, or the NAT allocation fails.             *)
Outgoing(flow, io, flag) ==
  LET r == GetOrCreate(table, Worker, flow, io, 1, flag, now)
  IN  /\ HasSession(table, flow, io.ifindex) \/ table.next_session_id <= MaxSessions
      /\ table' = r.table
      /\ heard' = IF HasSession(table, flow, io.ifindex) THEN Hear(r.id, flag, "forward")
                  ELSE IF r.id = NoSession THEN heard
                  ELSE Put(heard, r.id, FirstHeard(flag))
      /\ UNCHANGED <<next_dns_token, now, released>>

(* handle_reverse_for_inner: an incoming packet finds its session by the   *)
(* return tuple; a server may first correct the session's queue, and drops *)
(* a packet from an owner it does not accept.                              *)
Incoming(key, io, flag) ==
  \E locator \in ReverseLocator(table, Worker, key) :
    LET id == locator.session_id
    IN  /\ InterceptIoAccepts(table, id, io)
        /\ table' = TouchTcp(CorrectInterceptIo(table, id, io), id, flag, TRUE, now)
        /\ heard' = Hear(id, flag, "reverse")
        /\ UNCHANGED <<next_dns_token, now, released>>

(* remove_session: the packet of the session could not be sent, or its     *)
(* return tuple not be published.                                          *)
DropSession(id) ==
  /\ table' = RemoveSessions(table, {id}, now)
  /\ released' = Released({id})
  /\ heard' = Restrict(heard, DOMAIN heard \ {id})
  /\ UNCHANGED <<next_dns_token, now>>

(* expire_idle_sessions. *)
ExpireIdle ==
  LET ids == Lapsed(table, now)
  IN  /\ ids # {}
      /\ table' = RemoveSessions(table, ids, now)
      /\ released' = Released(ids)
      /\ heard' = Restrict(heard, DOMAIN heard \ ids)
      /\ UNCHANGED <<next_dns_token, now>>

(* handle_dns_query draws a token, whether or not the allocation works. *)
TakeDnsBinding(flow) ==
  LET token == DnsBit + next_dns_token
  IN  /\ next_dns_token <= MaxTokens
      /\ next_dns_token' = next_dns_token + 1
      /\ table' = IF CanAllocate(table.nat, token, flow, now)
                  THEN AllocateEphemeral(table, Worker, token, flow, now)
                  ELSE [table EXCEPT !.nat = AllocateFailed(@, token, flow, now)]
      /\ UNCHANGED <<now, released, heard>>

(* remove_dns_transaction. *)
ReleaseDnsBinding(token) ==
  /\ table' = ReleaseEphemeral(table, {token}, now)
  /\ released' = Released({token})
  /\ UNCHANGED <<next_dns_token, now, heard>>

Tick == now < MaxTime /\ now' = now + 1
        /\ UNCHANGED <<table, next_dns_token, released, heard>>

DnsTokens == DOMAIN table.nat.forward \ DOMAIN table.sessions

(* A step, when packets are of these flows and arrive on these IO owners. *)
Steps(flows, ios) ==
  \/ \E flow \in flows, io \in ios : \E flag \in FlagsOf(flow.proto) :
       Outgoing(flow, io, flag)
  \/ \E key \in DOMAIN table.nat.reverse, io \in ios : \E flag \in FlagsOf(key.proto) :
       Incoming(key, io, flag)
  \/ \E id \in DOMAIN table.sessions : DropSession(id)
  \/ ExpireIdle
  \/ \E flow \in DnsFlows : TakeDnsBinding(flow)
  \/ \E token \in DnsTokens : ReleaseDnsBinding(token)
  \/ Tick

Next == Steps(Flows, Ios)

Spec == Init /\ [][Next]_vars

-----------------------------------------------------------------------------
(* Whatever the operations, the free ports, the bindings, the reverse      *)
(* index, the quarantine, the key index and the deadline index describe    *)
(* the same set of sessions and DNS bindings: no port is lost or handed    *)
(* out twice, no session is unreachable by key or forgotten by expiry.     *)
Consistent == TableConsistent(table, Ports)

BindsAfterQuarantine ==
  \A k \in DOMAIN table'.nat.reverse \ DOMAIN table.nat.reverse :
    k \in DOMAIN released => now >= released[k] + ReuseQuarantine[k.proto]

(* A return tuple that was released is not bound again, to any session or  *)
(* DNS transaction, before its protocol's quarantine has passed, so that   *)
(* late answers to the old holder cannot reach the new one.                *)
ReuseRespectsQuarantine == [][BindsAfterQuarantine]_vars

MayEndEarly(h) == h.rst \/ h.fins = {"forward", "reverse"} \/ h.opened # "none"

(* A TCP session may expire before the idle timeout that follows its last  *)
(* packet exactly when one of its packets was an RST, both sides sent a    *)
(* FIN, or its only packet so far was itself a FIN or an RST: one side     *)
(* closing does not cut off the other, and no packet, in whatever order    *)
(* they come, puts a finished session back on the idle timeout.            *)
EarlyExpiryEarned ==
  \A id \in DOMAIN table.sessions :
    table.sessions[id].original.proto = "tcp" =>
      (table.sessions[id].expires_at < heard[id].at + TcpIdle <=> MayEndEarly(heard[id]))
=============================================================================
