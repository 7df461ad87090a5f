------------------------------- MODULE Tunnel -------------------------------
(***************************************************************************)
(* A client's engine and a server's, and the network between them          *)
(* (src/src/quic_engine.rs; flow_loop and drain_engine of                  *)
(* src/src/xdp_datapath/runtime.rs): connections are made, authenticate,   *)
(* replace each other and are lost, while inner packets travel in          *)
(* datagrams that may be lost and reordered.                               *)
(*                                                                         *)
(* quinn-proto is external: streams are reliable and ordered, datagrams    *)
(* arrive at most once.  A connection is the number of the client's        *)
(* attempt.  A drive takes at most one frame of the authentication stream  *)
(* and one datagram.  That DCIDs are published without conflict is         *)
(* QuicLane's.                                                             *)
(***************************************************************************)
EXTENDS AuthExchange, InnerFragments

CONSTANTS
  ServerKey, ClientKeys,   \* SharedKey of the server, and those the client may have
  MaxGens,                 \* bound: attempts of the client
  MaxFaults,               \* bound: outages, restarts and delayed first packets
  MaxPackets,              \* bound: inner packets sent
  Lengths                  \* bound: their lengths

VARIABLES
  client,     \* QuicEngine: conn, next_inner_packet_id (next) and the reassembly buffer
  server,     \* QuicEngine: active, candidate, promotion (candidate_promotion_pending), next, buf
  key,        \* the client's SharedKey
  accepted,   \* connections the server has seen
  streams,    \* set of [gen, dir, frame]: the frame under way; Hello ends the handshake
  net,        \* set of [gen, dir, d]: datagrams under way
  faults, serial,        \* so far
  sent, delivered,       \* history, as in InnerChannel
  latest,                \* history: the server's latest active connection
  proven                 \* history: connections the server has authenticated

tunnel_vars ==
  <<client, server, key, accepted, streams, net, faults, serial, sent, delivered, latest, proven>>

Hello == [kind |-> "hello"]
Conn(gen, auth) == [gen |-> gen, auth |-> auth, expired |-> FALSE]
NewClient(gen) == [conn |-> Conn(gen, NoAuth), next |-> 0, buf |-> NoBuffer]

Held(s) == {c.gen : c \in {s.active, s.candidate} \ {None}}
Receives(c, s, m) == IF m.dir = "down" THEN m.gen = c.conn.gen ELSE m.gen \in Held(s)

TunnelInit ==
  /\ client = NewClient(1) /\ key \in ClientKeys
  /\ server = [active |-> None, candidate |-> None, promotion |-> FALSE, next |-> 0, buf |-> NoBuffer]
  /\ accepted = {} /\ streams = {} /\ net = {} /\ faults = 0 /\ serial = 0
  /\ sent = {} /\ delivered = <<>> /\ latest = 0 /\ proven = {}

-----------------------------------------------------------------------------
(* What a drive is given for a connection: a frame, a datagram, whether    *)
(* the transport is lost and whether the stream takes no more.             *)
Input(frame, datagrams, lost, blocked) ==
  [frame |-> frame, datagrams |-> datagrams, lost |-> lost, blocked |-> blocked]
Nothing == Input(None, {}, FALSE, FALSE)

(* The frame, which for a client may be the end of the handshake. *)
Taken(role, k, c, i) ==
  IF i.frame = None THEN Outcome(c.auth, None, FALSE, FALSE)
  ELSE IF i.frame = Hello THEN StartClient(k, c.gen)
  ELSE HandleAuthFrame(role, k, c.gen, c.auth, i.frame, i.blocked)

(* Variant: the authentication deadline is ignored. *)
DriveConnectionPatient(role, k, c, i) ==
  LET r == Taken(role, k, c, i)
      lost == i.lost \/ r.lost
      f == IF lost \/ i.blocked THEN Outcome(r.auth, None, FALSE, FALSE) ELSE Flush(k, c.gen, r.auth)
  IN  [conn |-> [c EXCEPT !.auth = f.auth], replies |-> {r.reply, f.reply} \ {None},
       now |-> r.now \/ f.now, lost |-> lost]

(* drive_connection. *)
DriveConnection(role, k, c, i) ==
  LET r == Taken(role, k, c, i)
      lost == i.lost \/ r.lost \/ (c.expired /\ ~c.auth.authenticated)
      f == IF lost \/ i.blocked THEN Outcome(r.auth, None, FALSE, FALSE) ELSE Flush(k, c.gen, r.auth)
  IN  [conn |-> [c EXCEPT !.auth = f.auth], replies |-> {r.reply, f.reply} \ {None},
       now |-> r.now \/ f.now, lost |-> lost]

Idle == [conn |-> None, replies |-> {}, now |-> FALSE, lost |-> FALSE]
Driven(c, i) == IF c = None THEN Idle ELSE DriveConnection("server", ServerKey, c, i)

(* Datagrams handled by an engine with buffer buf. *)
Handled(buf, ds) ==
  IF ds = {} THEN [buf |-> buf, packets |-> <<>>] ELSE HandleDatagram(buf, CHOOSE d \in ds : TRUE)

(* drive of the server, from what drive_connection says of the active      *)
(* connection and of the candidate; promote_candidate included.  If the    *)
(* candidate has just authenticated, its datagrams are handled.            *)
DriveServer(s, a, c, ia, ic) ==
  LET base == [s EXCEPT !.active = a.conn, !.candidate = c.conn]
      resolved ==
        IF c.now /\ s.active # None THEN [base EXCEPT !.promotion = TRUE]
        ELSE IF c.now THEN [base EXCEPT !.active = c.conn, !.candidate = None]
        ELSE IF c.lost THEN [base EXCEPT !.candidate = None] ELSE base
      left == IF a.lost /\ ~c.now
              THEN [resolved EXCEPT !.active = None, !.candidate = None, !.buf = NoBuffer]
              ELSE resolved
      h == Handled(Prune(left.buf),
                   IF left.active = None THEN {} ELSE IF c.now THEN ic.datagrams ELSE ia.datagrams)
  IN  [state |-> [left EXCEPT !.buf = h.buf], packets |-> h.packets, now |-> c.now,
       replies |-> {[gen |-> s.active.gen, dir |-> "down", frame |-> f] : f \in a.replies}
                   \cup {[gen |-> s.candidate.gen, dir |-> "down", frame |-> f] : f \in c.replies}]

(* Messages a receiver no longer has a connection for are gone. *)
Arriving(c, s, ms) == {m \in ms : Receives(c, s, m)}

ServerDrives(ia, ic, frames, datagrams) ==
  \E a \in {Driven(server.active, ia)}, c \in {Driven(server.candidate, ic)} :
    \E d \in {DriveServer(server, a, c, ia, ic)} :
      /\ server' = d.state
      /\ streams' = Arriving(client, d.state, (streams \ frames) \cup d.replies)
      /\ net' = Arriving(client, d.state, net \ datagrams)
      /\ delivered' = delivered \o [k \in DOMAIN d.packets |->
           [dir |-> "up", conn |-> d.state.active.gen, bytes |-> d.packets[k]]]
      /\ latest' = IF d.state.active = None THEN latest ELSE d.state.active.gen
      /\ proven' = IF d.now THEN proven \cup {server.candidate.gen} ELSE proven
      /\ UNCHANGED <<client, key, accepted, serial, sent>>

-----------------------------------------------------------------------------
(* handle_outer: a first packet.  While there is a candidate it is refused *)
(* without an answer, and repeated.  One of an attempt that is over has    *)
(* been delayed.                                                           *)
Accept(g) ==
  LET s == [server EXCEPT !.candidate = Conn(g, NoAuth)]
  IN  /\ g \notin accepted /\ server.candidate = None /\ ~server.promotion
      /\ server' = s /\ accepted' = accepted \cup {g}
      /\ faults' = IF g = client.conn.gen THEN faults ELSE faults + 1
      /\ streams' = Arriving(client, s, streams \cup {[gen |-> g, dir |-> "down", frame |-> Hello]})
      /\ UNCHANGED <<client, key, net, serial, sent, delivered, latest, proven>>

(* handle_outer: a packet of a connection, with a frame or a datagram. *)
ServerReceives(g, blocked) ==
  /\ ~server.promotion
  /\ \E fs \in {{}} \cup {{m} : m \in {m \in streams : m.gen = g /\ m.dir = "up"}},
        ds \in {{}} \cup {{m} : m \in {m \in net : m.gen = g /\ m.dir = "up"}} :
       LET i == Input(IF fs = {} THEN None ELSE (CHOOSE m \in fs : TRUE).frame,
                      {m.d : m \in ds}, FALSE, blocked)
       IN  /\ fs \cup ds # {}
           /\ IF server.candidate # None /\ server.candidate.gen = g
              THEN ServerDrives(Nothing, i, fs, ds) ELSE ServerDrives(i, Nothing, fs, ds)
  /\ UNCHANGED faults

(* poll: a drive for the timers, which also flushes and prunes. *)
ServerPolls == ServerDrives(Nothing, Nothing, {}, {}) /\ UNCHANGED faults

(* The transport of a connection is lost: the client has left it, or the   *)
(* network fails for long.                                                 *)
Fault(free) == IF free THEN faults' = faults ELSE faults < MaxFaults /\ faults' = faults + 1

ActiveLost ==
  /\ server.active # None
  /\ ServerDrives(Input(None, {}, TRUE, FALSE), Nothing, {}, {})
  /\ Fault(server.active.gen # client.conn.gen)

CandidateLost ==
  /\ server.candidate # None
  /\ ServerDrives(Nothing, Input(None, {}, TRUE, FALSE), {}, {})
  /\ Fault(server.candidate.gen # client.conn.gen)

(* The authentication deadline of the candidate passes. *)
CandidateExpires ==
  /\ server.candidate # None /\ ~server.candidate.expired
  /\ server' = [server EXCEPT !.candidate.expired = TRUE]
  /\ Fault(server.candidate.gen # client.conn.gen)
  /\ UNCHANGED <<client, key, accepted, streams, net, serial, sent, delivered, latest, proven>>

(* Variant: the reassembly of the old connection goes on. *)
CommitKeepsBuffer(s) ==
  IF s.candidate = None THEN s ELSE [s EXCEPT !.active = s.candidate, !.candidate = None]

(* commit_candidate_replacement. *)
Commit(s) ==
  IF s.candidate = None THEN s
  ELSE [s EXCEPT !.active = s.candidate, !.candidate = None, !.buf = NoBuffer]

(* resolve_candidate_replacement, when drain_engine gets to Replaced. *)
Resolve ==
  LET s == [Commit(server) EXCEPT !.promotion = FALSE]
  IN  /\ server.promotion /\ server' = s
      /\ streams' = Arriving(client, s, streams) /\ net' = Arriving(client, s, net)
      /\ latest' = IF s.active = None THEN latest ELSE s.active.gen
      /\ UNCHANGED <<client, key, accepted, faults, serial, sent, delivered, proven>>

(* SIGHUP: close. *)
ServerRestarts ==
  LET s == [server EXCEPT !.active = None, !.candidate = None, !.buf = NoBuffer]
  IN  /\ Held(server) # {} /\ ~server.promotion /\ Fault(FALSE)
      /\ server' = s /\ streams' = Arriving(client, s, streams) /\ net' = Arriving(client, s, net)
      /\ UNCHANGED <<client, key, accepted, serial, sent, delivered, latest, proven>>

-----------------------------------------------------------------------------
(* drive of the client; after a loss drain_engine connects again with a    *)
(* new engine (reconnect_client).                                          *)
ClientDrives(i, frames, datagrams) ==
  \E r \in {DriveConnection("client", key, client.conn, i)} :
  \E h \in {Handled(Prune(client.buf), IF r.conn.auth.authenticated THEN i.datagrams ELSE {})} :
  \E after \in {IF r.lost THEN NewClient(client.conn.gen + 1)
                ELSE [client EXCEPT !.conn = r.conn, !.buf = h.buf]} :
      /\ r.lost => client.conn.gen < MaxGens
      /\ client' = after
      /\ streams' = Arriving(after, server, (streams \ frames) \cup
                      {[gen |-> client.conn.gen, dir |-> "up", frame |-> f] : f \in r.replies})
      /\ net' = Arriving(after, server, net \ datagrams)
      /\ delivered' = IF r.lost THEN delivered
                      ELSE delivered \o [k \in DOMAIN h.packets |->
                        [dir |-> "down", conn |-> client.conn.gen, bytes |-> h.packets[k]]]
      /\ UNCHANGED <<server, key, accepted, serial, sent, latest, proven>>

ClientReceives ==
  /\ \E fs \in {{}} \cup {{m} : m \in {m \in streams : m.dir = "down"}},
        ds \in {{}} \cup {{m} : m \in {m \in net : m.dir = "down"}} :
       /\ fs \cup ds # {}
       /\ ClientDrives(Input(IF fs = {} THEN None ELSE (CHOOSE m \in fs : TRUE).frame,
                             {m.d : m \in ds}, FALSE, FALSE), fs, ds)
  /\ UNCHANGED faults

ClientPolls == ClientDrives(Nothing, {}, {}) /\ UNCHANGED faults

(* The server has left the connection, or the network fails; also SIGHUP. *)
ClientLost ==
  /\ ClientDrives(Input(None, {}, TRUE, FALSE), {}, {})
  /\ Fault(client.conn.gen \in accepted \ Held(server))

ClientExpires ==
  /\ ~client.conn.expired /\ ~client.conn.auth.authenticated
  /\ client' = [client EXCEPT !.conn.expired = TRUE]
  /\ Fault(client.conn.gen \in accepted \ Held(server))
  /\ UNCHANGED <<server, key, accepted, streams, net, serial, sent, delivered, latest, proven>>

-----------------------------------------------------------------------------
Packet(len) == [k \in 1..len |-> serial + 1]

Under(gen, dir, ds) == {[gen |-> gen, dir |-> dir, d |-> d] : d \in ds}

(* send_inner, of an authenticated engine. *)
ClientSends(len) ==
  /\ serial < MaxPackets /\ client.conn.auth.authenticated /\ Fits(Packet(len))
  /\ serial' = serial + 1
  /\ client' = [client EXCEPT !.next = NextId(@, Packet(len))]
  /\ sent' = sent \cup {[dir |-> "up", conn |-> client.conn.gen, bytes |-> Packet(len)]}
  /\ net' = Arriving(client, server, net \cup
              Under(client.conn.gen, "up", Datagrams(client.next, Packet(len))))
  /\ UNCHANGED <<server, key, accepted, streams, faults, delivered, latest, proven>>

ServerSends(len) ==
  /\ serial < MaxPackets /\ server.active # None /\ ~server.promotion /\ Fits(Packet(len))
  /\ serial' = serial + 1
  /\ server' = [server EXCEPT !.next = NextId(@, Packet(len))]
  /\ sent' = sent \cup {[dir |-> "down", conn |-> server.active.gen, bytes |-> Packet(len)]}
  /\ net' = Arriving(client, server, net \cup
              Under(server.active.gen, "down", Datagrams(server.next, Packet(len))))
  /\ UNCHANGED <<client, key, accepted, streams, faults, delivered, latest, proven>>

(* Five seconds pass for the fragments that wait. *)
FragmentsAge ==
  /\ client' = [client EXCEPT !.buf = Aged(@)] /\ server' = [server EXCEPT !.buf = Aged(@)]
  /\ UNCHANGED <<key, accepted, streams, net, faults, serial, sent, delivered, latest, proven>>

TunnelNext ==
  \/ \E g \in 1..client.conn.gen : (g < client.conn.gen => faults < MaxFaults) /\ Accept(g)
  \/ \E g \in Held(server), blocked \in BOOLEAN : ServerReceives(g, blocked)
  \/ ServerPolls \/ ActiveLost \/ CandidateLost \/ CandidateExpires \/ Resolve \/ ServerRestarts
  \/ ClientReceives \/ ClientPolls \/ ClientLost \/ ClientExpires
  \/ \E len \in Lengths : ClientSends(len) \/ ServerSends(len)
  \/ FragmentsAge

TunnelSpec == TunnelInit /\ [][TunnelNext]_tunnel_vars

(* Threads run, streams deliver, and what the other side has left is found *)
(* out in time.                                                            *)
Frames(dir, g) == {m \in streams : m.dir = dir /\ m.gen = g}
ReadUp(g) == Frames("up", g) # {} /\ g \in Held(server) /\ ServerReceives(g, FALSE)
             /\ ~(Frames("up", g) \subseteq streams')
ReadDown == Frames("down", client.conn.gen) # {} /\ ClientReceives
            /\ ~(Frames("down", client.conn.gen) \subseteq streams')
Stale(c) == c # None /\ c.gen # client.conn.gen

FairSpec ==
  /\ TunnelSpec
  /\ WF_tunnel_vars(Accept(client.conn.gen)) /\ WF_tunnel_vars(Resolve) /\ WF_tunnel_vars(ReadDown)
  /\ \A g \in 1..MaxGens : WF_tunnel_vars(ReadUp(g))
  /\ WF_tunnel_vars(ServerPolls) /\ WF_tunnel_vars(ClientPolls) /\ WF_tunnel_vars(FragmentsAge)
  /\ WF_tunnel_vars(Stale(server.active) /\ ActiveLost)
  /\ WF_tunnel_vars(Stale(server.candidate) /\ CandidateExpires)
  /\ WF_tunnel_vars(client.conn.gen \in accepted \ Held(server) /\ ClientLost)

-----------------------------------------------------------------------------
(* Whoever takes inner packets from a peer knows that it has the key, and  *)
(* the client only follows the server: it has authenticated a connection   *)
(* only after the server has.                                              *)
AuthAgreement ==
  /\ (server.active # None \/ client.conn.auth.authenticated) => key = ServerKey
  /\ server.active # None => server.active.auth.authenticated /\ server.active.gen \in proven
  /\ client.conn.auth.authenticated => client.conn.gen \in proven

(* The buffers stay within their limits and their count of bytes is exact: *)
(* a count too high would refuse packets there is room for.                *)
BudgetKept ==
  \A b \in {client.buf, server.buf} :
    b.bytes = Bytes(b) /\ b.bytes <= MaxBytes /\ Cardinality(DOMAIN b.entry) <= MaxEntries

(* Fragments whose rest was lost do not fill the buffers for ever. *)
FragmentsGo ==
  \A id \in 0..(IdWrap - 1) :
    /\ id \in DOMAIN client.buf.entry ~> id \notin DOMAIN client.buf.entry
    /\ id \in DOMAIN server.buf.entry ~> id \notin DOMAIN server.buf.entry

(* After finitely many faults the tunnel is up and stays up: neither a     *)
(* half-open connection, nor a candidate nobody will authenticate, nor an  *)
(* active connection the client has left keeps the two apart.              *)
Up == /\ client.conn.auth.authenticated /\ server.candidate = None
      /\ server.active # None /\ server.active.gen = client.conn.gen
TunnelComesUp == key = ServerKey => <>[]Up
=============================================================================
