----------------------------- MODULE FlowPlane -----------------------------
(***************************************************************************)
(* The Flow plane of one node: IO workers that classify packets and look   *)
(* up the shared reverse NAT directory, bounded channels, and Flow workers *)
(* that own sessions, NAT bindings and DNS transactions and publish them   *)
(* in the directory (handle_frame of io_worker.rs, handle_flow_message,    *)
(* drain_engine and the expiry passes of runtime.rs, FlowWorkerState).     *)
(*                                                                         *)
(* A worker's own state is private to its thread, so a handler is one step *)
(* up to its use of the directory; a handler that publishes, fails to send *)
(* and retires takes two.  An IO worker looks up the directory and         *)
(* enqueues under one read lock.  The QUIC engine appears as its           *)
(* authenticated flag and its Closed event, the network as the answers     *)
(* that are under way.                                                     *)
(***************************************************************************)
EXTENDS DnsTable, PortRanges, Sequences

CONSTANTS
  Role,              \* "client" or "server"
  WorkerCount,
  NatPorts,          \* the configured SNAT port range
  Flows, Queries,    \* flows that clients may open, DNS queries they may send
  FlowOwner, DnsOwner,   \* stable_flow_owner and stable_dns_owner
  Io, ReturnIos,     \* IO owners: of the local hosts, and of return packets
  ChannelCapacity,
  MaxTime, MaxSessions, MaxTokens, MaxCloses, MaxNet   \* bounds

Workers == 0..(WorkerCount - 1)

ASSUME FlowPlaneAssumption ==
  /\ Role \in {"client", "server"}
  /\ WorkerCount \in Nat \ {0}
  /\ FlowOwner \in [Flows -> Workers] /\ DnsOwner \in [Queries -> Workers]
  /\ {NatPorts.start, NatPorts.end, MaxSessions} \subseteq Nat /\ MaxSessions < DnsBit
  /\ \A w \in Workers : HasPortRange(NatPorts, w, WorkerCount)  \* else NatRangeTooSmall
  /\ \A flow \in Flows : flow.proto \in Protocols

VARIABLES
  workers,         \* per worker: [table, dns]
  quic_flow,       \* per worker: the id of its current QUIC flow
  authenticated,   \* per worker: engine.is_authenticated()
  retiring,        \* per worker: session between a failed send and its retirement
  inbox,           \* per worker: the bounded channel from the IO workers
  directory,       \* ReverseNatDirectory
  now,
  net,             \* answers under way: [key, for, at]
  misdelivered,    \* history: [for, to, late], where for # to
  answers,         \* history: answers sent, by <<worker, DNS token>>
  silenced         \* history: <<worker, DNS token>> dropped with their QUIC flow

vars == <<workers, quic_flow, authenticated, retiring, inbox, directory, now, net,
          misdelivered, answers, silenced>>
history == <<misdelivered, answers, silenced>>

Init ==
  /\ workers = [w \in Workers |->
                  [table |-> NewTable(PortsIn(WorkerPortRange(NatPorts, w, WorkerCount))),
                   dns   |-> NewDns]]
  /\ quic_flow = [w \in Workers |-> w + 1]
  /\ authenticated = [w \in Workers |-> FALSE]
  /\ retiring = [w \in Workers |-> NoSession]
  /\ inbox = [w \in Workers |-> <<>>]
  /\ directory = EmptyMap
  /\ now = 0 /\ net = {}
  /\ misdelivered = {} /\ answers = EmptyMap /\ silenced = {}

Locator(w, id) == [flow_worker_id |-> w, session_id |-> id]
TupleOf(w, id) == BindingKey(workers[w].table.nat.forward[id])
Idle(w) == retiring[w] = NoSession

(* ReverseNatDirectory::publish: refused when another locator holds the tuple. *)
CanPublish(key, locator) == key \in DOMAIN directory => directory[key] = locator

(* Variant: the directory entry stays. *)
RetiredForgotten(w, ids) == directory

(* ReverseNatDirectory::retire, for the bindings of some ids of worker w:  *)
(* an entry goes only if it is the id's own.                               *)
Retired(w, ids) ==
  LET gone == {k \in DOMAIN directory :
                 \E id \in ids : k = TupleOf(w, id) /\ directory[k] = Locator(w, id)}
  IN  Restrict(directory, DOMAIN directory \ gone)

(* History: the answer to one flow or query reached another one; it was    *)
(* late if that one took the tuple over a quarantine after it was sent.    *)
Misdelivery(for, to, late) ==
  IF for = to THEN {} ELSE {[for |-> for, to |-> to, late |-> late]}
(* History: the clients of these DNS tokens of w were sent an answer. *)
Answered(w, tokens) ==
  LET new == {w} \X tokens
  IN  [t \in DOMAIN answers \cup new |->
         (IF t \in DOMAIN answers THEN answers[t] ELSE 0) + (IF t \in new THEN 1 ELSE 0)]

-----------------------------------------------------------------------------
(* dispatch_to: try_send, the message is dropped when the channel is full. *)
Dispatch(w, message) ==
  inbox' = IF Len(inbox[w]) < ChannelCapacity
           THEN [inbox EXCEPT ![w] = Append(@, message)] ELSE inbox

(* handle_frame on a client, for a packet or a DNS query of a local host. *)
IoIntercept(flow, flag) ==
  /\ Role = "client"
  /\ Dispatch(FlowOwner[flow], [kind |-> "packet", flow |-> flow, flag |-> flag])
  /\ UNCHANGED <<workers, quic_flow, authenticated, retiring, directory, now, net, history>>

IoQuery(q) ==
  /\ Role = "client"
  /\ Dispatch(DnsOwner[q], [kind |-> "query", query |-> q])
  /\ UNCHANGED <<workers, quic_flow, authenticated, retiring, directory, now, net, history>>

(* A return packet comes by the IO worker, except the answers to a client  *)
(* that come through the tunnel.                                           *)
ComesByIo(p) == Role = "server" \/ p.key.raddr = LocalResolver

(* Answers on a tuple that a session can hold are in the network for less  *)
(* than the tuple's quarantine; those on other tuples, DNS answers, may    *)
(* take any time, as they are matched with their question.                 *)
InTime(p) ==
  (\E flow \in Flows : ReverseKey(flow, p.key.port) = p.key) =>
    now - p.at < ReuseQuarantine[p.key.proto]

(* handle_frame, for a return packet: it goes to the worker the directory  *)
(* names, together with the locator found; an unknown tuple is dropped.    *)
IoReturn(p, io, flag) ==
  /\ ComesByIo(p) /\ InTime(p)
  /\ p.key \in DOMAIN directory
  /\ Dispatch(directory[p.key].flow_worker_id,
              [kind |-> "return", packet |-> p, io |-> io, flag |-> flag,
               locator |-> directory[p.key]])
  /\ UNCHANGED <<workers, quic_flow, authenticated, retiring, directory, now, net, history>>

-----------------------------------------------------------------------------
(* Variant: the session's tuple is not published. *)
PublishSessionForgotten(w, r, key) ==
  workers' = [workers EXCEPT ![w].table = r.table] /\ UNCHANGED directory

(* publish_session: the session stays, or goes if its tuple is taken. *)
PublishSession(w, r, key) ==
  IF CanPublish(key, Locator(w, r.id))
  THEN /\ workers' = [workers EXCEPT ![w].table = r.table]
       /\ directory' = Put(directory, key, Locator(w, r.id))
  ELSE /\ workers' = [workers EXCEPT ![w].table = RemoveSessions(r.table, {r.id}, now)]
       /\ UNCHANGED directory

SessionFor(w, flow, flag) ==
  GetOrCreate(workers[w].table, w, flow, Io, quic_flow[w], flag, now)

(* handle_intercept / handle_server_inner with the publication that        *)
(* follows: r is the session a packet of flow belongs to.                  *)
OpenSession(w, flow, r) ==
  /\ HasSession(workers[w].table, flow, Io.ifindex)
       \/ workers[w].table.next_session_id <= MaxSessions
  /\ IF r.id = NoSession
     THEN workers' = [workers EXCEPT ![w].table = r.table] /\ UNCHANGED directory
     ELSE PublishSession(w, r, BindingKey(r.table.nat.forward[r.id]))

(* drain_engine on a server: a packet of the client comes out of the tunnel. *)
ServerInner(w, flow, flag) ==
  /\ Role = "server" /\ authenticated[w]
  /\ OpenSession(w, flow, SessionFor(w, flow, flag))
  /\ UNCHANGED <<quic_flow, authenticated, retiring, inbox, now, net, history>>

Heads(w, kind) == inbox[w] # <<>> /\ Head(inbox[w]).kind = kind
Take(w) == inbox' = [inbox EXCEPT ![w] = Tail(@)]

(* handle_flow_message on a client: a packet for the tunnel.  Without an   *)
(* authenticated connection it is dropped before it can open a session; a  *)
(* packet the engine refuses takes its session with it, new or not.        *)
ClientIntercept(w, dropped) ==
  /\ Idle(w) /\ Heads(w, "packet") /\ Take(w)
  /\ LET m == Head(inbox[w])
         r == SessionFor(w, m.flow, m.flag)
     IN  IF ~authenticated[w]
         THEN UNCHANGED <<workers, directory, retiring>>
         ELSE /\ OpenSession(w, m.flow, r)
              /\ retiring' = IF dropped /\ r.id \in DOMAIN workers'[w].table.sessions
                             THEN [retiring EXCEPT ![w] = r.id] ELSE retiring
  /\ UNCHANGED <<quic_flow, authenticated, now, net, history>>

(* retire_session. *)
RetireSession(w) ==
  /\ ~Idle(w)
  /\ retiring' = [retiring EXCEPT ![w] = NoSession]
  /\ directory' = Retired(w, {retiring[w]})
  /\ workers' = [workers EXCEPT ![w].table = RemoveSessions(@, {retiring[w]}, now)]
  /\ UNCHANGED <<quic_flow, authenticated, inbox, now, net, history>>

(* handle_flow_message on a client, for a DNS query that needs a new       *)
(* transaction; one whose tuple cannot be published is aborted.            *)
OpenTransaction(w, q) ==
  LET ws  == workers[w]
      new == Open(ws, w, q, now)
      key == KeyOfTransaction(new.dns.by_key[q])
  IN  /\ ws.dns.next_token <= MaxTokens
      /\ IF CanOpen(ws, q, now) /\ CanPublish(key, Locator(w, Token(ws)))
         THEN /\ workers' = [workers EXCEPT ![w] = new]
              /\ directory' = Put(directory, key, Locator(w, Token(ws)))
              /\ UNCHANGED answers
         ELSE /\ workers' = [workers EXCEPT ![w] =
                   IF CanOpen(ws, q, now) THEN RemoveTransactions(new, {q}, now)
                                          ELSE OpenFailed(ws, q, now)]
              /\ answers' = Answered(w, {Token(ws)})
              /\ UNCHANGED directory

(* handle_flow_message on a client, for a DNS query: a repeated query is   *)
(* sent again under its old transaction, whose entry of the directory is   *)
(* published once more and stays the same (BindingsReachable).             *)
ClientQuery(w) ==
  /\ Idle(w) /\ Heads(w, "query") /\ Take(w)
  /\ LET q == Head(inbox[w]).query
     IN  IF IsOpen(workers[w], q) \/ Refused(workers[w], q, authenticated[w])
         THEN UNCHANGED <<workers, directory, answers>>
         ELSE OpenTransaction(w, q)
  /\ UNCHANGED <<quic_flow, authenticated, retiring, now, net, misdelivered, silenced>>

(* response_matches_query compares the DNS id and the question, not the    *)
(* client.  What a flow of a client's own gets back may look like any      *)
(* answer.                                                                 *)
ResponseMatches(p, q) == p.for \in Queries => p.for.ask = q.ask

(* History: transaction tr was given the answer p. *)
GivenTo(p, tr) ==
  Misdelivery(p.for, tr.query,
              tr.expires_at - DnsTimeout >= p.at + ReuseQuarantine[p.key.proto])

(* Variant: any answer on the right tuple ends the transaction. *)
DnsResponseUnmatched(w, p) ==
  LET q     == workers[w].dns.by_reverse[p.key]
      token == workers[w].dns.by_key[q].token
  IN  /\ workers' = [workers EXCEPT ![w] = RemoveTransactions(@, {q}, now)]
      /\ directory' = Retired(w, {token})
      /\ answers' = Answered(w, {token})
      /\ misdelivered' = misdelivered \cup GivenTo(p, workers[w].dns.by_key[q])

(* Variant: the transaction stays open after its answer. *)
DnsResponseKeepsTransaction(w, p) ==
  LET q     == workers[w].dns.by_reverse[p.key]
      token == workers[w].dns.by_key[q].token
  IN  /\ ResponseMatches(p, q)
      /\ answers' = Answered(w, {token})
      /\ UNCHANGED <<workers, directory, misdelivered>>

(* handle_dns_response: an answer to another question is dropped and the   *)
(* transaction stays.                                                      *)
DnsResponse(w, p) ==
  LET q     == workers[w].dns.by_reverse[p.key]
      token == workers[w].dns.by_key[q].token
  IN  IF ResponseMatches(p, q)
      THEN /\ workers' = [workers EXCEPT ![w] = RemoveTransactions(@, {q}, now)]
           /\ directory' = Retired(w, {token})
           /\ answers' = Answered(w, {token})
           /\ misdelivered' = misdelivered \cup GivenTo(p, workers[w].dns.by_key[q])
      ELSE UNCHANGED <<workers, directory, answers, misdelivered>>

(* handle_reverse_for_inner, delivery to a session: a server first adjusts *)
(* the session's queue to the one observed, or drops the packet.           *)
Deliver(w, id, p, observed, flag) ==
  LET t == workers[w].table
      corrected == IF observed = {} THEN t
                   ELSE CorrectInterceptIo(t, id, CHOOSE io \in observed : TRUE)
  IN  IF \A io \in observed : InterceptIoAccepts(t, id, io)
      THEN /\ workers' = [workers EXCEPT ![w].table = TouchTcp(corrected, id, flag, TRUE, now)]
           /\ misdelivered' = misdelivered \cup Misdelivery(p.for, t.sessions[id].original, FALSE)
      ELSE UNCHANGED <<workers, misdelivered>>

(* Variant: the tuple alone decides which session gets the packet. *)
ReverseForAnyHolder(w, p, expected, observed, flag) ==
  /\ \E locator \in ReverseLocator(workers[w].table, w, p.key) :
       Deliver(w, locator.session_id, p, observed, flag)
  /\ UNCHANGED <<directory, answers>>

(* handle_reverse_for_inner: the packet is for the session it was looked   *)
(* up for, or for none.                                                    *)
ReverseFor(w, p, expected, observed, flag) ==
  /\ IF expected \in ReverseLocator(workers[w].table, w, p.key)
     THEN Deliver(w, expected.session_id, p, observed, flag)
     ELSE UNCHANGED <<workers, misdelivered>>
  /\ UNCHANGED <<directory, answers>>

(* handle_flow_message: a packet an IO worker found in the directory.  On  *)
(* a client this is a packet of the local resolver.                        *)
Return(w) ==
  /\ Idle(w) /\ Heads(w, "return") /\ Take(w)
  /\ LET m == Head(inbox[w])
     IN  IF Role = "client" /\ DnsReverseMatches(workers[w], w, m.packet.key, m.locator)
         THEN DnsResponse(w, m.packet)
         ELSE ReverseFor(w, m.packet, m.locator,
                         IF Role = "server" THEN {m.io} ELSE {}, m.flag)
  /\ UNCHANGED <<quic_flow, authenticated, retiring, now, net, silenced>>

(* drain_engine on a client: a packet comes out of the tunnel of the lane  *)
(* whose ports it is addressed to.                                         *)
ClientInner(w, p, flag) ==
  /\ ~ComesByIo(p) /\ InTime(p)
  /\ Idle(w) /\ authenticated[w]
  /\ p.key.port \in PortsIn(WorkerPortRange(NatPorts, w, WorkerCount))
  /\ HasReverse(workers[w].table.nat, p.key)
  /\ IF p.key \in DOMAIN workers[w].dns.by_reverse
     THEN DnsResponse(w, p)
     ELSE ReverseFor(w, p, workers[w].table.nat.reverse[p.key], {}, flag)
  /\ UNCHANGED <<quic_flow, authenticated, retiring, inbox, now, net, silenced>>

-----------------------------------------------------------------------------
(* expire_idle_sessions. *)
ExpireIdle(w) ==
  LET ids == Lapsed(workers[w].table, now)
  IN  /\ Idle(w) /\ ids # {}
      /\ workers' = [workers EXCEPT ![w].table = RemoveSessions(@, ids, now)]
      /\ directory' = Retired(w, ids)
      /\ UNCHANGED <<quic_flow, authenticated, retiring, inbox, now, net, history>>

(* expire_dns_transactions: every expired query is answered SERVFAIL. *)
ExpireDns(w) ==
  LET qs     == LapsedQueries(workers[w], now)
      tokens == {workers[w].dns.by_key[q].token : q \in qs}
  IN  /\ Idle(w) /\ qs # {}
      /\ workers' = [workers EXCEPT ![w] = RemoveTransactions(@, qs, now)]
      /\ directory' = Retired(w, tokens)
      /\ answers' = Answered(w, tokens)
      /\ UNCHANGED <<quic_flow, authenticated, retiring, inbox, now, net, misdelivered, silenced>>

(* The engine reports that the lane's connection authenticated. *)
Authenticated(w) ==
  /\ Idle(w) /\ ~authenticated[w]
  /\ authenticated' = [authenticated EXCEPT ![w] = TRUE]
  /\ UNCHANGED <<workers, quic_flow, retiring, inbox, directory, now, net, history>>

(* drain_engine, Closed: the lane's sessions move to a new QUIC flow; its  *)
(* remote DNS transactions are dropped, their clients get no answer and    *)
(* their directory entries stay.                                           *)
Closed(w) ==
  LET next == quic_flow[w] + WorkerCount
      qs   == RemoteQueries(workers[w])
      kept == RemoveTransactions(workers[w], qs, now)
  IN  /\ Idle(w) /\ next <= (MaxCloses + 1) * WorkerCount
      /\ authenticated' = [authenticated EXCEPT ![w] = FALSE]
      /\ quic_flow' = [quic_flow EXCEPT ![w] = next]
      /\ workers' = [workers EXCEPT
                       ![w] = [kept EXCEPT !.table = RebindQuicFlow(@, quic_flow[w], next)]]
      /\ silenced' = silenced \cup {<<w, workers[w].dns.by_key[q].token>> : q \in qs}
      /\ UNCHANGED <<retiring, inbox, directory, now, net, misdelivered, answers>>

(* The network: the remote end answers a flow or query that is bound at    *)
(* the time, and the answer arrives once, repeatedly or never.             *)
MeantFor(ws, id) ==
  IF id \in DOMAIN ws.table.sessions THEN ws.table.sessions[id].original
  ELSE CHOOSE q \in DOMAIN ws.dns.by_key : ws.dns.by_key[q].token = id

RemoteReply(w, id) ==
  /\ Cardinality(net) < MaxNet
  /\ net' = net \cup {[key |-> TupleOf(w, id), for |-> MeantFor(workers[w], id), at |-> now]}
  /\ UNCHANGED <<workers, quic_flow, authenticated, retiring, inbox, directory, now, history>>

Lose(p) ==
  /\ net' = net \ {p}
  /\ UNCHANGED <<workers, quic_flow, authenticated, retiring, inbox, directory, now, history>>

Tick ==
  /\ now < MaxTime /\ now' = now + 1
  /\ UNCHANGED <<workers, quic_flow, authenticated, retiring, inbox, directory, net, history>>

IoStep ==
  \/ \E flow \in Flows : \E flag \in FlagsOf(flow.proto) : IoIntercept(flow, flag)
  \/ \E q \in Queries : IoQuery(q)
  \/ \E p \in net, io \in ReturnIos : \E flag \in FlagsOf(p.key.proto) : IoReturn(p, io, flag)

FlowStep(w) ==
  \/ \E flow \in {f \in Flows : FlowOwner[f] = w} : \E flag \in FlagsOf(flow.proto) :
       ServerInner(w, flow, flag)
  \/ \E dropped \in BOOLEAN : ClientIntercept(w, dropped)
  \/ RetireSession(w)
  \/ ClientQuery(w)
  \/ Return(w)
  \/ \E p \in net : \E flag \in FlagsOf(p.key.proto) : ClientInner(w, p, flag)
  \/ ExpireIdle(w)
  \/ ExpireDns(w)
  \/ Authenticated(w)
  \/ Closed(w)

NetStep ==
  \/ \E w \in Workers : \E id \in DOMAIN workers[w].table.nat.forward : RemoteReply(w, id)
  \/ \E p \in net : Lose(p)

Next == IoStep \/ (\E w \in Workers : FlowStep(w)) \/ NetStep \/ Tick

Spec == Init /\ [][Next]_vars

(* The flow loop makes an expiry pass at least every 2 ms and goes on to   *)
(* the end of a handler it began; the clock advances by itself.            *)
FairSpec ==
  /\ Spec /\ WF_vars(Tick)
  /\ \A w \in Workers : WF_vars(ExpireDns(w)) /\ WF_vars(RetireSession(w))

-----------------------------------------------------------------------------
(* Every worker's tables agree with each other: sessions, NAT bindings,    *)
(* DNS transactions and all their indexes.                                 *)
WorkersConsistent ==
  \A w \in Workers :
    /\ TableConsistent(workers[w].table, PortsIn(WorkerPortRange(NatPorts, w, WorkerCount)))
    /\ DnsConsistent(workers[w])

(* An answer is handed to the flow or query it answers, however long the   *)
(* packet waited in the channel and whoever took the tuple over meanwhile: *)
(* the quarantine covers the network's delay, the locator the channel's.   *)
(* Only a DNS answer that the quarantine did not outlast can reach another *)
(* query, one that took the tuple over after the quarantine, and then one  *)
(* with the same DNS id and question.                                      *)
NoMisdelivery ==
  \A m \in misdelivered :
    m.late /\ {m.for, m.to} \subseteq Queries /\ m.for.ask = m.to.ask

(* Whatever a worker has bound can be found: each session and each DNS     *)
(* transaction is in the directory, under its own locator.                 *)
BindingsReachable ==
  \A w \in Workers : \A id \in DOMAIN workers[w].table.nat.forward :
    /\ TupleOf(w, id) \in DOMAIN directory
    /\ directory[TupleOf(w, id)] = Locator(w, id)

(* What the directory names is alive, except for remote DNS transactions   *)
(* that ended with their QUIC flow: nothing else is left behind.           *)
DirectoryLive ==
  \A k \in DOMAIN directory :
    LET w  == directory[k].flow_worker_id
        id == directory[k].session_id
    IN  \/ id \in DOMAIN workers[w].table.nat.forward /\ TupleOf(w, id) = k
        \/ <<w, id>> \in silenced

(* Each DNS query that was given a token is answered exactly once when its *)
(* transaction ends, except if the QUIC flow closed.                       *)
AnsweredOnce ==
  \A w \in Workers : \A n \in 1..(workers[w].dns.next_token - 1) :
    LET t     == <<w, DnsBit + n>>
        open  == \E q \in DOMAIN workers[w].dns.by_key :
                   workers[w].dns.by_key[q].token = DnsBit + n
    IN  IF open \/ t \in silenced
        THEN t \notin DOMAIN answers
        ELSE t \in DOMAIN answers /\ answers[t] = 1

(* After any number of reconnections every session of a lane belongs to    *)
(* the lane's current QUIC flow.                                           *)
SessionsRebound ==
  \A w \in Workers : \A id \in DOMAIN workers[w].table.sessions :
    workers[w].table.sessions[id].quic_flow_id = quic_flow[w]

(* Every DNS transaction ends, even if its client keeps repeating it. *)
OpenToken(w, n) ==
  \E q \in DOMAIN workers[w].dns.by_key :
    /\ workers[w].dns.by_key[q].token = DnsBit + n
    /\ workers[w].dns.by_key[q].expires_at <= MaxTime
TransactionsEnd ==
  \A w \in Workers : \A n \in 1..MaxTokens : OpenToken(w, n) ~> ~OpenToken(w, n)
=============================================================================
