------------------------- MODULE FlowWorkerProofs ---------------------------
(***************************************************************************)
(* What one operation of a Flow worker, and one step of it, do to its      *)
(* sessions, its NAT bindings, its DNS transactions and their indexes, for *)
(* any share of the ports.  FlowPlaneProofs reasons with these effects and *)
(* not with the operations.                                                *)
(***************************************************************************)
EXTENDS FlowPlane, SessionTableProofs

Share(w) == PortsIn(WorkerPortRange(NatPorts, w, WorkerCount))
Tokens(ws) == {ws.dns.by_key[q].token : q \in DOMAIN ws.dns.by_key}

IsWorker(ws) ==
  /\ DOMAIN ws = {"table", "dns"}
  /\ DOMAIN ws.dns = {"next_token", "by_key", "by_reverse", "deadlines"}

TokensOf(ws, qs) == {ws.dns.by_key[q].token : q \in qs}

(* The tables of a worker, with the identifiers it has given out. *)
WsInv(w, ws) ==
  /\ IsWorker(ws) /\ TableInv(ws.table, Share(w)) /\ DnsConsistent(ws)
  /\ DOMAIN ws.table.sessions \cap Tokens(ws) = {}

CountInv(ws) ==
  /\ ws.table.next_session_id \in 1..(MaxSessions + 1) /\ ws.dns.next_token \in Nat \ {0}
  /\ DOMAIN ws.table.sessions \subseteq 1..(ws.table.next_session_id - 1)
  /\ Tokens(ws) \subseteq (DnsBit + 1)..(DnsBit + ws.dns.next_token - 1)

WorkersInv ==
  /\ DOMAIN workers = Workers /\ DOMAIN quic_flow = Workers
  /\ DOMAIN retiring = Workers /\ DOMAIN inbox = Workers
  /\ \A w \in Workers :
       /\ WsInv(w, workers[w]) /\ CountInv(workers[w])
       /\ Idle(w) \/ retiring[w] \in DOMAIN workers[w].table.sessions

(* The messages in a channel. *)
Msgs(s) == {s[i] : i \in DOMAIN s}
IsSeq(s) == s \in Seq(Msgs(s))

(* The sessions are of flows of clients, and on the lane's QUIC flow. *)
SessionsInv ==
  /\ \A w \in Workers : \A id \in DOMAIN workers[w].table.sessions :
       /\ workers[w].table.sessions[id].original \in Flows
       /\ workers[w].table.sessions[id].quic_flow_id = quic_flow[w]
  /\ \A w \in Workers : IsSeq(inbox[w])
  /\ \A w \in Workers : \A m \in Msgs(inbox[w]) : m.kind = "packet" => m.flow \in Flows

DirInv ==
  /\ \A k \in DOMAIN directory :
       /\ directory[k].flow_worker_id \in Workers
       /\ directory[k] = Locator(directory[k].flow_worker_id, directory[k].session_id)
  /\ BindingsReachable /\ DirectoryLive

AnswerInv ==
  /\ AnsweredOnce
  /\ \A w \in Workers : \A token \in Tokens(workers[w]) : <<w, token>> \notin silenced
  /\ \A t \in DOMAIN answers \cup silenced :
       \E w \in Workers : \E n \in 1..(workers[w].dns.next_token - 1) : t = <<w, DnsBit + n>>

-----------------------------------------------------------------------------
(* What the operations of a table do: the bindings in gone are released,   *)
(* those in new are made, the others stay, and so do their sessions.       *)

Quarantines(nat, nat2, gone, time) ==
  /\ \A k \in DOMAIN nat.quarantined \ DOMAIN nat.reverse : nat.quarantined[k] > time =>
       k \in DOMAIN nat2.quarantined /\ nat2.quarantined[k] = nat.quarantined[k]
  /\ \A id \in gone :
       /\ BindingKey(nat.forward[id]) \in DOMAIN nat2.quarantined
       /\ nat2.quarantined[BindingKey(nat.forward[id])] =
            time + ReuseQuarantine[BindingKey(nat.forward[id]).proto]

Rebinds(nat, nat2, gone, new) ==
  /\ gone \subseteq DOMAIN nat.forward /\ new \cap DOMAIN nat.forward = {}
  /\ DOMAIN nat2.forward = (DOMAIN nat.forward \ gone) \cup new
  /\ \A id \in DOMAIN nat.forward \ gone : nat2.forward[id] = nat.forward[id]

Resumes(t, t2, gone, new) ==
  /\ \A id \in DOMAIN t.sessions \ gone :
       id \in DOMAIN t2.sessions /\ t2.sessions[id].original = t.sessions[id].original
  /\ \A id \in DOMAIN t2.sessions :
       \/ id \in DOMAIN t.sessions \ gone
       \/ id \in new /\ id = t.next_session_id /\ t2.next_session_id = id + 1
  /\ t2.next_session_id \in {t.next_session_id, t.next_session_id + 1}

TableEffect(t, t2, gone, new, time) ==
  /\ Rebinds(t.nat, t2.nat, gone, new) /\ Quarantines(t.nat, t2.nat, gone, time)
  /\ Resumes(t, t2, gone, new)

(* The sessions of a table stay on their QUIC flow, and new ones are on f. *)
OnFlow(t, t2, f) ==
  \A id \in DOMAIN t2.sessions :
    IF id \in DOMAIN t.sessions
    THEN t2.sessions[id].quic_flow_id = t.sessions[id].quic_flow_id
    ELSE t2.sessions[id].quic_flow_id = f

LEMMA NatStays ==
  ASSUME NEW nat, NEW time
  PROVE  Rebinds(nat, nat, {}, {}) /\ Quarantines(nat, nat, {}, time)
BY Zenon DEF Rebinds, Quarantines

LEMMA FailedEffect ==
  ASSUME NEW nat, NEW id, NEW flow, NEW time, NEW nat2, IsNat(nat),
         nat2 = AllocateFailed(nat, id, flow, time)
  PROVE  /\ Rebinds(nat, nat2, {}, {}) /\ Quarantines(nat, nat2, {}, time)
         /\ nat2.forward = nat.forward
<1> DEFINE pur == Purged(nat, time)
<1>1. nat2 = nat \/ nat2 = [nat EXCEPT !.quarantined = pur] BY Zenon DEF AllocateFailed
<1>2. /\ DOMAIN pur = {k \in DOMAIN nat.quarantined : nat.quarantined[k] > time}
      /\ \A k \in DOMAIN pur : pur[k] = nat.quarantined[k]
  BY Zenon DEF Purged, Restrict
<1> HIDE DEF pur
<1>3. nat2.forward = nat.forward /\ nat2.quarantined \in {nat.quarantined, pur}
  BY <1>1, Zenon DEF IsNat
<1> QED BY <1>2, <1>3, Zenon DEF Rebinds, Quarantines

LEMMA AllocateEffect ==
  ASSUME NEW nat, NEW id, NEW flow, NEW locator, NEW time, NEW nat2,
         CanAllocate(nat, id, flow, time), nat2 = Allocate(nat, id, flow, locator, time)
  PROVE  Rebinds(nat, nat2, {}, {id}) /\ Quarantines(nat, nat2, {}, time)
<1> DEFINE pur  == Purged(nat, time)
           port == Lowest(UsablePorts(nat, flow, time))
           b    == [original |-> flow, port |-> port]
<1>1. nat2.forward = Put(nat.forward, id, b) /\ nat2.quarantined = pur BY Zenon DEF Allocate
<1>2. /\ DOMAIN pur = {k \in DOMAIN nat.quarantined : nat.quarantined[k] > time}
      /\ \A k \in DOMAIN pur : pur[k] = nat.quarantined[k]
  BY Zenon DEF Purged, Restrict
<1>3. id \notin DOMAIN nat.forward BY Zenon DEF CanAllocate, MayAllocate
<1> HIDE DEF pur, b
<1>4. DOMAIN nat2.forward = DOMAIN nat.forward \cup {id}
      /\ \A i \in DOMAIN nat.forward : nat2.forward[i] = nat.forward[i]
  BY <1>1, <1>3, Zenon DEF Put
<1> QED BY <1>1, <1>2, <1>3, <1>4, Zenon DEF Rebinds, Quarantines

LEMMA RemoveEffect ==
  ASSUME NEW nat, NEW ids, NEW time, NEW nat2, ids \subseteq DOMAIN nat.forward,
         ReverseMatchesForward(nat), nat2 = RemoveAll(nat, ids, time)
  PROVE  Rebinds(nat, nat2, ids, {}) /\ Quarantines(nat, nat2, ids, time)
<1> DEFINE keys == {BindingKey(nat.forward[i]) : i \in ids}
           q    == [k \in DOMAIN nat.quarantined \cup keys |->
                      IF k \in keys THEN time + ReuseQuarantine[k.proto]
                                    ELSE nat.quarantined[k]]
<1>1. nat2.forward = Restrict(nat.forward, DOMAIN nat.forward \ ids) /\ nat2.quarantined = q
  BY Zenon DEF RemoveAll
<1>2. keys \subseteq DOMAIN nat.reverse BY Zenon DEF ReverseMatchesForward
<1>3. /\ DOMAIN q = DOMAIN nat.quarantined \cup keys
      /\ \A k \in keys : q[k] = time + ReuseQuarantine[k.proto]
      /\ \A k \in DOMAIN nat.quarantined \ keys : q[k] = nat.quarantined[k]
  BY Zenon
<1>4. \A i \in ids : BindingKey(nat.forward[i]) \in keys BY Zenon
<1> HIDE DEF q, keys
<1>5. DOMAIN nat2.forward = DOMAIN nat.forward \ ids
      /\ \A i \in DOMAIN nat.forward \ ids : nat2.forward[i] = nat.forward[i]
  BY <1>1, Zenon DEF Restrict
<1>6. Rebinds(nat, nat2, ids, {}) BY <1>5, Zenon DEF Rebinds
<1>7. Quarantines(nat, nat2, ids, time) BY <1>1, <1>2, <1>3, <1>4, Zenon DEF Quarantines
<1> QED BY <1>6, <1>7, Zenon

(* A table in which sessions keep their flows and nothing is bound or      *)
(* released.                                                               *)
LEMMA SessionsStay ==
  ASSUME NEW t, NEW t2, NEW time, t2.nat = t.nat, DOMAIN t2.sessions = DOMAIN t.sessions,
         t2.next_session_id = t.next_session_id,
         \A id \in DOMAIN t.sessions : t2.sessions[id].original = t.sessions[id].original
  PROVE  TableEffect(t, t2, {}, {}, time)
BY NatStays, Zenon DEF TableEffect, Resumes

Touches(t, t2, ports, time) ==
  /\ TableInv(t2, ports) /\ TableEffect(t, t2, {}, {}, time) /\ \A f : OnFlow(t, t2, f)
  /\ DOMAIN t2.sessions = DOMAIN t.sessions /\ t2.nat = t.nat
  /\ t2.next_session_id = t.next_session_id
  /\ \A i \in DOMAIN t.sessions : t2.sessions[i].original = t.sessions[i].original

LEMMA TouchEffect ==
  ASSUME NEW t, NEW ports, NEW id, NEW flag, NEW reverse, NEW time, NEW t2,
         TableInv(t, ports), id \in DOMAIN t.sessions,
         t2 = TouchTcp(t, id, flag, reverse, time)
  PROVE  Touches(t, t2, ports, time)
<1> DEFINE s     == t.sessions[id]
           state == TcpStateAfter(s.tcp_state, flag, reverse)
           at    == time + TouchTimeout(s.original.proto, flag, state)
           s2    == [s EXCEPT !.tcp_state = state, !.expires_at = at]
           dl    == (t.deadlines \ {<<s.expires_at, id>>}) \cup {<<at, id>>}
<1>1. t2 = [t EXCEPT !.sessions = [t.sessions EXCEPT ![id] = s2], !.deadlines = dl]
  BY Zenon DEF TouchTcp
<1> HIDE DEF state, at
<1>2. s2.original = s.original /\ s2.quic_flow_id = s.quic_flow_id
  BY Zenon DEF TableInv, IsTable, IsSession
<1> HIDE DEF s2, dl
<1>3. /\ t2.sessions = [t.sessions EXCEPT ![id] = s2] /\ t2.nat = t.nat
      /\ t2.next_session_id = t.next_session_id
  BY <1>1, Zenon DEF TableInv, IsTable
<1>4. /\ DOMAIN t2.sessions = DOMAIN t.sessions
      /\ \A i \in DOMAIN t.sessions : /\ t2.sessions[i].original = t.sessions[i].original
                                      /\ t2.sessions[i].quic_flow_id = t.sessions[i].quic_flow_id
  BY <1>2, <1>3, Zenon
<1>5. TableInv(t2, ports) BY TouchTcpInv, Zenon
<1> QED BY <1>3, <1>4, <1>5, SessionsStay, Zenon DEF OnFlow, Touches

Corrects(t, t2, ports) ==
  /\ TableInv(t2, ports) /\ \A f : OnFlow(t, t2, f)
  /\ DOMAIN t2.sessions = DOMAIN t.sessions /\ t2.nat = t.nat
  /\ t2.next_session_id = t.next_session_id
  /\ \A i \in DOMAIN t.sessions : t2.sessions[i].original = t.sessions[i].original

LEMMA CorrectEffect ==
  ASSUME NEW t, NEW ports, NEW id, NEW io, NEW time, NEW t2,
         TableInv(t, ports), id \in DOMAIN t.sessions, t2 = CorrectInterceptIo(t, id, io)
  PROVE  Corrects(t, t2, ports)
<1> DEFINE s2 == [t.sessions[id] EXCEPT !.intercept_io = io]
           u  == [t EXCEPT !.sessions = [t.sessions EXCEPT ![id] = s2]]
<1>1. t2 \in {t, u} BY Zenon DEF CorrectInterceptIo
<1>2. s2.original = t.sessions[id].original /\ s2.quic_flow_id = t.sessions[id].quic_flow_id
  BY Zenon DEF TableInv, IsTable, IsSession
<1> HIDE DEF s2
<1>3. /\ u.sessions = [t.sessions EXCEPT ![id] = s2] /\ u.nat = t.nat
      /\ u.next_session_id = t.next_session_id
  BY Zenon DEF TableInv, IsTable
<1> HIDE DEF u
<1>4. TableInv(t2, ports) BY CorrectInterceptIoInv, Zenon
<1> QED BY <1>1, <1>2, <1>3, <1>4, Zenon DEF OnFlow, Corrects

MovesFlow(t, t2, ports, old, new, time) ==
  /\ TableInv(t2, ports) /\ TableEffect(t, t2, {}, {}, time)
  /\ DOMAIN t2.sessions = DOMAIN t.sessions /\ t2.nat = t.nat
  /\ t2.next_session_id = t.next_session_id
  /\ \A i \in DOMAIN t.sessions :
       t.sessions[i].quic_flow_id = old => t2.sessions[i].quic_flow_id = new

LEMMA RebindEffect ==
  ASSUME NEW t, NEW ports, NEW old, NEW new, NEW time, NEW t2,
         TableInv(t, ports), t2 = RebindQuicFlow(t, old, new)
  PROVE  MovesFlow(t, t2, ports, old, new, time)
<1> DEFINE s2(i) == IF t.sessions[i].quic_flow_id = old
                    THEN [t.sessions[i] EXCEPT !.quic_flow_id = new] ELSE t.sessions[i]
           ss    == [i \in DOMAIN t.sessions |-> s2(i)]
<1>1. t2 = [t EXCEPT !.sessions = ss] BY Zenon DEF RebindQuicFlow
<1>2. \A i \in DOMAIN t.sessions :
        /\ s2(i).original = t.sessions[i].original
        /\ t.sessions[i].quic_flow_id = old => s2(i).quic_flow_id = new
  BY Zenon DEF TableInv, IsTable, IsSession
<1> HIDE DEF s2
<1>3. DOMAIN ss = DOMAIN t.sessions /\ \A i \in DOMAIN t.sessions : ss[i] = s2(i) BY Zenon
<1> HIDE DEF ss
<1>4. t2.sessions = ss /\ t2.nat = t.nat /\ t2.next_session_id = t.next_session_id
  BY <1>1, Zenon DEF TableInv, IsTable
<1>5. TableInv(t2, ports) BY RebindQuicFlowInv, Zenon
<1> QED BY <1>2, <1>3, <1>4, <1>5, SessionsStay, Zenon DEF MovesFlow

LEMMA NatEffect ==
  ASSUME NEW t, NEW gone, NEW new, NEW time, NEW t2,
         t2.sessions = t.sessions, t2.next_session_id = t.next_session_id,
         gone \cap DOMAIN t.sessions = {},
         Rebinds(t.nat, t2.nat, gone, new), Quarantines(t.nat, t2.nat, gone, time)
  PROVE  TableEffect(t, t2, gone, new, time) /\ \A f : OnFlow(t, t2, f)
BY Zenon DEF TableEffect, Resumes, OnFlow

FailedTable(t, id, flow, time) == [t EXCEPT !.nat = AllocateFailed(t.nat, id, flow, time)]

Fails(t, t2, ports, time) ==
  /\ TableInv(t2, ports) /\ TableEffect(t, t2, {}, {}, time)
  /\ t2.sessions = t.sessions /\ t2.next_session_id = t.next_session_id
  /\ t2.nat.forward = t.nat.forward

LEMMA AllocateFailedEffect ==
  ASSUME NEW t, NEW ports, ports \subseteq Nat, NEW id, NEW flow, NEW time, NEW t2,
         TableInv(t, ports), t2 = FailedTable(t, id, flow, time)
  PROVE  Fails(t, t2, ports, time)
<1> DEFINE nat2 == AllocateFailed(t.nat, id, flow, time)
<1>1. IsTable(t) /\ IsNat(t.nat) BY Zenon DEF TableInv, IsTable
<1>2. /\ Rebinds(t.nat, nat2, {}, {}) /\ Quarantines(t.nat, nat2, {}, time)
      /\ nat2.forward = t.nat.forward
  BY <1>1, FailedEffect
<1>3. TableInv(t2, ports) BY EphemeralInv, Zenon DEF FailedTable
<1> HIDE DEF nat2
<1>4. t2 = [t EXCEPT !.nat = nat2] BY Zenon DEF nat2, FailedTable
<1>5. t2.sessions = t.sessions /\ t2.nat = nat2 /\ t2.next_session_id = t.next_session_id
  BY <1>1, <1>4, Zenon DEF IsTable
<1>6. TableEffect(t, t2, {}, {}, time)
  BY <1>2, <1>5, Zenon DEF TableEffect, Resumes
<1> QED BY <1>2, <1>3, <1>5, <1>6, Zenon DEF Fails

Creates(t, t2, ports, flow, f, time) ==
  /\ TableInv(t2, ports) /\ TableEffect(t, t2, {}, {t.next_session_id}, time) /\ OnFlow(t, t2, f)
  /\ DOMAIN t2.sessions = DOMAIN t.sessions \cup {t.next_session_id}
  /\ t2.next_session_id = t.next_session_id + 1
  /\ t2.sessions[t.next_session_id].original = flow
  /\ \A i \in DOMAIN t.sessions : t2.sessions[i] = t.sessions[i]

LEMMA CreateEffect ==
  ASSUME NEW t, NEW ports, ports \subseteq Nat, NEW w, NEW flow, NEW io, NEW f, NEW flag, NEW time,
         NEW t2, TableInv(t, ports), ~HasSession(t, flow, io.ifindex),
         CanCreate(t, flow, time), t2 = Create(t, w, flow, io, f, flag, time),
         t.next_session_id \notin DOMAIN t.sessions
  PROVE  Creates(t, t2, ports, flow, f, time)
<1> DEFINE id == t.next_session_id
<1> DEFINE loc  == [flow_worker_id |-> w, session_id |-> id]
           nat2 == Allocate(t.nat, id, flow, loc, time)
           s    == [original |-> flow, port |-> nat2.forward[id].port,
                    intercept_io |-> io, quic_flow_id |-> f,
                    expires_at |-> time + CreateTimeout(flow.proto, flag),
                    tcp_state |-> IF flow.proto = "tcp" THEN "Established" ELSE NotTcp]
<1>1. t2.nat = nat2 /\ t2.sessions = Put(t.sessions, id, s) /\ t2.next_session_id = id + 1
  BY Zenon DEF Create
<1>2. CanAllocate(t.nat, id, flow, time) BY Zenon DEF CanCreate
<1>3. Rebinds(t.nat, nat2, {}, {id}) /\ Quarantines(t.nat, nat2, {}, time)
  BY <1>2, AllocateEffect, Zenon
<1>4. TableInv(t2, ports) BY CreateInv, Zenon
<1>5. s.original = flow /\ s.quic_flow_id = f BY Zenon
<1> HIDE DEF s, nat2
<1>6. /\ DOMAIN t2.sessions = DOMAIN t.sessions \cup {id} /\ t2.sessions[id] = s
      /\ \A i \in DOMAIN t.sessions : t2.sessions[i] = t.sessions[i]
  BY <1>1, Zenon DEF Put
<1> QED BY <1>1, <1>3, <1>4, <1>5, <1>6, Zenon DEF TableEffect, Resumes, OnFlow, Creates

Removes(t, t2, ports, ids, time) ==
  /\ TableInv(t2, ports) /\ TableEffect(t, t2, ids, {}, time) /\ \A f : OnFlow(t, t2, f)
  /\ DOMAIN t2.sessions = DOMAIN t.sessions \ ids
  /\ t2.next_session_id = t.next_session_id
  /\ \A i \in DOMAIN t2.sessions : t2.sessions[i] = t.sessions[i]

LEMMA RemoveSessionsEffect ==
  ASSUME NEW t, NEW ports, NEW ids, NEW time, NEW t2, TableInv(t, ports),
         ids \subseteq DOMAIN t.sessions, t2 = RemoveSessions(t, ids, time)
  PROVE  Removes(t, t2, ports, ids, time)
<1> DEFINE nat2 == RemoveAll(t.nat, ids, time)
<1>1. /\ t2.nat = nat2 /\ t2.sessions = Restrict(t.sessions, DOMAIN t.sessions \ ids)
      /\ t2.next_session_id = t.next_session_id
  BY Zenon DEF RemoveSessions, TableInv, IsTable
<1>2. ids \subseteq DOMAIN t.nat.forward /\ ReverseMatchesForward(t.nat)
  BY Zenon DEF TableInv, TableConsistent, SessionsBound, NatConsistent
<1>3. Rebinds(t.nat, nat2, ids, {}) /\ Quarantines(t.nat, nat2, ids, time)
  BY <1>2, RemoveEffect, Zenon
<1>4. TableInv(t2, ports) BY RemoveSessionsInv, Zenon
<1> HIDE DEF nat2
<1>5. /\ DOMAIN t2.sessions = DOMAIN t.sessions \ ids
      /\ \A i \in DOMAIN t2.sessions : t2.sessions[i] = t.sessions[i]
  BY <1>1, Zenon DEF Restrict
<1> QED BY <1>1, <1>3, <1>4, <1>5, Zenon DEF TableEffect, Resumes, OnFlow, Removes

(* A binding without a session. *)
Allocates(t, t2, ports, token, flow, time) ==
  /\ TableInv(t2, ports) /\ TableEffect(t, t2, {}, {token}, time) /\ \A f : OnFlow(t, t2, f)
  /\ t2.sessions = t.sessions /\ t2.next_session_id = t.next_session_id
  /\ t2.nat.forward[token].original = flow
  /\ t2.nat.forward[token] = [original |-> flow, port |-> t2.nat.forward[token].port]
  /\ \A k \in DOMAIN t.nat.reverse : k # ReverseKey(flow, t2.nat.forward[token].port)

LEMMA EphemeralEffect ==
  ASSUME NEW t, NEW ports, ports \subseteq Nat, NEW w, NEW token, NEW flow, NEW time, NEW t2,
         TableInv(t, ports), CanAllocate(t.nat, token, flow, time),
         t2 = AllocateEphemeral(t, w, token, flow, time)
  PROVE  Allocates(t, t2, ports, token, flow, time)
<1> DEFINE loc  == [flow_worker_id |-> w, session_id |-> token]
           nat2 == Allocate(t.nat, token, flow, loc, time)
           port == Lowest(UsablePorts(t.nat, flow, time))
           b    == [original |-> flow, port |-> port]
<1>1. t2 = [t EXCEPT !.nat = nat2] BY Zenon DEF AllocateEphemeral
<1>2. Rebinds(t.nat, nat2, {}, {token}) /\ Quarantines(t.nat, nat2, {}, time)
  BY AllocateEffect, Zenon
<1>3. TableInv(t2, ports) BY EphemeralInv, Zenon
<1>4. nat2.forward = Put(t.nat.forward, token, b) BY Zenon DEF Allocate
<1>5. port \in UsablePorts(t.nat, flow, time)
  BY AllocatedPortIsUsable, Zenon DEF TableInv, TableConsistent
<1>6. ReverseKey(flow, port) \notin DOMAIN t.nat.reverse BY <1>5, Zenon DEF UsablePorts
<1> HIDE DEF port
<1>7. b.port = port /\ b.original = flow /\ b = [original |-> flow, port |-> b.port] BY Zenon
<1> HIDE DEF nat2, b
<1>8. t2.sessions = t.sessions /\ t2.nat = nat2 /\ t2.next_session_id = t.next_session_id
  BY <1>1, Zenon DEF TableInv, IsTable
<1>9. nat2.forward[token] = b BY <1>4, Zenon DEF Put
<1>10. TableEffect(t, t2, {}, {token}, time) /\ \A f : OnFlow(t, t2, f)
  BY <1>2, <1>8, NatEffect
<1> QED BY <1>3, <1>6, <1>7, <1>8, <1>9, <1>10, Zenon DEF Allocates

Ephemeral(t, tokens) ==
  tokens \subseteq DOMAIN t.nat.forward /\ tokens \cap DOMAIN t.sessions = {}

LEMMA ReleaseEffect ==
  ASSUME NEW t, NEW ports, NEW tokens, NEW time, NEW t2, TableInv(t, ports), Ephemeral(t, tokens),
         t2 = ReleaseEphemeral(t, tokens, time)
  PROVE  /\ TableInv(t2, ports) /\ TableEffect(t, t2, tokens, {}, time) /\ \A f : OnFlow(t, t2, f)
         /\ t2.sessions = t.sessions /\ t2.next_session_id = t.next_session_id
<1> DEFINE nat2 == RemoveAll(t.nat, tokens, time)
<1>1. t2 = [t EXCEPT !.nat = nat2] BY Zenon DEF ReleaseEphemeral
<1>0. tokens \subseteq DOMAIN t.nat.forward /\ tokens \cap DOMAIN t.sessions = {}
  BY Zenon DEF Ephemeral
<1>2. NatConsistent(t.nat, ports) /\ ReverseMatchesForward(t.nat)
  BY Zenon DEF TableInv, TableConsistent, NatConsistent
<1>3. Rebinds(t.nat, nat2, tokens, {}) /\ Quarantines(t.nat, nat2, tokens, time)
  BY <1>0, <1>2, RemoveEffect, Zenon
<1>4. IsNat(nat2) /\ NatConsistent(nat2, ports) BY <1>0, <1>2, NatShapes, RemoveAllConsistent, Zenon
<1> HIDE DEF nat2
<1>5. \A id \in DOMAIN t.sessions :
        id \in DOMAIN nat2.forward /\ nat2.forward[id] = t.nat.forward[id]
  BY <1>0, <1>3, Zenon DEF Rebinds, TableInv, TableConsistent, SessionsBound
<1>6. TableInv(t2, ports) BY <1>1, <1>4, <1>5, NatReplaced
<1>7. t2.sessions = t.sessions /\ t2.nat = nat2 /\ t2.next_session_id = t.next_session_id
  BY <1>1, Zenon DEF TableInv, IsTable
<1>8. TableEffect(t, t2, tokens, {}, time) /\ \A f : OnFlow(t, t2, f)
  BY <1>0, <1>3, <1>7, NatEffect, Zenon
<1> QED BY <1>6, <1>7, <1>8, Zenon

-----------------------------------------------------------------------------
(* What the operations of a worker do. *)

DnsEffect(d, d2, gone, new) ==
  /\ \A q \in DOMAIN d.by_key : d.by_key[q].token \notin gone =>
       q \in DOMAIN d2.by_key /\ d2.by_key[q] = d.by_key[q]
  /\ \A q \in DOMAIN d2.by_key :
       \/ /\ q \in DOMAIN d.by_key /\ d2.by_key[q] = d.by_key[q]
          /\ d.by_key[q].token \notin gone
       \/ /\ d2.by_key[q].token \in new /\ d2.by_key[q].token = DnsBit + d.next_token
          /\ d2.next_token = d.next_token + 1
  /\ d2.next_token \in {d.next_token, d.next_token + 1}

WorkerEffect(ws, u, gone, new, time) ==
  TableEffect(ws.table, u.table, gone, new, time) /\ DnsEffect(ws.dns, u.dns, gone, new)

(* The worker's share is a set of ports. *)
LEMMA SharesArePorts == \A w \in Workers : Share(w) \subseteq Nat
<1> SUFFICES ASSUME NEW w \in Workers PROVE Share(w) \subseteq Nat
  BY Zenon
<1> DEFINE r == WorkerPortRange(NatPorts, w, WorkerCount)
           base == Length(NatPorts) \div WorkerCount
           extra == Length(NatPorts) % WorkerCount
<1>1. /\ NatPorts.start \in Nat /\ NatPorts.end \in Nat /\ NatPorts.start <= NatPorts.end
      /\ WorkerCount \in Nat \ {0} /\ w \in Nat
  BY FlowPlaneAssumption DEF HasPortRange, Workers
<1>2. Length(NatPorts) \in Nat BY <1>1 DEF Length
<1>3. base \in Nat /\ extra \in Nat BY <1>1, <1>2
<1> HIDE DEF base, extra
<1>4. w * base \in Nat BY <1>1, <1>3
<1>5. r.start = NatPorts.start + (w * base + Least(w, extra))
  BY Zenon DEF WorkerPortRange, base, extra
<1>6. r.start \in Nat BY <1>1, <1>3, <1>4, <1>5 DEF Least
<1> HIDE DEF r
<1> QED BY <1>6 DEF Share, PortsIn, r

(* A token belongs to one query. *)
LEMMA TokenOwner ==
  ASSUME NEW w, NEW ws, WsInv(w, ws),
         NEW q \in DOMAIN ws.dns.by_key, NEW r \in DOMAIN ws.dns.by_key,
         ws.dns.by_key[q].token = ws.dns.by_key[r].token
  PROVE  q = r
<1> DEFINE a == ws.dns.by_key[q]
           b == ws.dns.by_key[r]
<1>1. DnsConsistent(ws) BY Zenon DEF WsInv
<1>2. /\ a.query = q /\ ws.dns.by_reverse[KeyOfTransaction(a)] = q
      /\ ws.table.nat.forward[a.token] = [original |-> SelectedFlow(q), port |-> a.port]
  BY <1>1, Zenon DEF DnsConsistent
<1>3. /\ b.query = r /\ ws.dns.by_reverse[KeyOfTransaction(b)] = r
      /\ ws.table.nat.forward[b.token] = [original |-> SelectedFlow(r), port |-> b.port]
  BY <1>1, Zenon DEF DnsConsistent
<1>4. [original |-> SelectedFlow(q), port |-> a.port] =
        [original |-> SelectedFlow(r), port |-> b.port]
  BY <1>2, <1>3, Zenon
<1> HIDE DEF a, b
<1>5. SelectedFlow(q) = SelectedFlow(r) /\ a.port = b.port BY <1>4, Zenon
<1>6. KeyOfTransaction(a) = KeyOfTransaction(b) BY <1>2, <1>3, <1>5, Zenon DEF KeyOfTransaction
<1> QED BY <1>2, <1>3, <1>6, Zenon

(* The same, said of the parts of a worker it depends on. *)
DnsAgrees(by_key, by_reverse, deadlines, forward, ids) ==
  /\ \A q \in DOMAIN by_key :
       /\ by_key[q].query = q
       /\ KeyOfTransaction(by_key[q]) \in DOMAIN by_reverse
       /\ by_reverse[KeyOfTransaction(by_key[q])] = q
       /\ by_key[q].token \in DOMAIN forward
       /\ forward[by_key[q].token] = [original |-> SelectedFlow(q), port |-> by_key[q].port]
  /\ \A k \in DOMAIN by_reverse :
       by_reverse[k] \in DOMAIN by_key /\ KeyOfTransaction(by_key[by_reverse[k]]) = k
  /\ deadlines = {<<by_key[q].expires_at, q>> : q \in DOMAIN by_key}
  /\ DOMAIN forward = ids \cup {by_key[q].token : q \in DOMAIN by_key}

LEMMA DnsAgreesMeansConsistent ==
  ASSUME NEW ws
  PROVE  DnsConsistent(ws) <=> DnsAgrees(ws.dns.by_key, ws.dns.by_reverse, ws.dns.deadlines,
                                         ws.table.nat.forward, DOMAIN ws.table.sessions)
BY Zenon DEF DnsConsistent, DnsAgrees

(* The transactions depend on the bindings of their tokens only. *)
KeepsTokens(by_key, f, g, ids) ==
  /\ \A q \in DOMAIN by_key :
       by_key[q].token \in DOMAIN g /\ g[by_key[q].token] = f[by_key[q].token]
  /\ DOMAIN g = ids \cup {by_key[q].token : q \in DOMAIN by_key}

LEMMA DnsAgreesRebound ==
  ASSUME NEW by_key, NEW by_reverse, NEW deadlines, NEW f, NEW g, NEW ids, NEW ids2,
         DnsAgrees(by_key, by_reverse, deadlines, f, ids), KeepsTokens(by_key, f, g, ids2)
  PROVE  DnsAgrees(by_key, by_reverse, deadlines, g, ids2)
BY Zenon DEF DnsAgrees, KeepsTokens

(* An operation on the sessions leaves the transactions alone. *)
OfSessions(t, t2, gone, new) ==
  /\ gone \subseteq DOMAIN t.sessions
  /\ DOMAIN t2.sessions = (DOMAIN t.sessions \ gone) \cup new

LEMMA TableStep ==
  ASSUME NEW w, NEW ws, NEW u, NEW gone, NEW new, NEW time, WsInv(w, ws), IsWorker(u),
         u.dns = ws.dns, TableInv(u.table, Share(w)),
         TableEffect(ws.table, u.table, gone, new, time), OfSessions(ws.table, u.table, gone, new)
  PROVE  WsInv(w, u) /\ WorkerEffect(ws, u, gone, new, time)
<1>0. /\ gone \subseteq DOMAIN ws.table.sessions
      /\ DOMAIN u.table.sessions = (DOMAIN ws.table.sessions \ gone) \cup new
  BY Zenon DEF OfSessions
<1>1. Tokens(u) = Tokens(ws) BY Zenon DEF Tokens
<1>2. /\ Tokens(ws) \cap gone = {} /\ Tokens(ws) \subseteq DOMAIN ws.table.nat.forward
      /\ DOMAIN ws.table.nat.forward = DOMAIN ws.table.sessions \cup Tokens(ws)
  BY <1>0, Zenon DEF WsInv, DnsConsistent, Tokens
<1>3. /\ new \cap DOMAIN ws.table.nat.forward = {}
      /\ DOMAIN u.table.nat.forward = (DOMAIN ws.table.nat.forward \ gone) \cup new
      /\ \A id \in Tokens(ws) : id \in DOMAIN u.table.nat.forward
                                /\ u.table.nat.forward[id] = ws.table.nat.forward[id]
  BY <1>2, Zenon DEF TableEffect, Rebinds
<1>4. DOMAIN u.table.nat.forward = DOMAIN u.table.sessions \cup Tokens(u)
  BY <1>0, <1>1, <1>2, <1>3, Zenon
<1>5. \A q \in DOMAIN ws.dns.by_key : ws.dns.by_key[q].token \in Tokens(ws) BY Zenon DEF Tokens
<1>6. DnsConsistent(u)
  <2> DEFINE d == ws.dns
             f == ws.table.nat.forward
             g == u.table.nat.forward
  <2>1. DnsAgrees(d.by_key, d.by_reverse, d.deadlines, f, DOMAIN ws.table.sessions)
    BY DnsAgreesMeansConsistent, Zenon DEF WsInv
  <2>2. KeepsTokens(d.by_key, f, g, DOMAIN u.table.sessions)
    <3>1. {d.by_key[q].token : q \in DOMAIN d.by_key} = Tokens(u) BY Zenon DEF Tokens
    <3> QED BY <1>3, <1>4, <1>5, <3>1, Zenon DEF KeepsTokens
  <2> HIDE DEF d, f, g
  <2>3. DnsAgrees(d.by_key, d.by_reverse, d.deadlines, g, DOMAIN u.table.sessions)
    BY <2>1, <2>2, DnsAgreesRebound, Zenon
  <2>4. d = u.dns BY Zenon DEF d
  <2>5. DnsAgrees(u.dns.by_key, u.dns.by_reverse, u.dns.deadlines, u.table.nat.forward,
                  DOMAIN u.table.sessions)
    BY <2>3, <2>4, Zenon DEF g
  <2> QED BY <2>5, DnsAgreesMeansConsistent, Zenon
<1>7. DOMAIN u.table.sessions \cap Tokens(u) = {} BY <1>0, <1>1, <1>2, <1>3, Zenon DEF WsInv
<1>8. DnsEffect(ws.dns, u.dns, gone, new) BY <1>2, <1>5, Zenon DEF DnsEffect
<1> QED BY <1>6, <1>7, <1>8, Zenon DEF WsInv, WorkerEffect

Opens(w, ws, u, q, time) ==
  /\ WsInv(w, u) /\ WorkerEffect(ws, u, {}, {Token(ws)}, time)
  /\ q \in DOMAIN u.dns.by_key /\ u.dns.by_key[q].token = Token(ws)
  /\ DOMAIN u.dns.by_key = DOMAIN ws.dns.by_key \cup {q}
  /\ KeyOfTransaction(u.dns.by_key[q]) = BindingKey(u.table.nat.forward[Token(ws)])
  /\ u.dns.next_token = ws.dns.next_token + 1
  /\ u.table.sessions = ws.table.sessions
  /\ u.table.next_session_id = ws.table.next_session_id

LEMMA OpenStep ==
  ASSUME NEW w \in Workers, NEW ws, NEW u, NEW q, NEW time, WsInv(w, ws), ~IsOpen(ws, q),
         CanOpen(ws, q, time), u = Open(ws, w, q, time)
  PROVE  Opens(w, ws, u, q, time)
<1> DEFINE token == Token(ws)
           flow  == SelectedFlow(q)
           t2    == AllocateEphemeral(ws.table, w, token, flow, time)
           tr    == [token |-> token, query |-> q, port |-> t2.nat.forward[token].port,
                     expires_at |-> time + DnsTimeout]
           key   == KeyOfTransaction(tr)
<1>1. /\ u.table = t2 /\ IsWorker(u)
      /\ u.dns.by_key = Put(ws.dns.by_key, q, tr)
      /\ u.dns.by_reverse = Put(ws.dns.by_reverse, key, q)
      /\ u.dns.deadlines = ws.dns.deadlines \cup {<<tr.expires_at, q>>}
      /\ u.dns.next_token = ws.dns.next_token + 1
  BY Zenon DEF Open, IsWorker
<1>2. /\ TableInv(ws.table, Share(w)) /\ Share(w) \subseteq Nat
      /\ CanAllocate(ws.table.nat, token, flow, time)
  BY SharesArePorts, Zenon DEF WsInv, CanOpen
<1>3. /\ TableInv(t2, Share(w)) /\ TableEffect(ws.table, t2, {}, {token}, time)
      /\ t2.sessions = ws.table.sessions /\ t2.next_session_id = ws.table.next_session_id
      /\ t2.nat.forward[token].original = flow
      /\ t2.nat.forward[token] = [original |-> flow, port |-> t2.nat.forward[token].port]
      /\ \A k \in DOMAIN ws.table.nat.reverse : k # ReverseKey(flow, t2.nat.forward[token].port)
  <2> HIDE DEF t2
  <2>1. t2 = AllocateEphemeral(ws.table, w, token, flow, time) BY Zenon DEF t2
  <2>2. Allocates(ws.table, t2, Share(w), token, flow, time) BY <1>2, <2>1, EphemeralEffect, Zenon
  <2> QED BY <2>2, Zenon DEF Allocates
<1>4. tr.token = token /\ tr.query = q /\ tr.port = t2.nat.forward[token].port BY Zenon
<1>5. key = ReverseKey(flow, t2.nat.forward[token].port) BY Zenon DEF KeyOfTransaction
<1>6. key = BindingKey(t2.nat.forward[token]) BY <1>3, <1>5, Zenon DEF BindingKey
<1> HIDE DEF t2, tr, key
<1>7. /\ DOMAIN u.dns.by_key = DOMAIN ws.dns.by_key \cup {q} /\ u.dns.by_key[q] = tr
      /\ \A r \in DOMAIN ws.dns.by_key : r # q /\ u.dns.by_key[r] = ws.dns.by_key[r]
  BY <1>1, Zenon DEF Put, IsOpen
<1>8. /\ DOMAIN u.dns.by_reverse = DOMAIN ws.dns.by_reverse \cup {key}
      /\ u.dns.by_reverse[key] = q
      /\ \A k \in DOMAIN ws.dns.by_reverse \ {key} : u.dns.by_reverse[k] = ws.dns.by_reverse[k]
  BY <1>1, Zenon DEF Put
<1>9. key \notin DOMAIN ws.dns.by_reverse
  <2> SUFFICES ASSUME key \in DOMAIN ws.dns.by_reverse PROVE FALSE
    BY Zenon
  <2> DEFINE r == ws.dns.by_reverse[key]
             b == ws.dns.by_key[r]
  <2>1. /\ r \in DOMAIN ws.dns.by_key /\ KeyOfTransaction(b) = key /\ b.query = r
        /\ b.token \in DOMAIN ws.table.nat.forward
        /\ ws.table.nat.forward[b.token] = [original |-> SelectedFlow(r), port |-> b.port]
    BY Zenon DEF WsInv, DnsConsistent
  <2> HIDE DEF b
  <2>2. /\ ws.table.nat.forward[b.token].original = SelectedFlow(r)
        /\ ws.table.nat.forward[b.token].port = b.port
    BY <2>1
  <2>4. BindingKey(ws.table.nat.forward[b.token]) = ReverseKey(SelectedFlow(r), b.port)
    BY <2>2, Zenon DEF BindingKey
  <2>5. BindingKey(ws.table.nat.forward[b.token]) = key BY <2>1, <2>4, Zenon DEF KeyOfTransaction
  <2>3. key \in DOMAIN ws.table.nat.reverse
    BY <2>1, <2>5, Zenon DEF WsInv, TableInv, TableConsistent, NatConsistent, ReverseMatchesForward
  <2> QED BY <1>3, <1>5, <2>3, Zenon
<1>10. /\ token \notin DOMAIN ws.table.nat.forward
       /\ DOMAIN u.table.nat.forward = DOMAIN ws.table.nat.forward \cup {token}
       /\ \A i \in DOMAIN ws.table.nat.forward :
            u.table.nat.forward[i] = ws.table.nat.forward[i]
  BY <1>1, <1>3, ZenonT(30) DEF TableEffect, Rebinds
<1>11. u.dns.deadlines = {<<u.dns.by_key[r].expires_at, r>> : r \in DOMAIN u.dns.by_key}
  <2>1. ws.dns.deadlines = {<<ws.dns.by_key[r].expires_at, r>> : r \in DOMAIN ws.dns.by_key}
    BY Zenon DEF WsInv, DnsConsistent
  <2> QED BY <1>1, <1>7, <2>1
<1>12. /\ Tokens(u) = Tokens(ws) \cup {token}
       /\ DOMAIN ws.table.nat.forward = DOMAIN ws.table.sessions \cup Tokens(ws)
  <2>1. Tokens(u) = Tokens(ws) \cup {token} BY <1>4, <1>7 DEF Tokens
  <2> QED BY <2>1, Zenon DEF WsInv, DnsConsistent, Tokens
<1>13. \A r \in DOMAIN u.dns.by_key :
         /\ u.dns.by_key[r].query = r
         /\ KeyOfTransaction(u.dns.by_key[r]) \in DOMAIN u.dns.by_reverse
         /\ u.dns.by_reverse[KeyOfTransaction(u.dns.by_key[r])] = r
         /\ u.dns.by_key[r].token \in DOMAIN u.table.nat.forward
         /\ u.table.nat.forward[u.dns.by_key[r].token] =
              [original |-> SelectedFlow(r), port |-> u.dns.by_key[r].port]
  <2> TAKE r \in DOMAIN u.dns.by_key
  <2>1. CASE r = q
    <3>1. u.dns.by_key[r] = tr /\ KeyOfTransaction(tr) = key BY <1>7, <2>1, Zenon DEF key
    <3>2. /\ tr.token \in DOMAIN u.table.nat.forward
          /\ u.table.nat.forward[tr.token] = [original |-> SelectedFlow(q), port |-> tr.port]
      BY <1>1, <1>3, <1>4, <1>10, Zenon
    <3> QED BY <1>4, <1>8, <2>1, <3>1, <3>2, Zenon
  <2>2. CASE r # q
    <3>1. r \in DOMAIN ws.dns.by_key /\ u.dns.by_key[r] = ws.dns.by_key[r] BY <1>7, <2>2, Zenon
    <3> DEFINE b == ws.dns.by_key[r]
    <3>2. /\ b.query = r /\ KeyOfTransaction(b) \in DOMAIN ws.dns.by_reverse
          /\ ws.dns.by_reverse[KeyOfTransaction(b)] = r
          /\ b.token \in DOMAIN ws.table.nat.forward
          /\ ws.table.nat.forward[b.token] = [original |-> SelectedFlow(r), port |-> b.port]
      BY <3>1, Zenon DEF WsInv, DnsConsistent
    <3> HIDE DEF b
    <3>3. /\ KeyOfTransaction(b) \in DOMAIN u.dns.by_reverse
          /\ u.dns.by_reverse[KeyOfTransaction(b)] = r
      BY <1>8, <1>9, <3>2, ZenonT(30)
    <3>4. /\ b.token \in DOMAIN u.table.nat.forward
          /\ u.table.nat.forward[b.token] = [original |-> SelectedFlow(r), port |-> b.port]
      BY <1>10, <3>2, Zenon
    <3>5. u.dns.by_key[r] = b BY <3>1, Zenon DEF b
    <3> QED BY <3>2, <3>3, <3>4, <3>5, Zenon
  <2> QED BY <2>1, <2>2, ZenonT(30)
<1>14. \A k \in DOMAIN u.dns.by_reverse :
         /\ u.dns.by_reverse[k] \in DOMAIN u.dns.by_key
         /\ KeyOfTransaction(u.dns.by_key[u.dns.by_reverse[k]]) = k
  <2> TAKE k \in DOMAIN u.dns.by_reverse
  <2>1. CASE k = key BY <1>7, <1>8, <2>1, Zenon DEF key
  <2>2. CASE k # key
    <3> DEFINE r == ws.dns.by_reverse[k]
    <3>1. r \in DOMAIN ws.dns.by_key /\ KeyOfTransaction(ws.dns.by_key[r]) = k
      BY <1>8, <2>2, Zenon DEF WsInv, DnsConsistent
    <3>2. u.dns.by_reverse[k] = r BY <1>8, <2>2, Zenon
    <3> HIDE DEF r
    <3> QED BY <1>7, <3>1, <3>2, Zenon
  <2> QED BY <2>1, <2>2, Zenon
<1>15. DOMAIN u.table.nat.forward = DOMAIN u.table.sessions \cup Tokens(u)
  BY <1>1, <1>3, <1>10, <1>12, Zenon
<1>16. DnsConsistent(u) BY <1>11, <1>13, <1>14, <1>15, Zenon DEF DnsConsistent, Tokens
<1>17. DOMAIN u.table.sessions \cap Tokens(u) = {}
  BY <1>1, <1>3, <1>10, <1>12, Zenon DEF WsInv
<1>18. DnsEffect(ws.dns, u.dns, {}, {token}) BY <1>1, <1>4, <1>7, ZenonT(30) DEF DnsEffect, Token
<1> HIDE DEF token
<1>19. WsInv(w, u) /\ WorkerEffect(ws, u, {}, {token}, time)
  BY <1>1, <1>3, <1>16, <1>17, <1>18, Zenon DEF WsInv, WorkerEffect
<1> QED BY <1>1, <1>3, <1>4, <1>6, <1>7, <1>19, ZenonT(30) DEF token, key, Opens

Ends(w, ws, u, qs, tokens, time) ==
  /\ WsInv(w, u) /\ WorkerEffect(ws, u, tokens, {}, time)
  /\ DOMAIN u.dns.by_key = DOMAIN ws.dns.by_key \ qs
  /\ u.dns.next_token = ws.dns.next_token
  /\ u.table.sessions = ws.table.sessions
  /\ u.table.next_session_id = ws.table.next_session_id
  /\ \A f : OnFlow(ws.table, u.table, f)

LEMMA RemoveTransactionsStep ==
  ASSUME NEW w \in Workers, NEW ws, NEW u, NEW qs, NEW time, NEW tokens, WsInv(w, ws),
         qs \subseteq DOMAIN ws.dns.by_key, u = RemoveTransactions(ws, qs, time),
         tokens = TokensOf(ws, qs)
  PROVE  Ends(w, ws, u, qs, tokens, time)
<1> DEFINE trs  == {ws.dns.by_key[q] : q \in qs}
           keys == {KeyOfTransaction(tr) : tr \in trs}
           dls  == {<<ws.dns.by_key[q].expires_at, q>> : q \in qs}
           t2   == ReleaseEphemeral(ws.table, tokens, time)
           bk   == Restrict(ws.dns.by_key, DOMAIN ws.dns.by_key \ qs)
           br   == Restrict(ws.dns.by_reverse, DOMAIN ws.dns.by_reverse \ keys)
<1>1. {tr.token : tr \in trs} = tokens BY Zenon DEF TokensOf
<1>2. u = [table |-> t2, dns |-> [ws.dns EXCEPT !.by_key = bk, !.by_reverse = br,
                                                !.deadlines = @ \ dls]]
  BY <1>1, Zenon DEF RemoveTransactions
<1> HIDE DEF t2, bk, br
<1>3. /\ u.table = t2 /\ IsWorker(u) /\ u.dns.by_key = bk /\ u.dns.by_reverse = br
      /\ u.dns.deadlines = ws.dns.deadlines \ dls /\ u.dns.next_token = ws.dns.next_token
  <2> DEFINE dl == ws.dns.deadlines \ dls
             d2 == [ws.dns EXCEPT !.by_key = bk, !.by_reverse = br, !.deadlines = dl]
  <2>1. u = [table |-> t2, dns |-> d2] BY <1>2, Zenon
  <2> HIDE DEF dl
  <2>2. IsWorker(ws) BY Zenon DEF WsInv
  <2>3. /\ DOMAIN d2 = DOMAIN ws.dns /\ d2.by_key = bk /\ d2.by_reverse = br
        /\ d2.deadlines = dl /\ d2.next_token = ws.dns.next_token
    BY <2>2, Zenon DEF IsWorker
  <2> HIDE DEF d2
  <2> QED BY <2>1, <2>2, <2>3 DEF IsWorker, dl
<1>4. /\ TableInv(ws.table, Share(w)) /\ tokens \subseteq Tokens(ws)
      /\ DOMAIN ws.table.nat.forward = DOMAIN ws.table.sessions \cup Tokens(ws)
      /\ DOMAIN ws.table.sessions \cap Tokens(ws) = {}
  <2>1. TableInv(ws.table, Share(w)) /\ DnsConsistent(ws) BY Zenon DEF WsInv
  <2>2. tokens \subseteq Tokens(ws) BY Zenon DEF Tokens, TokensOf
  <2>3. DOMAIN ws.table.nat.forward = DOMAIN ws.table.sessions \cup Tokens(ws)
    BY <2>1, Zenon DEF DnsConsistent, Tokens
  <2> QED BY <2>1, <2>2, <2>3, Zenon DEF WsInv
<1>5. /\ TableInv(t2, Share(w)) /\ TableEffect(ws.table, t2, tokens, {}, time)
      /\ \A f : OnFlow(ws.table, t2, f)
      /\ t2.sessions = ws.table.sessions /\ t2.next_session_id = ws.table.next_session_id
  <2>1. Ephemeral(ws.table, tokens) BY <1>4, Zenon DEF Ephemeral
  <2>2. t2 = ReleaseEphemeral(ws.table, tokens, time) BY ZenonT(30) DEF t2
  <2> HIDE DEF t2
  <2>3. /\ TableInv(t2, Share(w)) /\ TableEffect(ws.table, t2, tokens, {}, time)
        /\ t2.sessions = ws.table.sessions /\ t2.next_session_id = ws.table.next_session_id
    BY <1>4, <2>1, ReleaseEffect DEF t2
  <2> QED BY <2>3, Zenon DEF OnFlow
<1>6. /\ DOMAIN bk = DOMAIN ws.dns.by_key \ qs
      /\ \A q \in DOMAIN bk : bk[q] = ws.dns.by_key[q]
  BY Zenon DEF bk, Restrict
<1>7. /\ DOMAIN br = DOMAIN ws.dns.by_reverse \ keys
      /\ \A k \in DOMAIN br : br[k] = ws.dns.by_reverse[k]
  BY Zenon DEF br, Restrict
<1>8. \A q \in DOMAIN ws.dns.by_key : ws.dns.by_key[q].token \in tokens <=> q \in qs
  BY TokenOwner DEF TokensOf
<1>9. \A q \in DOMAIN ws.dns.by_key :
        /\ ws.dns.by_key[q].query = q
        /\ KeyOfTransaction(ws.dns.by_key[q]) \in DOMAIN ws.dns.by_reverse
        /\ ws.dns.by_reverse[KeyOfTransaction(ws.dns.by_key[q])] = q
        /\ ws.dns.by_key[q].token \in DOMAIN ws.table.nat.forward
        /\ ws.table.nat.forward[ws.dns.by_key[q].token] =
              [original |-> SelectedFlow(q), port |-> ws.dns.by_key[q].port]
  BY Zenon DEF WsInv, DnsConsistent
<1>10. \A q \in DOMAIN ws.dns.by_key : KeyOfTransaction(ws.dns.by_key[q]) \in keys <=> q \in qs
  BY <1>9, ZenonT(30)
<1>11. /\ DOMAIN t2.nat.forward = DOMAIN ws.table.nat.forward \ tokens
       /\ \A id \in DOMAIN t2.nat.forward : t2.nat.forward[id] = ws.table.nat.forward[id]
  BY <1>5, Zenon DEF TableEffect, Rebinds
<1> HIDE DEF keys
<1>12. \A q \in DOMAIN bk :
         /\ bk[q].query = q
         /\ KeyOfTransaction(bk[q]) \in DOMAIN br /\ br[KeyOfTransaction(bk[q])] = q
         /\ bk[q].token \in DOMAIN t2.nat.forward
         /\ t2.nat.forward[bk[q].token] = [original |-> SelectedFlow(q), port |-> bk[q].port]
  <2> TAKE q \in DOMAIN bk
  <2>1. q \in DOMAIN ws.dns.by_key \ qs /\ bk[q] = ws.dns.by_key[q] BY <1>6, Zenon
  <2>2. KeyOfTransaction(bk[q]) \in DOMAIN br /\ br[KeyOfTransaction(bk[q])] = q
    BY <1>7, <1>9, <1>10, <2>1, ZenonT(30)
  <2>3. /\ bk[q].token \in DOMAIN t2.nat.forward
        /\ t2.nat.forward[bk[q].token] = ws.table.nat.forward[bk[q].token]
    BY <1>8, <1>9, <1>11, <2>1, Zenon
  <2> QED BY <1>9, <2>1, <2>2, <2>3, Zenon
<1>13. \A k \in DOMAIN br : br[k] \in DOMAIN bk /\ KeyOfTransaction(bk[br[k]]) = k
  <2> TAKE k \in DOMAIN br
  <2>1. /\ br[k] \in DOMAIN ws.dns.by_key /\ KeyOfTransaction(ws.dns.by_key[br[k]]) = k
        /\ k \notin keys
    BY <1>7, Zenon DEF WsInv, DnsConsistent
  <2> QED BY <1>6, <1>10, <2>1, Zenon
<1>14. u.dns.deadlines = {<<bk[q].expires_at, q>> : q \in DOMAIN bk}
  <2>1. ws.dns.deadlines = {<<ws.dns.by_key[q].expires_at, q>> : q \in DOMAIN ws.dns.by_key}
    BY Zenon DEF WsInv, DnsConsistent
  <2> QED BY <1>3, <1>6, <2>1
<1>15. Tokens(u) = Tokens(ws) \ tokens BY <1>3, <1>6, <1>8 DEF Tokens
<1>16. DOMAIN t2.nat.forward = DOMAIN u.table.sessions \cup Tokens(u)
  BY <1>3, <1>4, <1>5, <1>11, <1>15, Zenon
<1>17. DnsConsistent(u)
  <2>1. Tokens(u) = {bk[q].token : q \in DOMAIN bk} BY <1>3, Zenon DEF Tokens
  <2>2. DnsAgrees(bk, br, u.dns.deadlines, t2.nat.forward, DOMAIN u.table.sessions)
    BY <1>12, <1>13, <1>14, <1>16, <2>1, Zenon DEF DnsAgrees
  <2> QED BY <1>3, <2>2, DnsAgreesMeansConsistent, Zenon
<1>18. WsInv(w, u) BY <1>3, <1>4, <1>5, <1>15, <1>17, ZenonT(30) DEF WsInv
<1>19. DnsEffect(ws.dns, u.dns, tokens, {}) BY <1>3, <1>6, <1>8, Zenon DEF DnsEffect
<1> QED BY <1>3, <1>5, <1>6, <1>18, <1>19, Zenon DEF WorkerEffect, Ends

NotOpened(w, ws, u, time) ==
  /\ WsInv(w, u) /\ WorkerEffect(ws, u, {}, {}, time)
  /\ u.dns.by_key = ws.dns.by_key /\ u.dns.next_token = ws.dns.next_token + 1
  /\ u.table.sessions = ws.table.sessions
  /\ u.table.next_session_id = ws.table.next_session_id
  /\ \A f : OnFlow(ws.table, u.table, f)

LEMMA OpenFailedStep ==
  ASSUME NEW w \in Workers, NEW ws, NEW u, NEW q, NEW time, WsInv(w, ws),
         u = OpenFailed(ws, q, time)
  PROVE  NotOpened(w, ws, u, time)
<1> DEFINE t2   == FailedTable(ws.table, Token(ws), SelectedFlow(q), time)
           d2   == [ws.dns EXCEPT !.next_token = ws.dns.next_token + 1]
<1>1. TableInv(ws.table, Share(w)) /\ IsTable(ws.table) /\ IsWorker(ws)
  BY Zenon DEF WsInv, TableInv
<1>2. u = [ws EXCEPT !.table = t2, !.dns = d2] BY <1>1, Zenon DEF OpenFailed, FailedTable, IsWorker
<1>3. /\ TableInv(t2, Share(w)) /\ TableEffect(ws.table, t2, {}, {}, time)
      /\ \A f : OnFlow(ws.table, t2, f)
      /\ t2.sessions = ws.table.sessions /\ t2.next_session_id = ws.table.next_session_id
      /\ t2.nat.forward = ws.table.nat.forward
  <2>1. Share(w) \subseteq Nat BY SharesArePorts, Zenon
  <2>2. Fails(ws.table, t2, Share(w), time) BY <1>1, <2>1, AllocateFailedEffect, Zenon
  <2> QED BY <2>2, Zenon DEF Fails, OnFlow
<1>4. /\ d2.by_key = ws.dns.by_key /\ d2.by_reverse = ws.dns.by_reverse
      /\ d2.deadlines = ws.dns.deadlines /\ d2.next_token = ws.dns.next_token + 1
      /\ DOMAIN d2 = DOMAIN ws.dns
  BY <1>1, Zenon DEF IsWorker
<1> HIDE DEF t2, d2
<1>5. u.table = t2 /\ u.dns = d2 /\ IsWorker(u) BY <1>1, <1>2, <1>4, Zenon DEF IsWorker
<1>6. Tokens(u) = Tokens(ws) BY <1>4, <1>5, Zenon DEF Tokens
<1>7. DnsConsistent(u)
  <2>1. DnsConsistent(ws) BY Zenon DEF WsInv
  <2>2. /\ u.dns.by_key = ws.dns.by_key /\ u.dns.by_reverse = ws.dns.by_reverse
        /\ u.dns.deadlines = ws.dns.deadlines /\ u.table.sessions = ws.table.sessions
        /\ u.table.nat.forward = ws.table.nat.forward
    BY <1>3, <1>4, <1>5, Zenon
  <2> QED BY <2>1, <2>2, DnsAgreesMeansConsistent, Zenon
<1>8. DnsEffect(ws.dns, u.dns, {}, {}) BY <1>4, <1>5, Zenon DEF DnsEffect
<1> QED BY <1>3, <1>4, <1>5, <1>6, <1>7, <1>8, Zenon DEF WsInv, WorkerEffect, NotOpened

LEMMA WithTable ==
  ASSUME NEW ws, NEW t, NEW u, IsWorker(ws), u = [ws EXCEPT !.table = t]
  PROVE  IsWorker(u) /\ u.table = t /\ u.dns = ws.dns
BY Zenon DEF IsWorker

(* The bindings of a worker are of its sessions and of its transactions. *)
LEMMA Holders ==
  ASSUME NEW w, NEW ws, WsInv(w, ws)
  PROVE  /\ DOMAIN ws.table.nat.forward = DOMAIN ws.table.sessions \cup Tokens(ws)
         /\ DOMAIN ws.table.sessions \cap Tokens(ws) = {}
         /\ \A q \in DOMAIN ws.dns.by_key : ws.dns.by_key[q].token \in Tokens(ws)
         /\ \A id \in Tokens(ws) : \E q \in DOMAIN ws.dns.by_key : id = ws.dns.by_key[q].token
<1>1. DnsConsistent(ws) /\ DOMAIN ws.table.sessions \cap Tokens(ws) = {} BY Zenon DEF WsInv
<1>2. DOMAIN ws.table.nat.forward = DOMAIN ws.table.sessions \cup Tokens(ws)
  BY <1>1, Zenon DEF DnsConsistent, Tokens
<1> QED BY <1>1, <1>2, Zenon DEF Tokens

(* What is bound and released within one step leaves no trace but its      *)
(* quarantine and the identifier.                                          *)
LEMMA UndoEffect ==
  ASSUME NEW w, NEW ws, NEW m, NEW u, NEW id, NEW time, WsInv(w, ws), WsInv(w, m),
         WorkerEffect(ws, m, {}, {id}, time), WorkerEffect(m, u, {id}, {}, time),
         u.table.next_session_id = m.table.next_session_id, u.dns.next_token = m.dns.next_token
  PROVE  WorkerEffect(ws, u, {}, {}, time)
<1>1. /\ Rebinds(ws.table.nat, m.table.nat, {}, {id}) /\ Rebinds(m.table.nat, u.table.nat, {id}, {})
      /\ Quarantines(ws.table.nat, m.table.nat, {}, time)
      /\ Quarantines(m.table.nat, u.table.nat, {id}, time)
      /\ Resumes(ws.table, m.table, {}, {id}) /\ Resumes(m.table, u.table, {id}, {})
      /\ DnsEffect(ws.dns, m.dns, {}, {id}) /\ DnsEffect(m.dns, u.dns, {id}, {})
  BY Zenon DEF WorkerEffect, TableEffect
<1>2. DOMAIN m.table.nat.quarantined \cap DOMAIN m.table.nat.reverse = {}
  BY Zenon DEF WsInv, TableInv, TableConsistent, NatConsistent, QuarantineDisjoint
<1>3. id \notin DOMAIN ws.table.nat.forward BY <1>1, Zenon DEF Rebinds
<1>4. Rebinds(ws.table.nat, u.table.nat, {}, {}) BY <1>1, Zenon DEF Rebinds
<1>5. Quarantines(ws.table.nat, u.table.nat, {}, time) BY <1>1, <1>2, Zenon DEF Quarantines
<1>6. Resumes(ws.table, u.table, {}, {})
  <2>1. id \notin DOMAIN ws.table.sessions
    BY <1>3, Zenon DEF WsInv, TableInv, TableConsistent, SessionsBound
  <2> QED BY <1>1, <2>1, Zenon DEF Resumes
<1>7. DnsEffect(ws.dns, u.dns, {}, {})
  <2>1. \A q \in DOMAIN ws.dns.by_key : ws.dns.by_key[q].token # id
    BY <1>3, Holders, ZenonT(30)
  <2> QED BY <1>1, <2>1, Zenon DEF DnsEffect
<1> QED BY <1>4, <1>5, <1>6, <1>7, Zenon DEF WorkerEffect, TableEffect

LEMMA CountStep ==
  ASSUME NEW ws, NEW u, NEW gone, NEW new, NEW time, CountInv(ws),
         WorkerEffect(ws, u, gone, new, time), u.table.next_session_id <= MaxSessions + 1
  PROVE  CountInv(u)
<1>1. Resumes(ws.table, u.table, gone, new) /\ DnsEffect(ws.dns, u.dns, gone, new)
  BY Zenon DEF WorkerEffect, TableEffect
<1>2. MaxSessions \in Nat /\ DnsBit \in Nat BY FlowPlaneAssumption, DnsAssumption, Zenon
<1> DEFINE n == ws.table.next_session_id
           n2 == u.table.next_session_id
           k == ws.dns.next_token
           k2 == u.dns.next_token
<1>3. n \in 1..(MaxSessions + 1) /\ k \in Nat \ {0} BY Zenon DEF CountInv
<1>4. n2 \in {n, n + 1} /\ k2 \in {k, k + 1} BY <1>1, Zenon DEF Resumes, DnsEffect
<1>5. n2 \in 1..(MaxSessions + 1) /\ k2 \in Nat \ {0} /\ n <= n2 /\ k <= k2 BY <1>2, <1>3, <1>4
<1>6. \A id \in DOMAIN u.table.sessions : id \in 1..(n2 - 1)
  <2> TAKE id \in DOMAIN u.table.sessions
  <2>1. id \in DOMAIN ws.table.sessions \/ (id = n /\ n2 = id + 1) BY <1>1, Zenon DEF Resumes
  <2>2. DOMAIN ws.table.sessions \subseteq 1..(n - 1) BY Zenon DEF CountInv
  <2> HIDE DEF n, n2
  <2> QED BY <1>2, <1>3, <1>5, <2>1, <2>2
<1>7. \A token \in Tokens(u) : token \in (DnsBit + 1)..(DnsBit + k2 - 1)
  <2> TAKE token \in Tokens(u)
  <2>1. token \in Tokens(ws) \/ (token = DnsBit + k /\ k2 = k + 1)
    BY <1>1, Zenon DEF DnsEffect, Tokens
  <2>2. Tokens(ws) \subseteq (DnsBit + 1)..(DnsBit + k - 1) BY Zenon DEF CountInv
  <2> HIDE DEF k, k2
  <2> QED BY <1>2, <1>3, <1>5, <2>1, <2>2
<1> QED BY <1>5, <1>6, <1>7, Zenon DEF CountInv

(* The three outcomes of get_or_create_with_flags_at. *)
NotCreated(ws, u, r, time) ==
  /\ r.id = NoSession /\ WorkerEffect(ws, u, {}, {}, time)
  /\ u.table.next_session_id = ws.table.next_session_id
Touched(ws, u, r, time) ==
  /\ r.id \in DOMAIN ws.table.sessions /\ r.id # NoSession /\ r.id \in DOMAIN u.table.sessions
  /\ WorkerEffect(ws, u, {}, {}, time) /\ u.table.nat = ws.table.nat
  /\ u.table.next_session_id = ws.table.next_session_id
Created(ws, u, r, flow, time) ==
  /\ r.id = ws.table.next_session_id /\ r.id # NoSession /\ r.id \in DOMAIN u.table.sessions
  /\ WorkerEffect(ws, u, {}, {r.id}, time) /\ u.table.sessions[r.id].original = flow
  /\ ~HasSession(ws.table, flow, Io.ifindex)
  /\ u.table.next_session_id = ws.table.next_session_id + 1

(* What get_or_create does to a worker. *)
Serves(w, ws, u, r, flow, f, time) ==
  /\ WsInv(w, u) /\ OnFlow(ws.table, u.table, f) /\ u.dns = ws.dns
  /\ \/ NotCreated(ws, u, r, time)
     \/ Touched(ws, u, r, time)
     \/ Created(ws, u, r, flow, time)

LEMMA SessionForStep ==
  ASSUME NEW w \in Workers, NEW ws, NEW flow, NEW f, NEW flag, NEW time, NEW r, NEW u,
         WsInv(w, ws), CountInv(ws), r = GetOrCreate(ws.table, w, flow, Io, f, flag, time),
         IsWorker(u), u.table = r.table, u.dns = ws.dns
  PROVE  Serves(w, ws, u, r, flow, f, time)
<1> DEFINE t == ws.table
           n == ws.table.next_session_id
<1>1. IsWorker(ws) /\ TableInv(t, Share(w)) BY Zenon DEF WsInv
<1>3. n \in Nat \ {0} /\ n \notin DOMAIN t.sessions /\ 0 \notin DOMAIN t.sessions
  BY FlowPlaneAssumption DEF CountInv
<1>4. Share(w) \subseteq Nat BY SharesArePorts, Zenon
<1>5. CASE HasSession(t, flow, Io.ifindex)
  <2> DEFINE id == t.by_key[SessionKey(flow, Io.ifindex)]
  <2>1. r.table = TouchTcp(t, id, flag, FALSE, time) /\ r.id = id BY <1>5, Zenon DEF GetOrCreate
  <2>2. id \in DOMAIN t.sessions
    BY <1>1, <1>5, Zenon DEF HasSession, TableInv, TableConsistent, KeyIndexExact
  <2> HIDE DEF id
  <2> DEFINE t2 == TouchTcp(t, id, flag, FALSE, time)
  <2>6. Touches(t, t2, Share(w), time) BY <1>1, <2>2, TouchEffect, Zenon
  <2>3. /\ TableInv(u.table, Share(w)) /\ TableEffect(t, u.table, {}, {}, time)
        /\ OnFlow(t, u.table, f) /\ DOMAIN u.table.sessions = DOMAIN t.sessions
        /\ u.table.nat = t.nat /\ u.table.next_session_id = n
    BY <2>1, <2>6, Zenon DEF Touches
  <2>5. OfSessions(t, u.table, {}, {}) BY <2>3, Zenon DEF OfSessions
  <2>4. WsInv(w, u) /\ WorkerEffect(ws, u, {}, {}, time) BY <1>1, <2>3, <2>5, TableStep, Zenon
  <2> QED BY <1>3, <2>1, <2>2, <2>3, <2>4, Zenon DEF Touched, NoSession, Serves
<1>6. CASE ~HasSession(t, flow, Io.ifindex) /\ CanCreate(t, flow, time)
  <2>1. r.table = Create(t, w, flow, Io, f, flag, time) /\ r.id = n BY <1>6, Zenon DEF GetOrCreate
  <2> DEFINE t2 == Create(t, w, flow, Io, f, flag, time)
  <2>5. Creates(t, t2, Share(w), flow, f, time) BY <1>1, <1>3, <1>4, <1>6, CreateEffect, Zenon
  <2>2. /\ TableInv(u.table, Share(w)) /\ TableEffect(t, u.table, {}, {n}, time)
        /\ OnFlow(t, u.table, f) /\ DOMAIN u.table.sessions = DOMAIN t.sessions \cup {n}
        /\ u.table.sessions[n].original = flow /\ u.table.next_session_id = n + 1
    BY <2>1, <2>5, Zenon DEF Creates
  <2>4. OfSessions(t, u.table, {}, {n}) BY <2>2, Zenon DEF OfSessions
  <2>3. WsInv(w, u) /\ WorkerEffect(ws, u, {}, {n}, time) BY <1>1, <2>2, <2>4, TableStep, Zenon
  <2> QED BY <1>3, <1>6, <2>1, <2>2, <2>3, Zenon DEF Created, NoSession, Serves
<1>7. CASE ~HasSession(t, flow, Io.ifindex) /\ ~CanCreate(t, flow, time)
  <2>1. r.table = FailedTable(t, n, flow, time) /\ r.id = NoSession
    BY <1>7, Zenon DEF GetOrCreate, FailedTable
  <2>2. /\ TableInv(u.table, Share(w)) /\ TableEffect(t, u.table, {}, {}, time)
        /\ u.table.sessions = t.sessions /\ u.table.next_session_id = n
    <3>1. u.table = FailedTable(t, n, flow, time) BY <2>1, Zenon
    <3>2. Fails(t, u.table, Share(w), time) BY <1>1, <1>4, <3>1, AllocateFailedEffect, Zenon
    <3> QED BY <3>2, Zenon DEF Fails
  <2>5. OfSessions(t, u.table, {}, {}) BY <2>2, Zenon DEF OfSessions
  <2>3. OnFlow(t, u.table, f) BY <2>2, Zenon DEF OnFlow
  <2>4. WsInv(w, u) /\ WorkerEffect(ws, u, {}, {}, time) BY <1>1, <2>2, <2>5, TableStep, Zenon
  <2> QED BY <2>1, <2>2, <2>3, <2>4, Zenon DEF NotCreated, Serves
<1> QED BY <1>5, <1>6, <1>7, Zenon

TakenBack(ws, u, v, r, time) ==
  /\ IsWorker(v) /\ v.dns = ws.dns /\ v.table = RemoveSessions(u.table, {r.id}, time)

Uncreated(w, ws, v, f, time) ==
  /\ WsInv(w, v) /\ WorkerEffect(ws, v, {}, {}, time) /\ OnFlow(ws.table, v.table, f)
  /\ v.table.next_session_id = ws.table.next_session_id + 1

LEMMA UncreateStep ==
  ASSUME NEW w \in Workers, NEW ws, NEW u, NEW v, NEW r, NEW flow, NEW f, NEW time,
         WsInv(w, ws), WsInv(w, u), u.dns = ws.dns, OnFlow(ws.table, u.table, f),
         Created(ws, u, r, flow, time), TakenBack(ws, u, v, r, time)
  PROVE  Uncreated(w, ws, v, f, time)
<1>0. IsWorker(v) /\ v.dns = ws.dns /\ v.table = RemoveSessions(u.table, {r.id}, time)
  BY Zenon DEF TakenBack
<1>1. /\ TableInv(u.table, Share(w)) /\ {r.id} \subseteq DOMAIN u.table.sessions
      /\ WorkerEffect(ws, u, {}, {r.id}, time)
      /\ u.table.next_session_id = ws.table.next_session_id + 1
  BY Zenon DEF WsInv, Created
<1> DEFINE ids == {r.id}
<1> HIDE DEF ids
<1>7. ids = {r.id} /\ ids \subseteq DOMAIN u.table.sessions BY <1>1, Zenon DEF ids
<1>2. /\ TableInv(v.table, Share(w)) /\ TableEffect(u.table, v.table, {r.id}, {}, time)
      /\ DOMAIN v.table.sessions = DOMAIN u.table.sessions \ {r.id}
      /\ v.table.next_session_id = u.table.next_session_id
      /\ \A i \in DOMAIN v.table.sessions : v.table.sessions[i] = u.table.sessions[i]
  <2> DEFINE t2 == RemoveSessions(u.table, ids, time)
  <2>1. Removes(u.table, t2, Share(w), ids, time) BY <1>1, <1>7, RemoveSessionsEffect, Zenon
  <2>2. v.table = t2 BY <1>0, <1>7, Zenon
  <2> HIDE DEF t2
  <2> QED BY <1>7, <2>1, <2>2, Zenon DEF Removes
<1>6. OfSessions(u.table, v.table, {r.id}, {}) BY <1>1, <1>2, Zenon DEF OfSessions
<1>3. WsInv(w, v) /\ WorkerEffect(u, v, {r.id}, {}, time)
  BY <1>0, <1>1, <1>2, <1>6, TableStep, Zenon
<1>4. WorkerEffect(ws, v, {}, {}, time) BY <1>0, <1>1, <1>2, <1>3, UndoEffect, Zenon
<1>5. OnFlow(ws.table, v.table, f) BY <1>2, Zenon DEF OnFlow
<1> QED BY <1>1, <1>2, <1>3, <1>4, <1>5, Zenon DEF Uncreated

(* The other operations on sessions: retirement, delivery, a new QUIC flow. *)
Sheds(w, ws, u, ids, time) ==
  /\ WsInv(w, u) /\ WorkerEffect(ws, u, ids, {}, time) /\ u.dns = ws.dns
  /\ u.table.next_session_id = ws.table.next_session_id
  /\ \A f : OnFlow(ws.table, u.table, f)

LEMMA RemoveSessionsStep ==
  ASSUME NEW w, NEW ws, NEW u, NEW ids, NEW time, WsInv(w, ws),
         ids \subseteq DOMAIN ws.table.sessions,
         u = [ws EXCEPT !.table = RemoveSessions(ws.table, ids, time)]
  PROVE  Sheds(w, ws, u, ids, time)
<1> DEFINE t2 == RemoveSessions(ws.table, ids, time)
<1>1. TableInv(ws.table, Share(w)) /\ IsWorker(ws) BY Zenon DEF WsInv
<1>2. Removes(ws.table, t2, Share(w), ids, time) BY <1>1, RemoveSessionsEffect, Zenon
<1>3. IsWorker(u) /\ u.table = t2 /\ u.dns = ws.dns BY <1>1, WithTable
<1> HIDE DEF t2
<1>4. /\ TableInv(t2, Share(w)) /\ TableEffect(ws.table, t2, ids, {}, time)
      /\ (\A f : OnFlow(ws.table, t2, f)) /\ t2.next_session_id = ws.table.next_session_id
      /\ OfSessions(ws.table, t2, ids, {})
  BY <1>2, Zenon DEF Removes, OfSessions
<1>5. WsInv(w, u) /\ WorkerEffect(ws, u, ids, {}, time) BY <1>3, <1>4, TableStep, Zenon
<1> QED BY <1>3, <1>4, <1>5, Zenon DEF Sheds

LEMMA DeliverStep ==
  ASSUME NEW w, NEW ws, NEW u, NEW id, NEW flag, NEW time, NEW c, WsInv(w, ws),
         id \in DOMAIN ws.table.sessions,
         c = ws.table \/ \E io : c = CorrectInterceptIo(ws.table, id, io),
         u = [ws EXCEPT !.table = TouchTcp(c, id, flag, TRUE, time)]
  PROVE  Sheds(w, ws, u, {}, time)
<1> DEFINE t2 == TouchTcp(c, id, flag, TRUE, time)
<1>1. TableInv(ws.table, Share(w)) /\ IsWorker(ws) BY Zenon DEF WsInv
<1>2. Corrects(ws.table, c, Share(w))
  <2>1. CASE c = ws.table BY <1>1, <2>1, Zenon DEF Corrects, OnFlow
  <2>2. CASE \E io : c = CorrectInterceptIo(ws.table, id, io)
    <3>1. PICK io : c = CorrectInterceptIo(ws.table, id, io) BY <2>2, Zenon
    <3> QED BY <1>1, <3>1, CorrectEffect, Zenon
  <2> QED BY <2>1, <2>2, Zenon
<1>3. TableInv(c, Share(w)) /\ id \in DOMAIN c.sessions BY <1>2, Zenon DEF Corrects
<1>4. Touches(c, t2, Share(w), time) BY <1>3, TouchEffect, Zenon
<1>5. IsWorker(u) /\ u.table = t2 /\ u.dns = ws.dns BY <1>1, WithTable
<1> HIDE DEF t2
<1>6. /\ t2.nat = ws.table.nat /\ DOMAIN t2.sessions = DOMAIN ws.table.sessions
      /\ t2.next_session_id = ws.table.next_session_id
      /\ \A i \in DOMAIN ws.table.sessions : t2.sessions[i].original = ws.table.sessions[i].original
      /\ OfSessions(ws.table, t2, {}, {}) /\ TableInv(t2, Share(w))
  BY <1>2, <1>4, Zenon DEF Corrects, Touches, OfSessions
<1>7. \A f : OnFlow(ws.table, t2, f) BY <1>2, <1>4, Zenon DEF Corrects, Touches, OnFlow
<1>8. TableEffect(ws.table, t2, {}, {}, time) BY <1>6, SessionsStay, Zenon
<1>9. WsInv(w, u) /\ WorkerEffect(ws, u, {}, {}, time) BY <1>5, <1>6, <1>8, TableStep, Zenon
<1> QED BY <1>5, <1>6, <1>7, <1>9, Zenon DEF Sheds

Reconnected(ws, old, f) == [ws EXCEPT !.table = RebindQuicFlow(ws.table, old, f)]

Closes(w, ws, u, qs, tokens, f, time) ==
  /\ WsInv(w, u) /\ WorkerEffect(ws, u, tokens, {}, time)
  /\ u.dns.next_token = ws.dns.next_token
  /\ DOMAIN u.dns.by_key = DOMAIN ws.dns.by_key \ qs
  /\ u.table.next_session_id = ws.table.next_session_id
  /\ \A id \in DOMAIN u.table.sessions : u.table.sessions[id].quic_flow_id = f

LEMMA ClosedStep ==
  ASSUME NEW w \in Workers, NEW ws, NEW kept, NEW u, NEW qs, NEW time, NEW tokens, NEW old, NEW f,
         WsInv(w, ws), qs \subseteq DOMAIN ws.dns.by_key,
         kept = RemoveTransactions(ws, qs, time), tokens = TokensOf(ws, qs),
         u = Reconnected(kept, old, f),
         \A id \in DOMAIN ws.table.sessions : ws.table.sessions[id].quic_flow_id = old
  PROVE  Closes(w, ws, u, qs, tokens, f, time)
<1> DEFINE t2 == RebindQuicFlow(kept.table, old, f)
<1>1. /\ WsInv(w, kept) /\ WorkerEffect(ws, kept, tokens, {}, time)
      /\ DOMAIN kept.dns.by_key = DOMAIN ws.dns.by_key \ qs
      /\ kept.dns.next_token = ws.dns.next_token
      /\ kept.table.sessions = ws.table.sessions
      /\ kept.table.next_session_id = ws.table.next_session_id
  <2>1. Ends(w, ws, kept, qs, tokens, time) BY RemoveTransactionsStep, Zenon
  <2> QED BY <2>1, Zenon DEF Ends
<1>2. TableInv(kept.table, Share(w)) /\ IsWorker(kept) BY <1>1, Zenon DEF WsInv
<1>3. MovesFlow(kept.table, t2, Share(w), old, f, time) BY <1>2, RebindEffect, Zenon
<1>4. IsWorker(u) /\ u.table = t2 /\ u.dns = kept.dns BY <1>2, WithTable DEF Reconnected
<1> HIDE DEF t2
<1>5. /\ TableInv(t2, Share(w)) /\ TableEffect(kept.table, t2, {}, {}, time)
      /\ OfSessions(kept.table, t2, {}, {}) /\ t2.nat = kept.table.nat
      /\ t2.next_session_id = kept.table.next_session_id
      /\ DOMAIN t2.sessions = DOMAIN kept.table.sessions
      /\ \A i \in DOMAIN kept.table.sessions :
           kept.table.sessions[i].quic_flow_id = old => t2.sessions[i].quic_flow_id = f
  BY <1>3, Zenon DEF MovesFlow, OfSessions
<1>6. WsInv(w, u) BY <1>1, <1>4, <1>5, TableStep, Zenon
<1>7. \A i \in DOMAIN t2.sessions : t2.sessions[i].original = kept.table.sessions[i].original
  BY <1>5, Zenon DEF TableEffect, Resumes
<1>8. WorkerEffect(ws, u, tokens, {}, time)
  <2>1. Rebinds(ws.table.nat, t2.nat, tokens, {}) /\ Quarantines(ws.table.nat, t2.nat, tokens, time)
    BY <1>1, <1>5, Zenon DEF WorkerEffect, TableEffect
  <2>2. Resumes(ws.table, t2, tokens, {})
    BY <1>1, <1>5, <1>7, ZenonT(30) DEF WorkerEffect, TableEffect, Resumes
  <2>3. DnsEffect(ws.dns, u.dns, tokens, {}) BY <1>1, <1>4, Zenon DEF WorkerEffect
  <2> QED BY <1>4, <2>1, <2>2, <2>3, Zenon DEF WorkerEffect, TableEffect
<1>9. \A id \in DOMAIN u.table.sessions : u.table.sessions[id].quic_flow_id = f
  BY <1>1, <1>4, <1>5
<1> QED BY <1>1, <1>4, <1>5, <1>6, <1>8, <1>9, Zenon DEF Closes

-----------------------------------------------------------------------------
(* What the steps of a worker do to the state. *)

WorkerStep(w, u, gone, new) ==
  /\ workers' = [workers EXCEPT ![w] = u]
  /\ WsInv(w, u) /\ CountInv(u) /\ WorkerEffect(workers[w], u, gone, new, now)

Publishes(w, key, id) ==
  CanPublish(key, Locator(w, id)) /\ directory' = Put(directory, key, Locator(w, id))

SameDirectory ==
  DOMAIN directory' = DOMAIN directory /\ \A k \in DOMAIN directory : directory'[k] = directory[k]

(* Everything bound is published; what is released is retired, unless it   *)
(* is silenced.                                                            *)
DirStep(w, u, gone, new) ==
  \/ gone = {} /\ new = {} /\ SameDirectory
  \/ new = {} /\ directory' = Retired(w, gone)
  \/ new = {} /\ directory' = directory /\ \A id \in gone : <<w, id>> \in silenced'
  \/ gone = {} /\ \E id : new = {id} /\ Publishes(w, BindingKey(u.table.nat.forward[id]), id)

(* A packet of a client's flow: the worker's sessions afterwards. *)
SessionStep(w, u, new, flow) ==
  /\ WorkerStep(w, u, {}, new) /\ DirStep(w, u, {}, new) /\ u.dns = workers[w].dns
  /\ OnFlow(workers[w].table, u.table, quic_flow[w])
  /\ \A id \in new : id \in DOMAIN u.table.sessions => u.table.sessions[id].original = flow

LEMMA OpenSessionStep ==
  ASSUME WorkersInv, BindingsReachable, NEW w \in Workers, NEW flow, NEW flag, NEW r,
         r = SessionFor(w, flow, flag), OpenSession(w, flow, r)
  PROVE  \E u, new : SessionStep(w, u, new, flow)
<1> DEFINE ws == workers[w]
           u  == [ws EXCEPT !.table = r.table]
           v  == [ws EXCEPT !.table = RemoveSessions(r.table, {r.id}, now)]
           key == BindingKey(r.table.nat.forward[r.id])
<1>1. /\ WsInv(w, ws) /\ CountInv(ws) /\ IsWorker(ws) /\ DOMAIN workers = Workers
      /\ MaxSessions \in Nat /\ ws.table.next_session_id \in 1..(MaxSessions + 1)
  BY FlowPlaneAssumption, Zenon DEF WorkersInv, WsInv, CountInv
<1>2. IsWorker(u) /\ u.table = r.table /\ u.dns = ws.dns BY <1>1, WithTable
<1>3. IsWorker(v) /\ v.table = RemoveSessions(u.table, {r.id}, now) /\ v.dns = ws.dns
  BY <1>1, <1>2, WithTable
<1>4. \/ workers' = [workers EXCEPT ![w] = u] /\ UNCHANGED directory /\ r.id = NoSession
      \/ /\ workers' = [workers EXCEPT ![w] = u] /\ r.id # NoSession
         /\ Publishes(w, key, r.id)
      \/ /\ workers' = [workers EXCEPT ![w] = v] /\ UNCHANGED directory /\ r.id # NoSession
         /\ ~CanPublish(key, Locator(w, r.id))
  BY Zenon DEF OpenSession, PublishSession, Publishes
<1> HIDE DEF u, v
<1>5. /\ WsInv(w, u) /\ OnFlow(ws.table, u.table, quic_flow[w])
      /\ \/ NotCreated(ws, u, r, now) \/ Touched(ws, u, r, now) \/ Created(ws, u, r, flow, now)
  <2>1. r = GetOrCreate(ws.table, w, flow, Io, quic_flow[w], flag, now) BY Zenon DEF SessionFor
  <2>2. Serves(w, ws, u, r, flow, quic_flow[w], now) BY <1>1, <1>2, <2>1, SessionForStep, Zenon
  <2> QED BY <2>2, Zenon DEF Serves
<1>6. CASE NotCreated(ws, u, r, now)
  <2>1. /\ r.id = NoSession /\ WorkerEffect(ws, u, {}, {}, now)
        /\ u.table.next_session_id = ws.table.next_session_id
    BY <1>6, Zenon DEF NotCreated
  <2>2. CountInv(u) BY <1>1, <2>1, CountStep
  <2>3. workers' = [workers EXCEPT ![w] = u] /\ UNCHANGED directory BY <1>4, <2>1, Zenon
  <2>4. SessionStep(w, u, {}, flow)
    BY <1>2, <1>5, <2>1, <2>2, <2>3, Zenon DEF SessionStep, WorkerStep, DirStep, SameDirectory
  <2> QED BY <2>4, Zenon
<1>7. CASE Touched(ws, u, r, now)
  <2>1. /\ r.id # NoSession /\ WorkerEffect(ws, u, {}, {}, now)
        /\ u.table.next_session_id = ws.table.next_session_id
        /\ r.id \in DOMAIN ws.table.sessions /\ u.table.nat = ws.table.nat
    BY <1>7, Zenon DEF Touched
  <2>2. CountInv(u) BY <1>1, <2>1, CountStep
  <2>3. r.id \in DOMAIN ws.table.nat.forward BY <1>1, <2>1, Holders, Zenon
  <2>4. key = TupleOf(w, r.id) BY <1>2, <2>1, Zenon DEF TupleOf
  <2>5. key \in DOMAIN directory /\ directory[key] = Locator(w, r.id)
    BY <2>3, <2>4, Zenon DEF BindingsReachable
  <2> HIDE DEF key
  <2>6. workers' = [workers EXCEPT ![w] = u] /\ Publishes(w, key, r.id)
    BY <1>4, <2>1, <2>5, Zenon DEF CanPublish
  <2>7. SameDirectory BY <2>5, <2>6, Zenon DEF Publishes, Put, SameDirectory
  <2>8. SessionStep(w, u, {}, flow)
    BY <1>2, <1>5, <2>1, <2>2, <2>6, <2>7, Zenon DEF SessionStep, WorkerStep, DirStep
  <2> QED BY <2>8, Zenon
<1>8. CASE Created(ws, u, r, flow, now)
  <2>1. /\ r.id # NoSession /\ WorkerEffect(ws, u, {}, {r.id}, now)
        /\ u.table.next_session_id = ws.table.next_session_id + 1
        /\ u.table.sessions[r.id].original = flow
        /\ ws.table.next_session_id <= MaxSessions
    BY <1>8, Zenon DEF Created, OpenSession
  <2>2. ws.table.next_session_id + 1 <= MaxSessions + 1 BY <1>1, <2>1
  <2>3. CASE workers' = [workers EXCEPT ![w] = u] /\ Publishes(w, key, r.id)
    <3>1. CountInv(u) BY <1>1, <2>1, <2>2, CountStep, Zenon
    <3>2. Publishes(w, BindingKey(u.table.nat.forward[r.id]), r.id) BY <1>2, <2>3, Zenon
    <3>3. WorkerStep(w, u, {}, {r.id}) BY <1>5, <2>1, <2>3, <3>1, Zenon DEF WorkerStep
    <3>4. DirStep(w, u, {}, {r.id}) BY <3>2, Zenon DEF DirStep
    <3>5. SessionStep(w, u, {r.id}, flow) BY <1>2, <1>5, <2>1, <3>3, <3>4, Zenon DEF SessionStep
    <3> QED BY <3>5, Zenon
  <2>4. CASE workers' = [workers EXCEPT ![w] = v] /\ UNCHANGED directory
    <3>1. /\ WsInv(w, v) /\ WorkerEffect(ws, v, {}, {}, now)
          /\ OnFlow(ws.table, v.table, quic_flow[w])
          /\ v.table.next_session_id = ws.table.next_session_id + 1
      <4>1. TakenBack(ws, u, v, r, now) BY <1>3, Zenon DEF TakenBack
      <4>2. Uncreated(w, ws, v, quic_flow[w], now)
        BY <1>1, <1>2, <1>5, <1>8, <4>1, UncreateStep, Zenon
      <4> QED BY <4>2, Zenon DEF Uncreated
    <3>2. CountInv(v) BY <1>1, <2>2, <3>1, CountStep, Zenon
    <3>3. WorkerStep(w, v, {}, {}) BY <2>4, <3>1, <3>2, Zenon DEF WorkerStep
    <3>4. DirStep(w, v, {}, {}) BY <2>4, Zenon DEF DirStep, SameDirectory
    <3>5. SessionStep(w, v, {}, flow) BY <1>3, <3>1, <3>3, <3>4, Zenon DEF SessionStep
    <3> QED BY <3>5, Zenon
  <2> QED BY <1>4, <2>1, <2>3, <2>4, ZenonT(30)
<1> QED BY <1>5, <1>6, <1>7, <1>8, Zenon

SessionsGood(ws, f) ==
  \A id \in DOMAIN ws.table.sessions :
    ws.table.sessions[id].original \in Flows /\ ws.table.sessions[id].quic_flow_id = f

(* The tokens a step gives out or ends, and the answers for those it ends. *)
AnswerStep(w, u, gone) ==
  \/ u.dns = workers[w].dns /\ UNCHANGED <<answers, silenced>>
  \/ /\ Tokens(u) = Tokens(workers[w]) \cup {Token(workers[w])}
     /\ u.dns.next_token = workers[w].dns.next_token + 1 /\ UNCHANGED <<answers, silenced>>
  \/ /\ Tokens(u) = Tokens(workers[w]) /\ u.dns.next_token = workers[w].dns.next_token + 1
     /\ answers' = Answered(w, {Token(workers[w])}) /\ UNCHANGED silenced
  \/ /\ gone \subseteq Tokens(workers[w]) /\ Tokens(u) = Tokens(workers[w]) \ gone
     /\ u.dns.next_token = workers[w].dns.next_token
     /\ answers' = Answered(w, gone) /\ UNCHANGED silenced
  \/ /\ gone \subseteq Tokens(workers[w]) /\ Tokens(u) = Tokens(workers[w]) \ gone
     /\ u.dns.next_token = workers[w].dns.next_token
     /\ UNCHANGED answers /\ silenced' = silenced \cup {<<w, id>> : id \in gone}

Moves(w, u, gone, new) ==
  /\ WorkerStep(w, u, gone, new) /\ DirStep(w, u, gone, new) /\ AnswerStep(w, u, gone)
  /\ SessionsGood(u, quic_flow'[w])
  /\ retiring'[w] = NoSession \/ retiring'[w] \in DOMAIN u.table.sessions

Stays == UNCHANGED <<workers, directory, answers, silenced, quic_flow, retiring>>

(* A step of worker w. *)
Progress(w) ==
  \/ Stays
  \/ /\ \E u, gone, new : Moves(w, u, gone, new)
     /\ DOMAIN quic_flow' = Workers /\ DOMAIN retiring' = Workers
     /\ \A v \in Workers \ {w} : quic_flow'[v] = quic_flow[v] /\ retiring'[v] = retiring[v]

StateInv == WorkersInv /\ SessionsInv /\ DirInv /\ AnswerInv

LEMMA SessionsStayGood ==
  ASSUME NEW ws, NEW u, NEW gone, NEW new, NEW time, NEW f, SessionsGood(ws, f),
         WorkerEffect(ws, u, gone, new, time), OnFlow(ws.table, u.table, f),
         \A id \in new : id \in DOMAIN u.table.sessions => u.table.sessions[id].original \in Flows
  PROVE  SessionsGood(u, f)
BY Zenon DEF SessionsGood, WorkerEffect, TableEffect, Resumes, OnFlow

LEMMA StateFacts ==
  ASSUME StateInv, NEW w \in Workers
  PROVE  /\ WsInv(w, workers[w]) /\ CountInv(workers[w]) /\ SessionsGood(workers[w], quic_flow[w])
         /\ BindingsReachable /\ DOMAIN workers = Workers /\ IsWorker(workers[w])
         /\ workers[w].table.next_session_id <= MaxSessions + 1
         /\ DOMAIN quic_flow = Workers /\ DOMAIN retiring = Workers
         /\ retiring[w] = NoSession \/ retiring[w] \in DOMAIN workers[w].table.sessions
<1>1. /\ WsInv(w, workers[w]) /\ CountInv(workers[w]) /\ DOMAIN workers = Workers
      /\ DOMAIN quic_flow = Workers /\ DOMAIN retiring = Workers
      /\ retiring[w] = NoSession \/ retiring[w] \in DOMAIN workers[w].table.sessions
  BY Zenon DEF StateInv, WorkersInv, Idle
<1>2. SessionsGood(workers[w], quic_flow[w]) BY Zenon DEF StateInv, SessionsInv, SessionsGood
<1>3. workers[w].table.next_session_id <= MaxSessions + 1
  BY <1>1, FlowPlaneAssumption DEF CountInv
<1> QED BY <1>1, <1>2, <1>3, Zenon DEF StateInv, DirInv, WsInv

LEMMA SessionProgress ==
  ASSUME StateInv, NEW w \in Workers, NEW flow \in Flows, NEW flag,
         OpenSession(w, flow, SessionFor(w, flow, flag)),
         UNCHANGED <<quic_flow, answers, silenced>>,
         \/ UNCHANGED retiring
         \/ \E id \in DOMAIN workers'[w].table.sessions : retiring' = [retiring EXCEPT ![w] = id]
  PROVE  Progress(w)
<1>1. /\ WsInv(w, workers[w]) /\ SessionsGood(workers[w], quic_flow[w])
      /\ BindingsReachable /\ DOMAIN workers = Workers
      /\ DOMAIN quic_flow = Workers /\ DOMAIN retiring = Workers
      /\ retiring[w] = NoSession \/ retiring[w] \in DOMAIN workers[w].table.sessions
  BY StateFacts, Zenon
<1>2. PICK u, new : SessionStep(w, u, new, flow) BY <1>1, OpenSessionStep, Zenon DEF StateInv
<1>3. /\ WorkerStep(w, u, {}, new) /\ DirStep(w, u, {}, new) /\ u.dns = workers[w].dns
      /\ OnFlow(workers[w].table, u.table, quic_flow[w])
      /\ \A id \in new : id \in DOMAIN u.table.sessions => u.table.sessions[id].original = flow
      /\ workers'[w] = u /\ WorkerEffect(workers[w], u, {}, new, now)
  BY <1>1, <1>2, Zenon DEF SessionStep, WorkerStep
<1>4. SessionsGood(u, quic_flow[w])
  <2>1. \A id \in new : id \in DOMAIN u.table.sessions => u.table.sessions[id].original \in Flows
    BY <1>3, Zenon
  <2> QED BY <1>1, <1>3, <2>1, SessionsStayGood, Zenon
<1>5. AnswerStep(w, u, {}) BY <1>3, Zenon DEF AnswerStep
<1>6. /\ retiring'[w] = NoSession \/ retiring'[w] \in DOMAIN u.table.sessions
      /\ DOMAIN retiring' = Workers /\ \A v \in Workers \ {w} : retiring'[v] = retiring[v]
  <2>1. DOMAIN workers[w].table.sessions \subseteq DOMAIN u.table.sessions
    BY <1>3, Zenon DEF WorkerEffect, TableEffect, Resumes
  <2> QED BY <1>1, <1>3, <2>1, Zenon
<1>7. Moves(w, u, {}, new) BY <1>3, <1>4, <1>5, <1>6, Zenon DEF Moves
<1> QED BY <1>1, <1>6, <1>7, Zenon DEF Progress

LEMMA ShedProgress ==
  ASSUME StateInv, NEW w \in Workers, NEW u, NEW ids, Sheds(w, workers[w], u, ids, now),
         workers' = [workers EXCEPT ![w] = u], UNCHANGED <<quic_flow, answers, silenced>>,
         directory' = Retired(w, ids) \/ (ids = {} /\ UNCHANGED directory),
         \/ Idle(w) /\ UNCHANGED retiring
         \/ retiring' = [retiring EXCEPT ![w] = NoSession]
  PROVE  Progress(w)
<1>1. /\ CountInv(workers[w]) /\ SessionsGood(workers[w], quic_flow[w])
      /\ workers[w].table.next_session_id <= MaxSessions + 1
      /\ DOMAIN workers = Workers /\ DOMAIN quic_flow = Workers /\ DOMAIN retiring = Workers
  BY StateFacts, Zenon
<1>2. /\ WsInv(w, u) /\ WorkerEffect(workers[w], u, ids, {}, now) /\ u.dns = workers[w].dns
      /\ u.table.next_session_id <= MaxSessions + 1
      /\ OnFlow(workers[w].table, u.table, quic_flow[w])
  BY <1>1, Zenon DEF Sheds
<1>3. CountInv(u) BY <1>1, <1>2, CountStep, Zenon
<1>4. SessionsGood(u, quic_flow[w]) BY <1>1, <1>2, SessionsStayGood, Zenon
<1>5. WorkerStep(w, u, ids, {}) BY <1>2, <1>3, Zenon DEF WorkerStep
<1>6. DirStep(w, u, ids, {}) BY Zenon DEF DirStep, SameDirectory
<1>7. AnswerStep(w, u, ids) BY <1>2, Zenon DEF AnswerStep
<1>8. /\ retiring'[w] = NoSession /\ DOMAIN retiring' = Workers
      /\ \A v \in Workers \ {w} : retiring'[v] = retiring[v]
  BY <1>1, Zenon DEF Idle
<1>9. Moves(w, u, ids, {}) BY <1>4, <1>5, <1>6, <1>7, <1>8, Zenon DEF Moves
<1> QED BY <1>1, <1>8, <1>9, Zenon DEF Progress

LEMMA RetireProgress ==
  ASSUME StateInv, NEW w \in Workers, RetireSession(w)
  PROVE  Progress(w)
<1> DEFINE ids == {retiring[w]}
           u   == [workers[w] EXCEPT !.table = RemoveSessions(workers[w].table, ids, now)]
<1>1. /\ WsInv(w, workers[w]) /\ ids \subseteq DOMAIN workers[w].table.sessions
      /\ DOMAIN workers = Workers
  BY StateFacts, Zenon DEF RetireSession, Idle
<1>2. /\ workers' = [workers EXCEPT ![w] = u] /\ directory' = Retired(w, ids)
      /\ UNCHANGED <<quic_flow, answers, silenced>>
      /\ retiring' = [retiring EXCEPT ![w] = NoSession]
  BY <1>1, Zenon DEF RetireSession, history
<1> HIDE DEF ids
<1>3. Sheds(w, workers[w], u, ids, now) BY <1>1, RemoveSessionsStep, Zenon
<1> HIDE DEF u
<1> QED BY <1>2, <1>3, ShedProgress, Zenon

LEMMA ExpireIdleProgress ==
  ASSUME StateInv, NEW w \in Workers, ExpireIdle(w)
  PROVE  Progress(w)
<1> DEFINE ids == Lapsed(workers[w].table, now)
           u   == [workers[w] EXCEPT !.table = RemoveSessions(workers[w].table, ids, now)]
<1>1. /\ WsInv(w, workers[w]) /\ ids \subseteq DOMAIN workers[w].table.sessions
      /\ DOMAIN workers = Workers
  BY StateFacts, Zenon DEF Lapsed
<1>2. /\ workers' = [workers EXCEPT ![w] = u] /\ directory' = Retired(w, ids)
      /\ UNCHANGED <<quic_flow, answers, silenced, retiring>> /\ Idle(w)
  BY <1>1, Zenon DEF ExpireIdle, history
<1> HIDE DEF ids
<1>3. Sheds(w, workers[w], u, ids, now) BY <1>1, RemoveSessionsStep, Zenon
<1> HIDE DEF u
<1> QED BY <1>2, <1>3, ShedProgress, Zenon

LEMMA TokensEffect ==
  ASSUME NEW ws, NEW u, NEW gone, NEW time, WorkerEffect(ws, u, gone, {}, time)
  PROVE  Tokens(u) = Tokens(ws) \ gone
<1>1. DnsEffect(ws.dns, u.dns, gone, {}) BY Zenon DEF WorkerEffect
<1> QED BY <1>1, Zenon DEF DnsEffect, Tokens

(* The end of transactions, with an answer to each or without. *)
LEMMA TransactionsProgress ==
  ASSUME StateInv, NEW w \in Workers, Idle(w), NEW qs, qs \subseteq DOMAIN workers[w].dns.by_key,
         NEW tokens, tokens = TokensOf(workers[w], qs),
         workers' = [workers EXCEPT ![w] = RemoveTransactions(workers[w], qs, now)],
         directory' = Retired(w, tokens), answers' = Answered(w, tokens),
         UNCHANGED <<quic_flow, retiring, silenced>>
  PROVE  Progress(w)
<1> DEFINE u == RemoveTransactions(workers[w], qs, now)
<1>1. /\ WsInv(w, workers[w]) /\ CountInv(workers[w]) /\ SessionsGood(workers[w], quic_flow[w])
      /\ workers[w].table.next_session_id <= MaxSessions + 1
      /\ DOMAIN workers = Workers /\ DOMAIN quic_flow = Workers /\ DOMAIN retiring = Workers
  BY StateFacts, Zenon
<1>2. /\ WsInv(w, u) /\ WorkerEffect(workers[w], u, tokens, {}, now)
      /\ u.dns.next_token = workers[w].dns.next_token
      /\ u.table.next_session_id = workers[w].table.next_session_id
      /\ u.table.sessions = workers[w].table.sessions
  <2>1. Ends(w, workers[w], u, qs, tokens, now) BY <1>1, RemoveTransactionsStep, Zenon
  <2> HIDE DEF u
  <2> QED BY <2>1, Zenon DEF Ends
<1> HIDE DEF u
<1>3. CountInv(u) BY <1>1, <1>2, CountStep, Zenon
<1>4. SessionsGood(u, quic_flow[w]) BY <1>1, <1>2, Zenon DEF SessionsGood
<1>5. tokens \subseteq Tokens(workers[w]) /\ Tokens(u) = Tokens(workers[w]) \ tokens
  <2>1. tokens \subseteq Tokens(workers[w]) BY Zenon DEF Tokens, TokensOf
  <2> QED BY <1>2, <2>1, TokensEffect, ZenonT(30)
<1>6. WorkerStep(w, u, tokens, {}) BY <1>2, <1>3, Zenon DEF WorkerStep, u
<1>7. DirStep(w, u, tokens, {}) BY Zenon DEF DirStep
<1>8. AnswerStep(w, u, tokens) BY <1>2, <1>5, Zenon DEF AnswerStep
<1>9. Moves(w, u, tokens, {}) BY <1>4, <1>6, <1>7, <1>8, Zenon DEF Moves, Idle
<1> QED BY <1>1, <1>9, Zenon DEF Progress

LEMMA ExpireDnsProgress ==
  ASSUME StateInv, NEW w \in Workers, ExpireDns(w)
  PROVE  Progress(w)
<1> DEFINE qs     == LapsedQueries(workers[w], now)
           tokens == TokensOf(workers[w], qs)
<1>1. qs \subseteq DOMAIN workers[w].dns.by_key BY Zenon DEF LapsedQueries
<1>2. /\ workers' = [workers EXCEPT ![w] = RemoveTransactions(workers[w], qs, now)]
      /\ directory' = Retired(w, tokens) /\ answers' = Answered(w, tokens)
      /\ UNCHANGED <<quic_flow, retiring, silenced>> /\ Idle(w)
  BY StateFacts, Zenon DEF ExpireDns, TokensOf
<1> HIDE DEF qs, tokens
<1>3. tokens = TokensOf(workers[w], qs) BY Zenon DEF tokens
<1> QED BY <1>1, <1>2, <1>3, TransactionsProgress, Zenon

LEMMA DnsResponseProgress ==
  ASSUME StateInv, NEW w \in Workers, NEW p, p.key \in DOMAIN workers[w].dns.by_reverse, Idle(w),
         DnsResponse(w, p), UNCHANGED <<quic_flow, retiring, silenced>>
  PROVE  Progress(w)
<1> DEFINE q      == workers[w].dns.by_reverse[p.key]
           qs     == {q}
           tokens == TokensOf(workers[w], qs)
<1>1. qs \subseteq DOMAIN workers[w].dns.by_key
  <2>1. DnsConsistent(workers[w]) BY StateFacts, Zenon DEF WsInv
  <2> QED BY <2>1, Zenon DEF DnsConsistent
<1>2. tokens = {workers[w].dns.by_key[q].token} BY Zenon DEF TokensOf
<1>3. CASE ResponseMatches(p, q)
  <2>1. /\ workers' = [workers EXCEPT ![w] = RemoveTransactions(workers[w], qs, now)]
        /\ directory' = Retired(w, tokens) /\ answers' = Answered(w, tokens)
    BY <1>2, <1>3, StateFacts, Zenon DEF DnsResponse
  <2> HIDE DEF qs, tokens
  <2>2. tokens = TokensOf(workers[w], qs) BY Zenon DEF tokens
  <2> QED BY <1>1, <2>1, <2>2, TransactionsProgress, Zenon
<1>4. CASE ~ResponseMatches(p, q)
  <2>1. Stays BY <1>4, Zenon DEF DnsResponse, Stays
  <2> QED BY <2>1, Zenon DEF Progress
<1> QED BY <1>3, <1>4, Zenon

LEMMA ReverseForProgress ==
  ASSUME StateInv, NEW w \in Workers, NEW p, NEW expected, NEW observed, NEW flag, Idle(w),
         ReverseFor(w, p, expected, observed, flag), UNCHANGED <<quic_flow, retiring, silenced>>
  PROVE  Progress(w)
<1> DEFINE ws == workers[w]
           id == expected.session_id
           c  == IF observed = {} THEN ws.table
                 ELSE CorrectInterceptIo(ws.table, id, CHOOSE io \in observed : TRUE)
           u  == [ws EXCEPT !.table = TouchTcp(c, id, flag, TRUE, now)]
<1>1. WsInv(w, ws) /\ DOMAIN workers = Workers BY StateFacts, Zenon
<1>2. CASE /\ id \in DOMAIN ws.table.sessions /\ workers' = [workers EXCEPT ![w] = u]
  <2>1. c = ws.table \/ \E io : c = CorrectInterceptIo(ws.table, id, io) BY Zenon
  <2> HIDE DEF c
  <2>2. Sheds(w, ws, u, {}, now) BY <1>1, <1>2, <2>1, DeliverStep, Zenon
  <2>3. UNCHANGED <<directory, answers>> BY Zenon DEF ReverseFor
  <2> HIDE DEF u
  <2> QED BY <1>2, <2>2, <2>3, ShedProgress, Zenon
<1>3. CASE UNCHANGED workers
  <2>1. Stays BY <1>3, Zenon DEF ReverseFor, Stays
  <2> QED BY <2>1, Zenon DEF Progress
<1>4. CASE expected \in ReverseLocator(ws.table, w, p.key) /\ Deliver(w, id, p, observed, flag)
  <2>1. id \in DOMAIN ws.table.sessions BY <1>4, Zenon DEF ReverseLocator
  <2>2. workers' = [workers EXCEPT ![w] = u] \/ UNCHANGED workers BY <1>1, <1>4, Zenon DEF Deliver
  <2> QED BY <1>2, <1>3, <2>1, <2>2, ZenonT(30)
<1> QED BY <1>3, <1>4, Zenon DEF ReverseFor

LEMMA ClosedProgress ==
  ASSUME StateInv, NEW w \in Workers, Closed(w)
  PROVE  Progress(w)
<1> DEFINE ws     == workers[w]
           old    == quic_flow[w]
           f      == quic_flow[w] + WorkerCount
           qs     == RemoteQueries(ws)
           tokens == TokensOf(ws, qs)
           kept   == RemoveTransactions(ws, qs, now)
           u      == Reconnected(kept, old, f)
<1>1. /\ WsInv(w, ws) /\ CountInv(ws) /\ SessionsGood(ws, old)
      /\ ws.table.next_session_id <= MaxSessions + 1
      /\ DOMAIN workers = Workers /\ DOMAIN quic_flow = Workers /\ DOMAIN retiring = Workers
  BY StateFacts, Zenon
<1>2. qs \subseteq DOMAIN ws.dns.by_key BY Zenon DEF RemoteQueries
<1>3. /\ workers' = [workers EXCEPT ![w] = u] /\ UNCHANGED <<retiring, directory, answers>>
      /\ quic_flow' = [quic_flow EXCEPT ![w] = f] /\ Idle(w)
  BY <1>1, Zenon DEF Closed, Reconnected
<1>4. silenced' = silenced \cup {<<w, id>> : id \in tokens}
  <2>1. silenced' = silenced \cup {<<w, ws.dns.by_key[q].token>> : q \in qs} BY Zenon DEF Closed
  <2>2. {<<w, ws.dns.by_key[q].token>> : q \in qs} = {<<w, id>> : id \in tokens}
    BY Zenon DEF TokensOf
  <2> QED BY <2>1, <2>2, Zenon
<1> HIDE DEF qs, tokens, kept, f
<1>5. \A id \in DOMAIN ws.table.sessions : ws.table.sessions[id].quic_flow_id = old
  BY <1>1, Zenon DEF SessionsGood
<1>6. /\ WsInv(w, u) /\ WorkerEffect(ws, u, tokens, {}, now)
      /\ u.dns.next_token = ws.dns.next_token
      /\ u.table.next_session_id = ws.table.next_session_id
      /\ \A id \in DOMAIN u.table.sessions : u.table.sessions[id].quic_flow_id = f
  <2>1. kept = RemoveTransactions(ws, qs, now) /\ tokens = TokensOf(ws, qs)
    BY Zenon DEF kept, tokens
  <2>2. Closes(w, ws, u, qs, tokens, f, now) BY <1>1, <1>2, <1>5, <2>1, ClosedStep, Zenon
  <2> QED BY <2>2, Zenon DEF Closes
<1> HIDE DEF u
<1>7. CountInv(u) BY <1>1, <1>6, CountStep, Zenon
<1>8. SessionsGood(u, f)
  <2>1. \A id \in DOMAIN u.table.sessions :
          /\ id \in DOMAIN ws.table.sessions
          /\ u.table.sessions[id].original = ws.table.sessions[id].original
    BY <1>6, Zenon DEF WorkerEffect, TableEffect, Resumes
  <2> QED BY <1>1, <1>6, <2>1, Zenon DEF SessionsGood
<1>9. tokens \subseteq Tokens(ws) /\ Tokens(u) = Tokens(ws) \ tokens
  <2>1. tokens \subseteq Tokens(ws) BY <1>2, Zenon DEF Tokens, TokensOf, tokens
  <2> QED BY <1>6, <2>1, TokensEffect, Zenon
<1>10. WorkerStep(w, u, tokens, {}) BY <1>3, <1>6, <1>7, Zenon DEF WorkerStep
<1>11. DirStep(w, u, tokens, {}) BY <1>3, <1>4, Zenon DEF DirStep
<1>12. AnswerStep(w, u, tokens) BY <1>3, <1>4, <1>6, <1>9, Zenon DEF AnswerStep
<1>13. quic_flow'[w] = f /\ retiring'[w] = NoSession BY <1>1, <1>3, Zenon DEF Idle
<1>14. Moves(w, u, tokens, {}) BY <1>8, <1>10, <1>11, <1>12, <1>13, Zenon DEF Moves
<1> QED BY <1>1, <1>3, <1>14, Zenon DEF Progress

LEMMA OpenProgress ==
  ASSUME StateInv, NEW w \in Workers, NEW q, ~IsOpen(workers[w], q), OpenTransaction(w, q), Idle(w),
         UNCHANGED <<quic_flow, retiring, silenced>>
  PROVE  Progress(w)
<1> DEFINE ws    == workers[w]
           token == Token(workers[w])
           new   == Open(ws, w, q, now)
           key   == KeyOfTransaction(new.dns.by_key[q])
<1>1. /\ WsInv(w, ws) /\ CountInv(ws) /\ SessionsGood(ws, quic_flow[w])
      /\ ws.table.next_session_id <= MaxSessions + 1
      /\ DOMAIN workers = Workers /\ DOMAIN quic_flow = Workers /\ DOMAIN retiring = Workers
  BY StateFacts, Zenon
<1>2. ASSUME NEW u, NEW made, WorkerStep(w, u, {}, made), DirStep(w, u, {}, made),
             AnswerStep(w, u, {}), u.table.sessions = ws.table.sessions
      PROVE  Progress(w)
  <2>1. SessionsGood(u, quic_flow[w]) BY <1>1, <1>2, Zenon DEF SessionsGood
  <2>2. Moves(w, u, {}, made) BY <1>2, <2>1, Zenon DEF Moves, Idle
  <2> QED BY <1>1, <2>2, Zenon DEF Progress
<1>3. CASE ~CanOpen(ws, q, now)
  <2> DEFINE u == OpenFailed(ws, q, now)
  <2>1. /\ workers' = [workers EXCEPT ![w] = u] /\ answers' = Answered(w, {token})
        /\ UNCHANGED directory
    BY <1>3, Zenon DEF OpenTransaction
  <2>2. /\ WsInv(w, u) /\ WorkerEffect(ws, u, {}, {}, now)
        /\ u.dns.by_key = ws.dns.by_key /\ u.dns.next_token = ws.dns.next_token + 1
        /\ u.table.sessions = ws.table.sessions
        /\ u.table.next_session_id = ws.table.next_session_id
    <3>1. NotOpened(w, ws, u, now) BY <1>1, OpenFailedStep, Zenon
    <3> HIDE DEF u
    <3> QED BY <3>1, Zenon DEF NotOpened
  <2> HIDE DEF u
  <2>3. CountInv(u) BY <1>1, <2>2, CountStep, Zenon
  <2>4. Tokens(u) = Tokens(ws) BY <2>2, Zenon DEF Tokens
  <2>5. WorkerStep(w, u, {}, {}) BY <2>1, <2>2, <2>3, Zenon DEF WorkerStep
  <2>6. DirStep(w, u, {}, {}) BY <2>1, Zenon DEF DirStep, SameDirectory
  <2>7. AnswerStep(w, u, {}) BY <2>1, <2>2, <2>4, Zenon DEF AnswerStep
  <2> QED BY <1>2, <2>2, <2>5, <2>6, <2>7, Zenon
<1>4. CASE CanOpen(ws, q, now)
  <2>1. /\ WsInv(w, new) /\ WorkerEffect(ws, new, {}, {token}, now)
        /\ q \in DOMAIN new.dns.by_key /\ new.dns.by_key[q].token = token
        /\ DOMAIN new.dns.by_key = DOMAIN ws.dns.by_key \cup {q}
        /\ key = BindingKey(new.table.nat.forward[token])
        /\ new.dns.next_token = ws.dns.next_token + 1
        /\ new.table.sessions = ws.table.sessions
        /\ new.table.next_session_id = ws.table.next_session_id
    <3>1. Opens(w, ws, new, q, now) BY <1>1, <1>4, OpenStep, Zenon
    <3> HIDE DEF new
    <3> QED BY <3>1, Zenon DEF Opens
  <2>2. CASE CanPublish(key, Locator(w, token))
    <3>1. /\ workers' = [workers EXCEPT ![w] = new] /\ UNCHANGED answers
          /\ directory' = Put(directory, key, Locator(w, token))
      BY <1>4, <2>2, Zenon DEF OpenTransaction
    <3> HIDE DEF new
    <3>2. CountInv(new) BY <1>1, <2>1, CountStep, Zenon
    <3>3. Tokens(new) = Tokens(ws) \cup {token}
      <4>1. /\ \A k \in DOMAIN ws.dns.by_key :
                 k \in DOMAIN new.dns.by_key /\ new.dns.by_key[k] = ws.dns.by_key[k]
            /\ \A k \in DOMAIN new.dns.by_key :
                 \/ k \in DOMAIN ws.dns.by_key /\ new.dns.by_key[k] = ws.dns.by_key[k]
                 \/ new.dns.by_key[k].token \in {token}
        BY <2>1, Zenon DEF WorkerEffect, DnsEffect
      <4> HIDE DEF token
      <4>2. Tokens(new) \subseteq Tokens(ws) \cup {token} BY <4>1, Zenon DEF Tokens
      <4>3. token \in Tokens(new) BY <2>1, Zenon DEF Tokens
      <4>4. Tokens(ws) \subseteq Tokens(new) BY <4>1, Zenon DEF Tokens
      <4> QED BY <4>2, <4>3, <4>4, Zenon
    <3>4. WorkerStep(w, new, {}, {token}) BY <2>1, <3>1, <3>2, Zenon DEF WorkerStep
    <3>5. DirStep(w, new, {}, {token}) BY <2>1, <2>2, <3>1, Zenon DEF DirStep, Publishes
    <3>6. AnswerStep(w, new, {}) BY <2>1, <3>1, <3>3, Zenon DEF AnswerStep
    <3> QED BY <1>2, <2>1, <3>4, <3>5, <3>6, ZenonT(30)
  <2>3. CASE ~CanPublish(key, Locator(w, token))
    <3> DEFINE u  == RemoveTransactions(new, {q}, now)
    <3>1. /\ workers' = [workers EXCEPT ![w] = u] /\ answers' = Answered(w, {token})
          /\ UNCHANGED directory
      BY <1>4, <2>3, Zenon DEF OpenTransaction
    <3> HIDE DEF new
    <3>2. {token} = TokensOf(new, {q}) /\ {q} \subseteq DOMAIN new.dns.by_key
      BY <2>1, Zenon DEF TokensOf
    <3>3. /\ WsInv(w, u) /\ WorkerEffect(new, u, {token}, {}, now)
          /\ DOMAIN u.dns.by_key = DOMAIN new.dns.by_key \ {q}
          /\ u.dns.next_token = new.dns.next_token
          /\ u.table.sessions = new.table.sessions
          /\ u.table.next_session_id = new.table.next_session_id
      <4> DEFINE qs     == {q}
                 tokens == {token}
      <4>1. u = RemoveTransactions(new, qs, now) BY Zenon
      <4> HIDE DEF qs, tokens, u
      <4>2. Ends(w, new, u, qs, tokens, now)
        BY <2>1, <3>2, <4>1, RemoveTransactionsStep, Zenon DEF qs, tokens
      <4> QED BY <4>2, Zenon DEF Ends, qs, tokens
    <3> HIDE DEF u
    <3>4. WorkerEffect(ws, u, {}, {}, now) BY <1>1, <2>1, <3>3, UndoEffect, Zenon
    <3>5. CountInv(u) BY <1>1, <2>1, <3>3, <3>4, CountStep, ZenonT(30)
    <3>6. Tokens(u) = Tokens(ws) BY <3>4, TokensEffect
    <3>7. WorkerStep(w, u, {}, {}) BY <3>1, <3>3, <3>4, <3>5, ZenonT(30) DEF WorkerStep
    <3>8. DirStep(w, u, {}, {}) BY <3>1, Zenon DEF DirStep, SameDirectory
    <3>9. AnswerStep(w, u, {}) BY <2>1, <3>1, <3>3, <3>6, Zenon DEF AnswerStep
    <3> QED BY <1>2, <2>1, <3>3, <3>7, <3>8, <3>9, ZenonT(30)
  <2> QED BY <2>2, <2>3, Zenon
<1> QED BY <1>3, <1>4, Zenon

LEMMA MessagesAreSeq ==
  ASSUME NEW S, NEW s \in Seq(S)
  PROVE  IsSeq(s)
<1>1. \A i \in 1..Len(s) : s[i] \in Msgs(s) BY DEF Msgs
<1> QED BY <1>1 DEF IsSeq

LEMMA HeadTail ==
  ASSUME NEW s, IsSeq(s), s # <<>>
  PROVE  /\ Head(s) \in Msgs(s) /\ IsSeq(Tail(s)) /\ Msgs(Tail(s)) \subseteq Msgs(s)
<1>1. s \in Seq(Msgs(s)) BY Zenon DEF IsSeq
<1>2. Head(s) \in Msgs(s) /\ Tail(s) \in Seq(Msgs(s)) BY <1>1
<1>3. \A i \in DOMAIN Tail(s) : Tail(s)[i] \in Msgs(s) BY <1>2
<1> QED BY <1>2, <1>3, MessagesAreSeq, Zenon DEF Msgs

LEMMA Appended ==
  ASSUME NEW s, NEW m, IsSeq(s)
  PROVE  IsSeq(Append(s, m)) /\ Msgs(Append(s, m)) \subseteq Msgs(s) \cup {m}
<1> DEFINE S == Msgs(s) \cup {m}
<1>1. s \in Seq(S)
  <2>1. s \in Seq(Msgs(s)) BY Zenon DEF IsSeq
  <2> QED BY <2>1
<1>2. Append(s, m) \in Seq(S) BY <1>1
<1>3. \A i \in DOMAIN Append(s, m) : Append(s, m)[i] \in S BY <1>2
<1> HIDE DEF S
<1>4. IsSeq(Append(s, m)) BY <1>2, MessagesAreSeq, Zenon
<1> QED BY <1>3, <1>4, Zenon DEF Msgs, S

LEMMA HeadOfInbox ==
  ASSUME StateInv, NEW w \in Workers, NEW kind, Heads(w, kind)
  PROVE  Head(inbox[w]) \in Msgs(inbox[w]) /\ Head(inbox[w]).kind = kind
BY HeadTail, Zenon DEF StateInv, SessionsInv, Heads

(* Every step of a worker is one of those described. *)
LEMMA FlowProgress ==
  ASSUME StateInv, NEW w \in Workers, FlowStep(w)
  PROVE  Progress(w)
<1>1. CASE \E flow \in {f \in Flows : FlowOwner[f] = w} : \E flag \in FlagsOf(flow.proto) :
             ServerInner(w, flow, flag)
  <2>1. PICK flow, flag : flow \in Flows /\ ServerInner(w, flow, flag) BY <1>1, Zenon
  <2>2. /\ OpenSession(w, flow, SessionFor(w, flow, flag))
        /\ UNCHANGED <<quic_flow, answers, silenced>> /\ UNCHANGED retiring
    BY <2>1, Zenon DEF ServerInner, history
  <2> QED BY <2>1, <2>2, SessionProgress, Zenon
<1>2. ASSUME NEW dropped \in BOOLEAN, ClientIntercept(w, dropped) PROVE Progress(w)
  <2> DEFINE m == Head(inbox[w])
             r == SessionFor(w, m.flow, m.flag)
  <2>1. CASE ~authenticated[w]
    <3>1. Stays BY <1>2, <2>1, Zenon DEF ClientIntercept, Stays, history
    <3> QED BY <3>1, Zenon DEF Progress
  <2>2. CASE authenticated[w]
    <3>1. m.flow \in Flows
      <4>1. m \in Msgs(inbox[w]) /\ m.kind = "packet"
        BY <1>2, HeadOfInbox, Zenon DEF ClientIntercept
      <4> QED BY <4>1, Zenon DEF StateInv, SessionsInv
    <3>2. /\ OpenSession(w, m.flow, r) /\ UNCHANGED <<quic_flow, answers, silenced>>
          /\ retiring' = IF dropped /\ r.id \in DOMAIN workers'[w].table.sessions
                         THEN [retiring EXCEPT ![w] = r.id] ELSE retiring
      BY <1>2, <2>2, Zenon DEF ClientIntercept, history
    <3> HIDE DEF m
    <3>3. \/ UNCHANGED retiring
          \/ \E id \in DOMAIN workers'[w].table.sessions : retiring' = [retiring EXCEPT ![w] = id]
      BY <3>2, Zenon
    <3> QED BY <3>1, <3>2, <3>3, SessionProgress, Zenon
  <2> QED BY <2>1, <2>2, Zenon
<1>3. CASE RetireSession(w) BY <1>3, RetireProgress, Zenon
<1>4. CASE ClientQuery(w)
  <2> DEFINE q == Head(inbox[w]).query
  <2>1. CASE IsOpen(workers[w], q) \/ Refused(workers[w], q, authenticated[w])
    <3>1. Stays BY <1>4, <2>1, Zenon DEF ClientQuery, Stays
    <3> QED BY <3>1, Zenon DEF Progress
  <2>2. CASE ~(IsOpen(workers[w], q) \/ Refused(workers[w], q, authenticated[w]))
    <3>1. /\ ~IsOpen(workers[w], q) /\ OpenTransaction(w, q) /\ Idle(w)
          /\ UNCHANGED <<quic_flow, retiring, silenced>>
      BY <1>4, <2>2, Zenon DEF ClientQuery
    <3> HIDE DEF q
    <3> QED BY <3>1, OpenProgress, Zenon
  <2> QED BY <2>1, <2>2, Zenon
<1>5. CASE Return(w)
  <2> DEFINE m == Head(inbox[w])
             observed == IF Role = "server" THEN {m.io} ELSE {}
  <2>1. Idle(w) /\ UNCHANGED <<quic_flow, retiring, silenced>> BY <1>5, Zenon DEF Return
  <2>2. CASE DnsReverseMatches(workers[w], w, m.packet.key, m.locator) /\ DnsResponse(w, m.packet)
    <3>1. m.packet.key \in DOMAIN workers[w].dns.by_reverse BY <2>2, Zenon DEF DnsReverseMatches
    <3> HIDE DEF m
    <3> QED BY <2>1, <2>2, <3>1, DnsResponseProgress, Zenon
  <2>3. CASE ReverseFor(w, m.packet, m.locator, observed, m.flag)
    <3> HIDE DEF m, observed
    <3> QED BY <2>1, <2>3, ReverseForProgress, Zenon
  <2> QED BY <1>5, <2>2, <2>3, Zenon DEF Return
<1>6. CASE \E p \in net : \E flag \in FlagsOf(p.key.proto) : ClientInner(w, p, flag)
  <2>1. PICK p, flag : p \in net /\ ClientInner(w, p, flag) BY <1>6, Zenon
  <2> DEFINE expected == workers[w].table.nat.reverse[p.key]
             observed == {}
  <2>2. Idle(w) /\ UNCHANGED <<quic_flow, retiring, silenced>> BY <2>1, Zenon DEF ClientInner
  <2>3. CASE p.key \in DOMAIN workers[w].dns.by_reverse
    <3>1. DnsResponse(w, p) BY <2>1, <2>3, Zenon DEF ClientInner
    <3> QED BY <2>2, <2>3, <3>1, DnsResponseProgress, Zenon
  <2>4. CASE p.key \notin DOMAIN workers[w].dns.by_reverse
    <3>1. ReverseFor(w, p, expected, observed, flag) BY <2>1, <2>4, ZenonT(30) DEF ClientInner
    <3> HIDE DEF expected, observed
    <3> QED BY <2>2, <3>1, ReverseForProgress, Zenon
  <2> QED BY <2>3, <2>4, Zenon
<1>7. CASE ExpireIdle(w) BY <1>7, ExpireIdleProgress, Zenon
<1>8. CASE ExpireDns(w) BY <1>8, ExpireDnsProgress, Zenon
<1>9. CASE Authenticated(w)
  <2>1. Stays BY <1>9, Zenon DEF Authenticated, Stays, history
  <2> QED BY <2>1, Zenon DEF Progress
<1>10. CASE Closed(w) BY <1>10, ClosedProgress, Zenon
<1> QED BY <1>1, <1>2, <1>3, <1>4, <1>5, <1>6, <1>7, <1>8, <1>9, <1>10, ZenonT(30) DEF FlowStep

LEMMA NextProgress ==
  ASSUME StateInv, [Next]_vars
  PROVE  \/ Stays
         \/ \E w \in Workers : Progress(w)
<1>1. CASE UNCHANGED vars BY <1>1, Zenon DEF vars, Stays
<1>2. CASE IoStep
  BY <1>2, Zenon DEF IoStep, IoIntercept, IoQuery, IoReturn, Stays, history
<1>3. CASE \E w \in Workers : FlowStep(w) BY <1>3, FlowProgress, Zenon
<1>4. CASE NetStep BY <1>4, Zenon DEF NetStep, RemoteReply, Lose, Stays, history
<1>5. CASE Tick BY <1>5, Zenon DEF Tick, Stays, history
<1> QED BY <1>1, <1>2, <1>3, <1>4, <1>5, Zenon DEF Next

=============================================================================
