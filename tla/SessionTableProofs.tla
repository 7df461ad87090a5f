------------------------- MODULE SessionTableProofs -------------------------
(***************************************************************************)
(* The tables of a Flow worker.  The worker_port_range shares are disjoint *)
(* for every range of ports and every number of workers; the operations of *)
(* NatTable and SessionTable keep the tables consistent, for any range of  *)
(* ports, any flows, any timeouts, any quarantine and any clock.           *)
(***************************************************************************)
EXTENDS SessionTable, PortRanges, WellFoundedInduction, TLAPS

(* A nonempty set of ports has a lowest one, so the search of allocate_at  *)
(* (next on a BTreeSet) finds a member of the set.                         *)
LEMMA LowestIsMember ==
  ASSUME NEW S, S \subseteq Nat, S # {}
  PROVE  Lowest(S) \in S /\ \A q \in S : Lowest(S) <= q
<1> DEFINE R == OpToRel(<, Nat)
<1>1. \E x \in S : \A y \in S : ~(<<y, x>> \in R)
  <2>1. IsWellFoundedOn(R, Nat) BY NatLessThanWellFounded, Zenon
  <2> HIDE DEF R
  <2> QED BY <2>1, WFMin, Zenon
<1>2. PICK x \in S : \A y \in S : ~(<<y, x>> \in R)
  BY <1>1, Zenon
<1>3. \A y \in S : x <= y
  <2> TAKE y \in S
  <2>1. <<y, x>> \in Nat \X Nat /\ <<y, x>>[1] = y /\ <<y, x>>[2] = x BY Zenon
  <2>2. ~(y < x) BY <1>2, <2>1, Zenon DEF OpToRel
  <2> QED BY <2>2
<1> QED
  BY <1>3, Zenon DEF Lowest

(* A table has its four fields. *)
IsNat(nat) == DOMAIN nat = {"available_ports", "forward", "reverse", "quarantined"}

-----------------------------------------------------------------------------
(* A new table is consistent. *)
LEMMA NewNatConsistent == \A ports : NatConsistent(NewNat(ports), ports)
BY Zenon DEF NewNat, EmptyMap, NatConsistent, PortsPartitioned, ReverseMatchesForward,
       QuarantineDisjoint

(* The port that allocate_at takes is one of the usable ones. *)
LEMMA AllocatedPortIsUsable ==
  ASSUME NEW nat, NEW ports, ports \subseteq Nat, NEW id, NEW flow, NEW now,
         NatConsistent(nat, ports), CanAllocate(nat, id, flow, now)
  PROVE  Lowest(UsablePorts(nat, flow, now)) \in UsablePorts(nat, flow, now)
<1>1. nat.available_ports \subseteq Nat
  BY Zenon DEF NatConsistent, PortsPartitioned
<1>2. UsablePorts(nat, flow, now) \subseteq Nat /\ UsablePorts(nat, flow, now) # {}
  BY <1>1, Zenon DEF UsablePorts, CanAllocate
<1> QED BY <1>2, LowestIsMember, Zenon

(* allocate_at, when it succeeds, leaves a consistent table.               *)
THEOREM AllocateConsistent ==
  ASSUME NEW nat, NEW ports, ports \subseteq Nat, NEW id, NEW flow, NEW locator, NEW now,
         NatConsistent(nat, ports), CanAllocate(nat, id, flow, now),
         locator.session_id = id
  PROVE  NatConsistent(Allocate(nat, id, flow, locator, now), ports)
<1> DEFINE port == Lowest(UsablePorts(nat, flow, now))
           key  == ReverseKey(flow, port)
           new  == Allocate(nat, id, flow, locator, now)
<1>1. /\ port \in nat.available_ports /\ key \notin DOMAIN nat.reverse
      /\ key \notin DOMAIN Purged(nat, now)
  <2>1. port \in UsablePorts(nat, flow, now) BY AllocatedPortIsUsable, Zenon
  <2> HIDE DEF port
  <2> QED BY <2>1, Zenon DEF UsablePorts
<1>2. id \notin DOMAIN nat.forward
  BY Zenon DEF CanAllocate, MayAllocate
<1> HIDE DEF port
<1>3. /\ new.available_ports = nat.available_ports \ {port}
      /\ new.forward = Put(nat.forward, id, [original |-> flow, port |-> port])
      /\ new.reverse = Put(nat.reverse, key, locator)
      /\ new.quarantined = Purged(nat, now)
  BY Zenon DEF Allocate, port
<1> HIDE DEF new, key
<1>4. /\ DOMAIN new.forward = DOMAIN nat.forward \cup {id}
      /\ new.forward[id] = [original |-> flow, port |-> port]
      /\ \A i \in DOMAIN nat.forward : new.forward[i] = nat.forward[i]
  BY <1>2, <1>3, Zenon DEF Put
<1>5. /\ DOMAIN new.reverse = DOMAIN nat.reverse \cup {key}
      /\ new.reverse[key] = locator
      /\ \A k \in DOMAIN nat.reverse : new.reverse[k] = nat.reverse[k]
  BY <1>1, <1>3, Zenon DEF Put
<1>6. PortsPartitioned(new, ports)
  <2>1. new.forward[id].port = port BY <1>4
  <2>2. \A i \in DOMAIN nat.forward : nat.forward[i].port # port
    BY <1>1, Zenon DEF NatConsistent, PortsPartitioned
  <2>3. new.available_ports \cup {new.forward[i].port : i \in DOMAIN new.forward} = ports
    BY <1>1, <1>3, <1>4, <2>1 DEF NatConsistent, PortsPartitioned
  <2> QED
    BY <1>3, <1>4, <2>1, <2>2, <2>3 DEF NatConsistent, PortsPartitioned
<1>7. ReverseMatchesForward(new)
  <2>1. BindingKey(new.forward[id]) = key
    BY <1>4 DEF BindingKey, key
  <2>2. \A i \in DOMAIN nat.forward : BindingKey(new.forward[i]) = BindingKey(nat.forward[i])
    BY <1>4, Zenon
  <2> QED
    BY <1>1, <1>2, <1>4, <1>5, <2>1, <2>2 DEF NatConsistent, ReverseMatchesForward
<1>8. QuarantineDisjoint(new)
  <2>1. DOMAIN new.quarantined \subseteq DOMAIN nat.quarantined
    BY <1>3, Zenon DEF Purged, Restrict
  <2> QED
    BY <1>1, <1>3, <1>5, <2>1, Zenon DEF NatConsistent, QuarantineDisjoint
<1> QED
  BY <1>6, <1>7, <1>8, Zenon DEF NatConsistent, new

(* allocate_at, when it fails, changes no binding. *)
LEMMA AllocateFailedConsistent ==
  ASSUME NEW nat, NEW ports, NEW id, NEW flow, NEW now, IsNat(nat), NatConsistent(nat, ports)
  PROVE  /\ IsNat(AllocateFailed(nat, id, flow, now))
         /\ NatConsistent(AllocateFailed(nat, id, flow, now), ports)
         /\ AllocateFailed(nat, id, flow, now).forward = nat.forward
<1> DEFINE new == [nat EXCEPT !.quarantined = Purged(nat, now)]
<1>1. /\ new.available_ports = nat.available_ports /\ new.forward = nat.forward
      /\ new.reverse = nat.reverse /\ new.quarantined = Purged(nat, now)
      /\ IsNat(new)
  BY Zenon DEF IsNat
<1>2. DOMAIN new.quarantined \subseteq DOMAIN nat.quarantined
  BY <1>1, Zenon DEF Purged, Restrict
<1> HIDE DEF new
<1>3. NatConsistent(new, ports)
  BY <1>1, <1>2 DEF NatConsistent, PortsPartitioned, ReverseMatchesForward, QuarantineDisjoint
<1> QED
  BY <1>1, <1>3, Zenon DEF AllocateFailed, new

(* remove_at returns the ports of the removed bindings, takes their tuples *)
(* out of the reverse index and quarantines them; it leaves the others     *)
(* alone.                                                                  *)
THEOREM RemoveAllConsistent ==
  ASSUME NEW nat, NEW ports, NEW ids, ids \subseteq DOMAIN nat.forward, NEW now,
         NatConsistent(nat, ports)
  PROVE  NatConsistent(RemoveAll(nat, ids, now), ports)
<1> DEFINE new  == RemoveAll(nat, ids, now)
           keys == {BindingKey(nat.forward[i]) : i \in ids}
           kept == DOMAIN nat.forward \ ids
<1>1. /\ new.available_ports = nat.available_ports \cup {nat.forward[i].port : i \in ids}
      /\ DOMAIN new.forward = kept
      /\ \A i \in kept : new.forward[i] = nat.forward[i]
      /\ DOMAIN new.reverse = DOMAIN nat.reverse \ keys
      /\ \A k \in DOMAIN nat.reverse \ keys : new.reverse[k] = nat.reverse[k]
      /\ DOMAIN new.quarantined = DOMAIN nat.quarantined \cup keys
  BY Zenon DEF RemoveAll, Restrict
<1> HIDE DEF new
<1>2. \A i \in kept : BindingKey(nat.forward[i]) \notin keys
  BY Zenon DEF NatConsistent, ReverseMatchesForward
<1>3. PortsPartitioned(new, ports)
  <2>1. {new.forward[i].port : i \in kept} = {nat.forward[i].port : i \in kept}
    BY <1>1
  <2> QED BY <1>1, <2>1 DEF NatConsistent, PortsPartitioned
<1>4. ReverseMatchesForward(new)
  <2>1. ASSUME NEW i \in kept
        PROVE  /\ BindingKey(new.forward[i]) \in DOMAIN new.reverse
               /\ new.reverse[BindingKey(new.forward[i])].session_id = i
    BY <1>1, <1>2, Zenon DEF NatConsistent, ReverseMatchesForward
  <2>2. ASSUME NEW k \in DOMAIN nat.reverse \ keys
        PROVE  /\ new.reverse[k].session_id \in kept
               /\ BindingKey(new.forward[new.reverse[k].session_id]) = k
    BY <1>1 DEF NatConsistent, ReverseMatchesForward
  <2> QED BY <1>1, <2>1, <2>2, Zenon DEF ReverseMatchesForward
<1>5. QuarantineDisjoint(new)
  BY <1>1, Zenon DEF NatConsistent, QuarantineDisjoint
<1> QED
  BY <1>3, <1>4, <1>5, Zenon DEF NatConsistent, new

(* The sessions that hold a binding after each operation. *)
LEMMA AllocateDomain ==
  \A nat, id, flow, locator, now :
    DOMAIN Allocate(nat, id, flow, locator, now).forward = DOMAIN nat.forward \cup {id}
BY Zenon DEF Allocate, Put

LEMMA RemoveAllForward ==
  \A nat, ids, now :
    /\ DOMAIN RemoveAll(nat, ids, now).forward = DOMAIN nat.forward \ ids
    /\ \A i \in DOMAIN nat.forward \ ids :
         RemoveAll(nat, ids, now).forward[i] = nat.forward[i]
BY Zenon DEF RemoveAll, Restrict

(* Whatever the operation, a table keeps its four fields. *)
LEMMA NatShapes ==
  /\ \A ports : IsNat(NewNat(ports))
  /\ \A nat, id, flow, locator, now : IsNat(Allocate(nat, id, flow, locator, now))
  /\ \A nat, ids, now : IsNat(RemoveAll(nat, ids, now))
BY Zenon DEF IsNat, NewNat, Allocate, RemoveAll

-----------------------------------------------------------------------------
(* Tables and sessions have their fields. *)
IsSession(s) ==
  DOMAIN s = {"original", "port", "intercept_io", "quic_flow_id", "expires_at", "tcp_state"}

IsTable(t) ==
  /\ DOMAIN t = {"next_session_id", "by_key", "sessions", "deadlines", "nat"}
  /\ IsNat(t.nat)
  /\ \A id \in DOMAIN t.sessions : IsSession(t.sessions[id])

(* The inductive invariant of a table with a given range of ports. *)
TableInv(t, ports) == IsTable(t) /\ TableConsistent(t, ports)

(* A new table is consistent. *)
LEMMA NewTableInv == \A ports : TableInv(NewTable(ports), ports)
<1> TAKE ports
<1> DEFINE t == NewTable(ports)
<1>1. /\ t = [next_session_id |-> 1, by_key |-> EmptyMap, sessions |-> EmptyMap,
              deadlines |-> {}, nat |-> NewNat(ports)]
      /\ DOMAIN t.sessions = {} /\ DOMAIN t.by_key = {} /\ t.deadlines = {}
      /\ t.nat = NewNat(ports)
  BY Zenon DEF NewTable, EmptyMap
<1> HIDE DEF t
<1>2. IsTable(t) BY <1>1, NatShapes, Zenon DEF IsTable
<1>3. NatConsistent(t.nat, ports) BY <1>1, NewNatConsistent, Zenon
<1>4. KeyIndexExact(t) /\ DeadlineIndexExact(t) /\ SessionsBound(t)
  BY <1>1, Zenon DEF KeyIndexExact, DeadlineIndexExact, SessionsBound
<1> QED BY <1>2, <1>3, <1>4, Zenon DEF TableInv, TableConsistent, t

(* The table changes at most the fields of sessions that neither the key   *)
(* index nor the NAT binding depends on, and the deadlines with them.      *)
LEMMA Updated ==
  ASSUME NEW t, NEW ports, NEW u, TableInv(t, ports), IsTable(u),
         u.nat = t.nat, u.by_key = t.by_key, DOMAIN u.sessions = DOMAIN t.sessions,
         \A id \in DOMAIN t.sessions :
           /\ u.sessions[id].original = t.sessions[id].original
           /\ u.sessions[id].port = t.sessions[id].port
           /\ u.sessions[id].intercept_io.ifindex = t.sessions[id].intercept_io.ifindex,
         DeadlineIndexExact(u)
  PROVE  TableInv(u, ports)
<1>1. \A id \in DOMAIN t.sessions : KeyOf(u.sessions[id]) = KeyOf(t.sessions[id])
  BY Zenon DEF KeyOf, SessionKey
<1>2. KeyIndexExact(u)
  BY <1>1, Zenon DEF TableInv, TableConsistent, KeyIndexExact
<1>3. SessionsBound(u)
  BY Zenon DEF TableInv, TableConsistent, SessionsBound
<1> QED
  BY <1>2, <1>3, Zenon DEF TableInv, TableConsistent

(* touch_tcp moves a session's deadline in the session and in the deadline *)
(* index together.                                                         *)
THEOREM TouchTcpInv ==
  ASSUME NEW t, NEW ports, NEW id, NEW flag, NEW reverse, NEW now,
         TableInv(t, ports), id \in DOMAIN t.sessions
  PROVE  /\ TableInv(TouchTcp(t, id, flag, reverse, now), ports)
         /\ DOMAIN TouchTcp(t, id, flag, reverse, now).sessions = DOMAIN t.sessions
         /\ TouchTcp(t, id, flag, reverse, now).nat = t.nat
<1> DEFINE s     == t.sessions[id]
           state == TcpStateAfter(s.tcp_state, flag, reverse)
           at    == now + TouchTimeout(s.original.proto, flag, state)
           s2    == [s EXCEPT !.tcp_state = state, !.expires_at = at]
           u     == TouchTcp(t, id, flag, reverse, now)
<1>1. u = [t EXCEPT !.sessions  = [@ EXCEPT ![id] = s2],
                    !.deadlines = (@ \ {<<s.expires_at, id>>}) \cup {<<at, id>>}]
  BY Zenon DEF TouchTcp
<1> HIDE DEF state, at, u
<1>2. /\ s2.original = s.original /\ s2.port = s.port /\ s2.intercept_io = s.intercept_io
      /\ s2.expires_at = at /\ IsSession(s2)
  BY Zenon DEF TableInv, IsTable, IsSession
<1> HIDE DEF s2
<1>3. /\ u.sessions = [t.sessions EXCEPT ![id] = s2]
      /\ u.deadlines = (t.deadlines \ {<<s.expires_at, id>>}) \cup {<<at, id>>}
      /\ u.nat = t.nat /\ u.by_key = t.by_key
      /\ DOMAIN u = DOMAIN t
  BY <1>1, Zenon DEF TableInv, IsTable
<1>4. /\ DOMAIN u.sessions = DOMAIN t.sessions /\ u.sessions[id] = s2
      /\ \A i \in DOMAIN t.sessions \ {id} : u.sessions[i] = t.sessions[i]
  BY <1>3, Zenon
<1>5. IsTable(u)
  BY <1>2, <1>3, <1>4, Zenon DEF TableInv, IsTable
<1>6. DeadlineIndexExact(u)
  <2>1. t.deadlines = {<<t.sessions[i].expires_at, i>> : i \in DOMAIN t.sessions}
    BY Zenon DEF TableInv, TableConsistent, DeadlineIndexExact
  <2> QED BY <1>2, <1>3, <1>4, <2>1 DEF DeadlineIndexExact
<1>7. TableInv(u, ports)
  BY <1>2, <1>3, <1>4, <1>5, <1>6, Updated, Zenon
<1> QED BY <1>3, <1>4, <1>7, Zenon DEF u

(* correct_intercept_io never moves a session to another interface, so its *)
(* key stays.                                                              *)
LEMMA CorrectInterceptIoInv ==
  ASSUME NEW t, NEW ports, NEW id, NEW observed, TableInv(t, ports), id \in DOMAIN t.sessions
  PROVE  /\ TableInv(CorrectInterceptIo(t, id, observed), ports)
         /\ DOMAIN CorrectInterceptIo(t, id, observed).sessions = DOMAIN t.sessions
         /\ CorrectInterceptIo(t, id, observed).nat = t.nat
<1>1. CASE ~InterceptIoAccepts(t, id, observed)
  BY <1>1, Zenon DEF CorrectInterceptIo
<1>2. CASE InterceptIoAccepts(t, id, observed)
  <2> DEFINE s2 == [t.sessions[id] EXCEPT !.intercept_io = observed]
             u  == CorrectInterceptIo(t, id, observed)
  <2>1. u = [t EXCEPT !.sessions = [@ EXCEPT ![id].intercept_io = observed]]
    BY <1>2, Zenon DEF CorrectInterceptIo
  <2> HIDE DEF u
  <2>2. /\ u.sessions = [t.sessions EXCEPT ![id] = s2]
        /\ u.deadlines = t.deadlines /\ u.nat = t.nat /\ u.by_key = t.by_key
        /\ DOMAIN u = DOMAIN t
    BY <2>1, Zenon DEF TableInv, IsTable
  <2>3. /\ s2.original = t.sessions[id].original /\ s2.port = t.sessions[id].port
        /\ s2.expires_at = t.sessions[id].expires_at /\ s2.intercept_io = observed
        /\ IsSession(s2)
    BY Zenon DEF TableInv, IsTable, IsSession
  <2>4. observed.ifindex = t.sessions[id].intercept_io.ifindex
    BY <1>2, Zenon DEF InterceptIoAccepts
  <2> HIDE DEF s2
  <2>5. /\ DOMAIN u.sessions = DOMAIN t.sessions /\ u.sessions[id] = s2
        /\ \A i \in DOMAIN t.sessions \ {id} : u.sessions[i] = t.sessions[i]
    BY <2>2, Zenon
  <2>6. IsTable(u)
    BY <2>2, <2>3, <2>5, Zenon DEF TableInv, IsTable
  <2>7. DeadlineIndexExact(u)
    BY <2>2, <2>3, <2>5 DEF TableInv, TableConsistent, DeadlineIndexExact
  <2>8. TableInv(u, ports)
    BY <2>2, <2>3, <2>4, <2>5, <2>6, <2>7, Updated, Zenon
  <2> QED BY <2>2, <2>5, <2>8, Zenon DEF u
<1> QED BY <1>1, <1>2, Zenon

(* rebind_quic_flow changes nothing but the flow of sessions. *)
LEMMA RebindQuicFlowInv ==
  ASSUME NEW t, NEW ports, NEW old, NEW new, TableInv(t, ports)
  PROVE  TableInv(RebindQuicFlow(t, old, new), ports)
<1> DEFINE u == RebindQuicFlow(t, old, new)
<1>1. /\ DOMAIN u.sessions = DOMAIN t.sessions
      /\ \A i \in DOMAIN t.sessions :
           u.sessions[i] = IF t.sessions[i].quic_flow_id = old
                           THEN [t.sessions[i] EXCEPT !.quic_flow_id = new]
                           ELSE t.sessions[i]
      /\ u.deadlines = t.deadlines /\ u.nat = t.nat /\ u.by_key = t.by_key
      /\ DOMAIN u = DOMAIN t
  BY Zenon DEF RebindQuicFlow, TableInv, IsTable
<1> HIDE DEF u
<1>2. \A i \in DOMAIN t.sessions :
        /\ u.sessions[i].original = t.sessions[i].original
        /\ u.sessions[i].port = t.sessions[i].port
        /\ u.sessions[i].expires_at = t.sessions[i].expires_at
        /\ u.sessions[i].intercept_io = t.sessions[i].intercept_io
        /\ IsSession(u.sessions[i])
  BY <1>1, Zenon DEF TableInv, IsTable, IsSession
<1>3. IsTable(u)
  BY <1>1, <1>2, Zenon DEF TableInv, IsTable
<1>4. DeadlineIndexExact(u)
  BY <1>1, <1>2 DEF TableInv, TableConsistent, DeadlineIndexExact
<1>5. TableInv(u, ports)
  BY <1>1, <1>2, <1>3, <1>4, Updated, Zenon
<1> QED BY <1>5, Zenon DEF u

(* get_or_create_with_flags_at creates a session under a fresh id, with a  *)
(* port of its own, in every index.                                        *)
THEOREM CreateInv ==
  ASSUME NEW t, NEW ports, ports \subseteq Nat, NEW w, NEW flow, NEW io, NEW quic_flow_id,
         NEW flag, NEW now,
         TableInv(t, ports), ~HasSession(t, flow, io.ifindex), CanCreate(t, flow, now)
  PROVE  TableInv(Create(t, w, flow, io, quic_flow_id, flag, now), ports)
<1> DEFINE id  == t.next_session_id
           loc == [flow_worker_id |-> w, session_id |-> id]
           nat == Allocate(t.nat, id, flow, loc, now)
           at  == now + CreateTimeout(flow.proto, flag)
           key == SessionKey(flow, io.ifindex)
           s   == [original |-> flow, port |-> nat.forward[id].port,
                   intercept_io |-> io, quic_flow_id |-> quic_flow_id, expires_at |-> at,
                   tcp_state |-> IF flow.proto = "tcp" THEN "Established" ELSE NotTcp]
           u   == Create(t, w, flow, io, quic_flow_id, flag, now)
<1>1. /\ NatConsistent(nat, ports)
      /\ DOMAIN nat.forward = DOMAIN t.nat.forward \cup {id}
  <2>1. loc.session_id = id BY Zenon
  <2>2. NatConsistent(t.nat, ports) /\ CanAllocate(t.nat, id, flow, now)
    BY Zenon DEF TableInv, TableConsistent, CanCreate
  <2> HIDE DEF loc, id
  <2>3. NatConsistent(nat, ports)
    BY <2>1, <2>2, AllocateConsistent, Zenon
  <2> QED BY <2>3, AllocateDomain
<1>2. /\ id \notin DOMAIN t.nat.forward /\ id \notin DOMAIN t.sessions
  BY ZenonT(30) DEF CanCreate, CanAllocate, MayAllocate, TableInv, TableConsistent, SessionsBound
<1>3. /\ nat.forward[id] = [original |-> flow, port |-> nat.forward[id].port]
      /\ \A i \in DOMAIN t.nat.forward : nat.forward[i] = t.nat.forward[i]
  BY <1>2, Zenon DEF Allocate, Put
<1>4. /\ IsNat(nat) BY NatShapes, Zenon
<1>5. /\ u.by_key = Put(t.by_key, key, id) /\ u.sessions = Put(t.sessions, id, s)
      /\ u.deadlines = t.deadlines \cup {<<at, id>>} /\ u.nat = nat
      /\ DOMAIN u = {"next_session_id", "by_key", "sessions", "deadlines", "nat"}
  BY Zenon DEF Create
<1>6. /\ s.original = flow /\ s.port = nat.forward[id].port /\ s.expires_at = at
      /\ IsSession(s) /\ KeyOf(s) = key
  BY Zenon DEF IsSession, KeyOf
<1>7. key \notin DOMAIN t.by_key
  BY Zenon DEF HasSession
<1> HIDE DEF s, at, key, nat, id, u
<1>8. /\ DOMAIN u.sessions = DOMAIN t.sessions \cup {id} /\ u.sessions[id] = s
      /\ \A i \in DOMAIN t.sessions : u.sessions[i] = t.sessions[i]
  BY <1>2, <1>5, Zenon DEF Put
<1>9. /\ DOMAIN u.by_key = DOMAIN t.by_key \cup {key} /\ u.by_key[key] = id
      /\ \A k \in DOMAIN t.by_key : u.by_key[k] = t.by_key[k]
  BY <1>5, <1>7, Zenon DEF Put
<1>10. IsTable(u)
  BY <1>4, <1>5, <1>6, <1>8, Zenon DEF TableInv, IsTable
<1>11. KeyIndexExact(u)
  BY <1>2, <1>6, <1>7, <1>8, <1>9 DEF TableInv, TableConsistent, KeyIndexExact
<1>12. DeadlineIndexExact(u)
  BY <1>5, <1>6, <1>8 DEF TableInv, TableConsistent, DeadlineIndexExact
<1>13. SessionsBound(u)
  BY <1>1, <1>3, <1>5, <1>6, <1>8, Zenon DEF TableInv, TableConsistent, SessionsBound
<1>14. TableInv(u, ports)
  BY <1>1, <1>5, <1>10, <1>11, <1>12, <1>13, Zenon DEF TableInv, TableConsistent
<1> QED BY <1>14, Zenon DEF u

(* remove and expire_idle take sessions out of every index and free their  *)
(* ports.                                                                  *)
THEOREM RemoveSessionsInv ==
  ASSUME NEW t, NEW ports, NEW ids, NEW now,
         TableInv(t, ports), ids \subseteq DOMAIN t.sessions
  PROVE  TableInv(RemoveSessions(t, ids, now), ports)
<1> DEFINE u    == RemoveSessions(t, ids, now)
           keys == {KeyOf(t.sessions[i]) : i \in ids}
           kept == DOMAIN t.sessions \ ids
           gone == {<<t.sessions[i].expires_at, i>> : i \in ids}
<1>1. /\ u.nat = RemoveAll(t.nat, ids, now)
      /\ u.sessions = Restrict(t.sessions, kept)
      /\ u.deadlines = t.deadlines \ gone
      /\ u.by_key = Restrict(t.by_key, DOMAIN t.by_key \ keys)
      /\ DOMAIN u = DOMAIN t
  BY Zenon DEF RemoveSessions, TableInv, IsTable
<1> HIDE DEF u
<1>2. ids \subseteq DOMAIN t.nat.forward
  BY Zenon DEF TableInv, TableConsistent, SessionsBound
<1>3. /\ NatConsistent(u.nat, ports)
      /\ DOMAIN u.nat.forward = DOMAIN t.nat.forward \ ids
      /\ \A i \in DOMAIN t.nat.forward \ ids : u.nat.forward[i] = t.nat.forward[i]
  <2>1. NatConsistent(t.nat, ports) BY Zenon DEF TableInv, TableConsistent
  <2>2. NatConsistent(u.nat, ports) BY <1>1, <1>2, <2>1, RemoveAllConsistent
  <2> QED BY <1>1, <2>2, RemoveAllForward
<1>4. DOMAIN u.sessions = kept /\ \A i \in kept : u.sessions[i] = t.sessions[i]
  BY <1>1, Zenon DEF Restrict
<1>5. /\ DOMAIN u.by_key = DOMAIN t.by_key \ keys
      /\ \A k \in DOMAIN t.by_key \ keys : u.by_key[k] = t.by_key[k]
  BY <1>1, Zenon DEF Restrict
<1>6. IsTable(u)
  <2>1. IsNat(u.nat) BY <1>1, NatShapes
  <2> QED BY <1>1, <1>4, <2>1, Zenon DEF TableInv, IsTable
<1>7. KeyIndexExact(u)
  <2>1. \A i \in kept : KeyOf(t.sessions[i]) \notin keys
    BY Zenon DEF TableInv, TableConsistent, KeyIndexExact
  <2>2. \A k \in DOMAIN t.by_key \ keys : t.by_key[k] \in kept
    BY Zenon DEF TableInv, TableConsistent, KeyIndexExact
  <2> QED
    BY <1>4, <1>5, <2>1, <2>2, Zenon DEF TableInv, TableConsistent, KeyIndexExact
<1>8. DeadlineIndexExact(u)
  <2>1. t.deadlines = {<<t.sessions[i].expires_at, i>> : i \in DOMAIN t.sessions}
    BY Zenon DEF TableInv, TableConsistent, DeadlineIndexExact
  <2>2. {<<u.sessions[i].expires_at, i>> : i \in DOMAIN u.sessions}
          = {<<t.sessions[i].expires_at, i>> : i \in kept}
    BY <1>4, Zenon
  <2>3. \A i \in kept : <<t.sessions[i].expires_at, i>> \notin gone
    BY Zenon
  <2>4. t.deadlines \ gone = {<<t.sessions[i].expires_at, i>> : i \in kept}
    BY <2>1, <2>3, Zenon
  <2> QED BY <1>1, <2>2, <2>4, Zenon DEF DeadlineIndexExact
<1>9. SessionsBound(u)
  BY <1>3, <1>4, Zenon DEF TableInv, TableConsistent, SessionsBound
<1>10. TableInv(u, ports)
  BY <1>3, <1>6, <1>7, <1>8, <1>9, Zenon DEF TableInv, TableConsistent
<1> QED BY <1>10, Zenon DEF u

(* A change of the NAT table that keeps the bindings of all sessions. *)
LEMMA NatReplaced ==
  ASSUME NEW t, NEW ports, NEW nat, TableInv(t, ports), IsNat(nat), NatConsistent(nat, ports),
         \A id \in DOMAIN t.sessions :
           id \in DOMAIN nat.forward /\ nat.forward[id] = t.nat.forward[id]
  PROVE  TableInv([t EXCEPT !.nat = nat], ports)
<1> DEFINE u == [t EXCEPT !.nat = nat]
<1>1. /\ u.nat = nat /\ u.sessions = t.sessions /\ u.by_key = t.by_key
      /\ u.deadlines = t.deadlines /\ DOMAIN u = DOMAIN t
  BY Zenon DEF TableInv, IsTable
<1> HIDE DEF u
<1>2. TableInv(u, ports)
  BY <1>1 DEF TableInv, IsTable, TableConsistent, KeyIndexExact, DeadlineIndexExact,
              SessionsBound
<1> QED BY <1>2, Zenon DEF u

(* The binding of a DNS transaction comes and goes without touching any    *)
(* session, although sessions and transactions share the ports.            *)
THEOREM EphemeralInv ==
  ASSUME NEW t, NEW ports, ports \subseteq Nat, NEW w, NEW token, NEW flow, NEW now,
         TableInv(t, ports)
  PROVE  /\ CanAllocate(t.nat, token, flow, now) =>
              TableInv(AllocateEphemeral(t, w, token, flow, now), ports)
         /\ token \in DOMAIN t.nat.forward \ DOMAIN t.sessions =>
              TableInv(ReleaseEphemeral(t, {token}, now), ports)
         /\ \A id : TableInv([t EXCEPT !.nat = AllocateFailed(t.nat, id, flow, now)], ports)
<1>1. NatConsistent(t.nat, ports) /\ IsNat(t.nat)
      /\ \A id \in DOMAIN t.sessions : id \in DOMAIN t.nat.forward
  BY Zenon DEF TableInv, IsTable, TableConsistent, SessionsBound
<1>2. ASSUME CanAllocate(t.nat, token, flow, now)
      PROVE  TableInv(AllocateEphemeral(t, w, token, flow, now), ports)
  <2> DEFINE loc == [flow_worker_id |-> w, session_id |-> token]
             nat == Allocate(t.nat, token, flow, loc, now)
  <2>1. loc.session_id = token BY Zenon
  <2> HIDE DEF loc
  <2>2. NatConsistent(nat, ports) /\ DOMAIN nat.forward = DOMAIN t.nat.forward \cup {token}
    <3>1. NatConsistent(nat, ports) BY <1>1, <1>2, <2>1, AllocateConsistent
    <3> QED BY <3>1, AllocateDomain
  <2>3. token \notin DOMAIN t.nat.forward
    BY <1>2, Zenon DEF CanAllocate, MayAllocate
  <2>4. \A i \in DOMAIN t.nat.forward : nat.forward[i] = t.nat.forward[i]
    BY <2>3, Zenon DEF Allocate, Put
  <2>5. IsNat(nat) BY NatShapes, Zenon
  <2> HIDE DEF nat
  <2>6. TableInv([t EXCEPT !.nat = nat], ports)
    BY <1>1, <2>2, <2>4, <2>5, NatReplaced, Zenon
  <2> QED BY <2>6, Zenon DEF AllocateEphemeral, nat, loc
<1>3. ASSUME token \in DOMAIN t.nat.forward \ DOMAIN t.sessions
      PROVE  TableInv(ReleaseEphemeral(t, {token}, now), ports)
  <2> DEFINE nat == RemoveAll(t.nat, {token}, now)
  <2>1. /\ NatConsistent(nat, ports)
        /\ \A i \in DOMAIN t.nat.forward \ {token} :
             i \in DOMAIN nat.forward /\ nat.forward[i] = t.nat.forward[i]
    <3>1. NatConsistent(nat, ports) BY <1>1, <1>3, RemoveAllConsistent, Zenon
    <3> QED BY <3>1, RemoveAllForward
  <2>2. IsNat(nat) BY NatShapes, Zenon
  <2> HIDE DEF nat
  <2>3. TableInv([t EXCEPT !.nat = nat], ports)
    BY <1>1, <1>3, <2>1, <2>2, NatReplaced, Zenon
  <2> QED BY <2>3, Zenon DEF ReleaseEphemeral, nat
<1>4. ASSUME NEW id
      PROVE  TableInv([t EXCEPT !.nat = AllocateFailed(t.nat, id, flow, now)], ports)
  <2> DEFINE nat == AllocateFailed(t.nat, id, flow, now)
  <2>1. IsNat(nat) /\ NatConsistent(nat, ports) /\ nat.forward = t.nat.forward
    BY <1>1, AllocateFailedConsistent
  <2> HIDE DEF nat
  <2>2. TableInv([t EXCEPT !.nat = nat], ports)
    BY <1>1, <2>1, NatReplaced, Zenon
  <2> QED BY <2>2, Zenon DEF nat
<1> QED BY <1>2, <1>3, <1>4, Zenon

-----------------------------------------------------------------------------
(* The offset of a worker's share is the sum of the shares before it. *)
LEMMA OffsetsAdd ==
  ASSUME NEW base \in Nat, NEW extra \in Nat, NEW v \in Nat, NEW w \in Nat, v < w
  PROVE  v * base + Least(v, extra) + base + (IF v < extra THEN 1 ELSE 0)
           <= w * base + Least(w, extra)
<1>1. PICK d \in Nat : w = v + 1 + d
  BY w - v - 1 \in Nat
<1>2. w * base = v * base + base + d * base
  BY <1>1
<1>3. d * base >= 0
  OBVIOUS
<1>4. Least(v, extra) + (IF v < extra THEN 1 ELSE 0) <= Least(w, extra)
  BY DEF Least
<1>5. v * base \in Nat /\ d * base \in Nat /\ Least(v, extra) \in Nat /\ Least(w, extra) \in Nat
  BY DEF Least
<1> QED
  BY <1>2, <1>3, <1>4, <1>5

(* worker_port_range gives no port to two workers: two workers can never   *)
(* bind the same return tuple.                                             *)
THEOREM SharesDisjoint ==
  ASSUME NEW r, r.start \in Nat, r.end \in Nat,
         NEW count \in Nat \ {0}, NEW v \in Nat, NEW w \in Nat, v # w,
         HasPortRange(r, v, count), HasPortRange(r, w, count)
  PROVE  PortsIn(WorkerPortRange(r, v, count)) \cap PortsIn(WorkerPortRange(r, w, count)) = {}
<1> DEFINE base  == Length(r) \div count
           extra == Length(r) % count
<1>1. base \in Nat /\ extra \in Nat
  BY DEF HasPortRange, Length
<1>2. ASSUME NEW x \in Nat, NEW y \in Nat, x < y
      PROVE  WorkerPortRange(r, x, count).end < WorkerPortRange(r, y, count).start
  <2> DEFINE offset(z) == z * base + Least(z, extra)
             length(z) == base + (IF z < extra THEN 1 ELSE 0)
  <2>1. offset(x) + length(x) <= offset(y)
    <3> HIDE DEF base, extra
    <3>1. x * base + Least(x, extra) + base + (IF x < extra THEN 1 ELSE 0)
            <= y * base + Least(y, extra)
      BY <1>1, <1>2, OffsetsAdd, Zenon
    <3>2. x * base \in Nat /\ y * base \in Nat /\ Least(x, extra) \in Nat
      BY <1>1 DEF Least
    <3> QED BY <1>1, <3>1, <3>2
  <2>2. offset(x) \in Nat /\ offset(y) \in Nat /\ length(x) \in Nat
    <3> HIDE DEF base, extra
    <3> QED BY <1>1 DEF Least
  <2>3. WorkerPortRange(r, x, count).end = r.start + offset(x) + length(x) - 1
    BY Zenon DEF WorkerPortRange
  <2>4. WorkerPortRange(r, y, count).start = r.start + offset(y)
    BY Zenon DEF WorkerPortRange
  <2> HIDE DEF offset, length
  <2> QED BY <2>1, <2>2, <2>3, <2>4
<1>3. ASSUME NEW x \in Nat, NEW y \in Nat, x < y
      PROVE  PortsIn(WorkerPortRange(r, x, count)) \cap PortsIn(WorkerPortRange(r, y, count)) = {}
  <2> DEFINE a == WorkerPortRange(r, x, count)
             b == WorkerPortRange(r, y, count)
  <2>1. a.end < b.start BY <1>2, <1>3, Zenon
  <2>2. a.start \in Int /\ a.end \in Int /\ b.start \in Int /\ b.end \in Int
    <3> HIDE DEF base, extra
    <3>1. \A z \in Nat : z * base + Least(z, extra) \in Int BY <1>1 DEF Least
    <3> QED BY <1>1, <3>1 DEF WorkerPortRange, base, extra
  <2> HIDE DEF a, b
  <2>3. PortsIn(a) \cap PortsIn(b) = {} BY <2>1, <2>2 DEF PortsIn
  <2> QED BY <2>3, Zenon DEF a, b
<1>4. CASE v < w BY <1>3, <1>4, Zenon
<1>5. CASE w < v BY <1>3, <1>5, Zenon
<1> QED BY <1>4, <1>5
=============================================================================
