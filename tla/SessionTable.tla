---------------------------- MODULE SessionTable ----------------------------
(***************************************************************************)
(* The session table of one Flow worker (src/src/flow_plane/session.rs):   *)
(* sessions by id, the index by session key, the deadline index that       *)
(* expiry scans, and the worker's NAT table.  As in NatTable, a table is a *)
(* record and an operation an operator on tables.                          *)
(*                                                                         *)
(* BTreeMap<Instant, HashSet<SessionId>> is kept as the set of its         *)
(* <<deadline, session>> pairs: the code drops empty buckets.              *)
(* A packet's TCP flags matter as "rst", "fin" (no RST) or "none".         *)
(***************************************************************************)
EXTENDS NatTable

CONSTANTS
  TcpIdle, TcpClosing, TcpRst,   \* session timeouts of TCP
  UdpIdle, IcmpIdle              \* and of the other protocols

ASSUME TimeoutAssumption ==
  /\ {TcpIdle, TcpClosing, TcpRst, UdpIdle, IcmpIdle} \subseteq Nat
  /\ TcpClosing < TcpIdle /\ TcpRst < TcpIdle

Flags == {"rst", "fin", "none"}
TcpStates == {"Established", "FinSeenForward", "FinSeenReverse", "Closing", "Reset"}
NotTcp == "NotTcp"   \* tcp_state = None

(* parse_tcp_flags: only TCP packets have flags. *)
FlagsOf(proto) == IF proto = "tcp" THEN Flags ELSE {"none"}

ProtocolIdleTimeout(proto) ==
  CASE proto = "tcp" -> TcpIdle
    [] proto = "udp" -> UdpIdle
    [] OTHER         -> IcmpIdle

(* SessionTable::new_dual. *)
NewTable(ports) ==
  [next_session_id |-> 1, by_key |-> EmptyMap, sessions |-> EmptyMap,
   deadlines |-> {}, nat |-> NewNat(ports)]

SessionKey(flow, ifindex) == [original |-> flow, ifindex |-> ifindex]

KeyOf(s) == SessionKey(s.original, s.intercept_io.ifindex)

-----------------------------------------------------------------------------
(* Variant: one FIN is enough to close. *)
TcpStateAfterOneFin(state, flag, reverse) ==
  CASE state = NotTcp -> NotTcp
    [] state # NotTcp /\ flag = "rst" -> "Reset"
    [] state # NotTcp /\ flag = "fin" -> IF state = "Reset" THEN state ELSE "Closing"
    [] OTHER -> state

(* touch_tcp: the state a packet leaves the session in.  A FIN closes once *)
(* both directions have sent one; nothing leaves Closing or Reset but RST. *)
TcpStateAfter(state, flag, reverse) ==
  CASE state = NotTcp -> NotTcp
    [] state # NotTcp /\ flag = "rst" -> "Reset"
    [] state # NotTcp /\ flag = "fin" ->
         CASE state = "FinSeenReverse" /\ ~reverse -> "Closing"
           [] state = "FinSeenForward" /\ reverse  -> "Closing"
           [] state \in {"Closing", "Reset"}       -> state
           [] OTHER -> IF reverse THEN "FinSeenReverse" ELSE "FinSeenForward"
    [] OTHER -> state

(* touch_tcp: the idle timeout that goes with it.  A FIN on a session that *)
(* was reset grants it the closing timeout, not the reset one.             *)
TouchTimeout(proto, flag, state) ==
  CASE proto # "tcp"                      -> ProtocolIdleTimeout(proto)
    [] proto = "tcp" /\ flag = "rst"      -> TcpRst
    [] proto = "tcp" /\ flag = "fin"      ->
         IF state \in {"Closing", "Reset"} THEN TcpClosing ELSE TcpIdle
    [] OTHER -> CASE state = "Closing" -> TcpClosing
                  [] state = "Reset"   -> TcpRst
                  [] OTHER             -> TcpIdle

(* Variant: the entry under the old deadline stays behind. *)
TouchTcpKeepsOldDeadline(t, id, flag, reverse, now) ==
  LET s     == t.sessions[id]
      state == TcpStateAfter(s.tcp_state, flag, reverse)
      at    == now + TouchTimeout(s.original.proto, flag, state)
  IN  [t EXCEPT !.sessions  = [@ EXCEPT ![id] = [s EXCEPT !.tcp_state  = state,
                                                          !.expires_at = at]],
                !.deadlines = @ \cup {<<at, id>>}]

(* touch_tcp: the session's deadline moves, in the session and in the      *)
(* deadline index.                                                         *)
TouchTcp(t, id, flag, reverse, now) ==
  LET s     == t.sessions[id]
      state == TcpStateAfter(s.tcp_state, flag, reverse)
      at    == now + TouchTimeout(s.original.proto, flag, state)
  IN  [t EXCEPT !.sessions  = [@ EXCEPT ![id] = [s EXCEPT !.tcp_state  = state,
                                                          !.expires_at = at]],
                !.deadlines = (@ \ {<<s.expires_at, id>>}) \cup {<<at, id>>}]

(* get_or_create_with_flags_at, for a key without a session: a TCP session *)
(* starts Established whatever the flags of its first packet, which only   *)
(* choose its timeout.                                                     *)
CreateTimeout(proto, flag) ==
  CASE proto = "tcp" /\ flag = "rst" -> TcpRst
    [] proto = "tcp" /\ flag = "fin" -> TcpClosing
    [] OTHER                         -> ProtocolIdleTimeout(proto)

Create(t, w, flow, io, quic_flow_id, flag, now) ==
  LET id  == t.next_session_id
      nat == Allocate(t.nat, id, flow, [flow_worker_id |-> w, session_id |-> id], now)
      at  == now + CreateTimeout(flow.proto, flag)
  IN  [next_session_id |-> id + 1,
       by_key    |-> Put(t.by_key, SessionKey(flow, io.ifindex), id),
       sessions  |-> Put(t.sessions, id,
                         [original |-> flow, port |-> nat.forward[id].port,
                          intercept_io |-> io, quic_flow_id |-> quic_flow_id,
                          expires_at |-> at,
                          tcp_state |-> IF flow.proto = "tcp" THEN "Established"
                                                              ELSE NotTcp]),
       deadlines |-> t.deadlines \cup {<<at, id>>},
       nat       |-> nat]

CanCreate(t, flow, now) == CanAllocate(t.nat, t.next_session_id, flow, now)

HasSession(t, flow, ifindex) == SessionKey(flow, ifindex) \in DOMAIN t.by_key

(* get_or_create_with_flags_at as a whole: the table afterwards and the    *)
(* session, or no session when the NAT allocation fails.                   *)
NoSession == 0
GetOrCreate(t, w, flow, io, quic_flow_id, flag, now) ==
  IF HasSession(t, flow, io.ifindex)
  THEN LET id == t.by_key[SessionKey(flow, io.ifindex)]
       IN  [table |-> TouchTcp(t, id, flag, FALSE, now), id |-> id]
  ELSE IF CanCreate(t, flow, now)
       THEN [table |-> Create(t, w, flow, io, quic_flow_id, flag, now),
             id    |-> t.next_session_id]
       ELSE [table |-> [t EXCEPT !.nat = AllocateFailed(@, t.next_session_id, flow, now)],
             id    |-> NoSession]

-----------------------------------------------------------------------------
(* SessionTable::remove, for a batch of existing sessions. *)
RemoveSessions(t, ids, now) ==
  [t EXCEPT !.nat       = RemoveAll(@, ids, now),
            !.sessions  = Restrict(@, DOMAIN @ \ ids),
            !.deadlines = @ \ {<<t.sessions[i].expires_at, i>> : i \in ids},
            !.by_key    = Restrict(@, DOMAIN @ \ {KeyOf(t.sessions[i]) : i \in ids})]

(* correct_intercept_io: only the queue of a session that still has the    *)
(* default queue 0 moves, and never to another interface.                  *)
InterceptIoAccepts(t, id, observed) ==
  LET io == t.sessions[id].intercept_io
  IN  io = observed \/ (io.ifindex = observed.ifindex /\ io.queue_id = 0)

CorrectInterceptIo(t, id, observed) ==
  IF InterceptIoAccepts(t, id, observed)
  THEN [t EXCEPT !.sessions = [@ EXCEPT ![id].intercept_io = observed]]
  ELSE t

(* lookup_reverse_locator finds sessions only: a binding of a DNS          *)
(* transaction has a locator but no session.                               *)
ReverseLocator(t, w, key) ==
  IF /\ HasReverse(t.nat, key)
     /\ t.nat.reverse[key].flow_worker_id = w
     /\ t.nat.reverse[key].session_id \in DOMAIN t.sessions
  THEN {t.nat.reverse[key]}
  ELSE {}

(* expire_idle: the sessions of the lapsed buckets whose own deadline has  *)
(* lapsed too.                                                             *)
Lapsed(t, now) ==
  {id \in DOMAIN t.sessions :
     /\ t.sessions[id].expires_at <= now
     /\ \E d \in t.deadlines : d[2] = id /\ d[1] <= now}

(* Variant: sessions keep the closed flow. *)
RebindNothing(t, old, new) == t

(* rebind_quic_flow. *)
RebindQuicFlow(t, old, new) ==
  [t EXCEPT !.sessions =
     [id \in DOMAIN @ |-> IF @[id].quic_flow_id = old
                          THEN [@[id] EXCEPT !.quic_flow_id = new] ELSE @[id]]]

(* allocate_ephemeral_nat and release_ephemeral_nat: a binding without a   *)
(* session, for a DNS transaction's token.                                 *)
AllocateEphemeral(t, w, token, flow, now) ==
  [t EXCEPT !.nat = Allocate(@, token, flow,
                             [flow_worker_id |-> w, session_id |-> token], now)]

ReleaseEphemeral(t, tokens, now) == [t EXCEPT !.nat = RemoveAll(@, tokens, now)]

-----------------------------------------------------------------------------
(* The key index and the sessions are inverse to each other. *)
KeyIndexExact(t) ==
  /\ \A k \in DOMAIN t.by_key :
       t.by_key[k] \in DOMAIN t.sessions /\ KeyOf(t.sessions[t.by_key[k]]) = k
  /\ \A id \in DOMAIN t.sessions :
       KeyOf(t.sessions[id]) \in DOMAIN t.by_key /\ t.by_key[KeyOf(t.sessions[id])] = id

(* Every session is in the deadline index, under its own deadline only. *)
DeadlineIndexExact(t) ==
  t.deadlines = {<<t.sessions[id].expires_at, id>> : id \in DOMAIN t.sessions}

(* Every session holds the NAT binding it recorded when it was created. *)
SessionsBound(t) ==
  \A id \in DOMAIN t.sessions :
    /\ id \in DOMAIN t.nat.forward
    /\ t.nat.forward[id] = [original |-> t.sessions[id].original,
                            port     |-> t.sessions[id].port]

TableConsistent(t, ports) ==
  /\ NatConsistent(t.nat, ports)
  /\ KeyIndexExact(t)
  /\ DeadlineIndexExact(t)
  /\ SessionsBound(t)
=============================================================================
