------------------------------ MODULE DnsTable ------------------------------
(***************************************************************************)
(* The DNS transactions of one client Flow worker (FlowWorkerState in      *)
(* src/src/flow_plane/worker.rs): by transaction key, by return tuple and  *)
(* by deadline.  A worker state is [table, dns]: a transaction holds a     *)
(* binding of the session table's NAT under its token, without a session.  *)
(*                                                                         *)
(* A query q stands for its transaction key (IO owner, client endpoint,    *)
(* DNS id and question): q.src is the client endpoint, q.ask the DNS id    *)
(* and question, q.remote says that the question matches a remote domain   *)
(* rule.                                                                   *)
(***************************************************************************)
EXTENDS SessionTable, FiniteSets

CONSTANTS
  LocalResolver, RemoteResolver,   \* addresses of the two resolvers
  DnsTimeout,                      \* DnsFlowConfig.timeout
  DnsCapacity,                     \* DnsFlowConfig.transaction_capacity
  DnsBit                           \* tokens start here (bit 63)

ASSUME DnsAssumption ==
  /\ LocalResolver # RemoteResolver
  /\ DnsTimeout \in Nat /\ DnsCapacity \in Nat /\ DnsBit \in Nat
  /\ 4 \in SnatFamilies  \* ensure_resolver_family: the resolvers' family has a SNAT address

NewDns == [next_token |-> 1, by_key |-> EmptyMap, by_reverse |-> EmptyMap,
           deadlines |-> {}]

(* The flow of a query once its resolver is selected. *)
SelectedFlow(q) ==
  [proto |-> "udp", fam |-> 4, src |-> q.src,
   raddr |-> IF q.remote THEN RemoteResolver ELSE LocalResolver, rport |-> 53]

IsOpen(ws, q) == q \in DOMAIN ws.dns.by_key
Token(ws) == DnsBit + ws.dns.next_token
KeyOfTransaction(tr) == ReverseKey(SelectedFlow(tr.query), tr.port)

(* handle_dns_query_at, its early answers: a new query is refused when its *)
(* resolver is behind a tunnel that is not up, or at capacity.             *)
Refused(ws, q, remote_available) ==
  \/ q.remote /\ ~remote_available
  \/ Cardinality(DOMAIN ws.dns.by_key) >= DnsCapacity

CanOpen(ws, q, now) == CanAllocate(ws.table.nat, Token(ws), SelectedFlow(q), now)

(* next_dns_session_token, with a NAT allocation that fails. *)
OpenFailed(ws, q, now) ==
  [ws EXCEPT !.table.nat = AllocateFailed(@, Token(ws), SelectedFlow(q), now),
             !.dns.next_token = @ + 1]

(* handle_dns_query_at, successful. *)
Open(ws, w, q, now) ==
  LET token == Token(ws)
      table == AllocateEphemeral(ws.table, w, token, SelectedFlow(q), now)
      tr    == [token |-> token, query |-> q, port |-> table.nat.forward[token].port,
                expires_at |-> now + DnsTimeout]
  IN  [table |-> table,
       dns   |-> [next_token |-> ws.dns.next_token + 1,
                  by_key     |-> Put(ws.dns.by_key, q, tr),
                  by_reverse |-> Put(ws.dns.by_reverse, KeyOfTransaction(tr), q),
                  deadlines  |-> ws.dns.deadlines \cup {<<tr.expires_at, q>>}]]

(* Variant: the transaction stays, with its binding released. *)
RemoveTransactionsKeepsKey(ws, qs, now) ==
  [ws EXCEPT !.table = ReleaseEphemeral(@, {ws.dns.by_key[q].token : q \in qs}, now)]

(* remove_dns_transaction, for a batch of open transactions. *)
RemoveTransactions(ws, qs, now) ==
  LET trs == {ws.dns.by_key[q] : q \in qs}
  IN  [table |-> ReleaseEphemeral(ws.table, {tr.token : tr \in trs}, now),
       dns   |-> [ws.dns EXCEPT
                    !.by_key     = Restrict(@, DOMAIN @ \ qs),
                    !.by_reverse = Restrict(@, DOMAIN @ \ {KeyOfTransaction(tr) : tr \in trs}),
                    !.deadlines  = @ \ {<<ws.dns.by_key[q].expires_at, q>> : q \in qs}]]

(* Variant: local transactions are left to the resolver. *)
LapsedQueriesRemote(ws, now) ==
  {q \in DOMAIN ws.dns.by_key : q.remote /\ \E d \in ws.dns.deadlines : d[2] = q /\ d[1] <= now}

(* expire_dns_transactions: the keys of the lapsed deadline buckets. *)
LapsedQueries(ws, now) ==
  {q \in DOMAIN ws.dns.by_key : \E d \in ws.dns.deadlines : d[2] = q /\ d[1] <= now}

(* abort_remote_dns_transactions. *)
RemoteQueries(ws) == {q \in DOMAIN ws.dns.by_key : q.remote}

(* dns_reverse_matches: the tuple's transaction is the one the locator names. *)
DnsReverseMatches(ws, w, key, locator) ==
  /\ locator.flow_worker_id = w
  /\ key \in DOMAIN ws.dns.by_reverse
  /\ ws.dns.by_key[ws.dns.by_reverse[key]].token = locator.session_id

-----------------------------------------------------------------------------
(* The three indexes describe the same transactions, and each transaction  *)
(* holds its NAT binding; the bindings without a transaction are sessions. *)
DnsConsistent(ws) ==
  /\ \A q \in DOMAIN ws.dns.by_key :
       LET tr == ws.dns.by_key[q]
       IN  /\ tr.query = q
           /\ KeyOfTransaction(tr) \in DOMAIN ws.dns.by_reverse
           /\ ws.dns.by_reverse[KeyOfTransaction(tr)] = q
           /\ tr.token \in DOMAIN ws.table.nat.forward
           /\ ws.table.nat.forward[tr.token] = [original |-> SelectedFlow(q), port |-> tr.port]
  /\ \A k \in DOMAIN ws.dns.by_reverse :
       /\ ws.dns.by_reverse[k] \in DOMAIN ws.dns.by_key
       /\ KeyOfTransaction(ws.dns.by_key[ws.dns.by_reverse[k]]) = k
  /\ ws.dns.deadlines = {<<ws.dns.by_key[q].expires_at, q>> : q \in DOMAIN ws.dns.by_key}
  /\ DOMAIN ws.table.nat.forward =
       DOMAIN ws.table.sessions \cup {ws.dns.by_key[q].token : q \in DOMAIN ws.dns.by_key}
=============================================================================
