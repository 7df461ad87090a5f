------------------------------ MODULE NatTable ------------------------------
(***************************************************************************)
(* The NAT state of one Flow worker (src/src/flow_plane/nat.rs): the free  *)
(* SNAT ports, the bindings by session (forward), the index of the return  *)
(* tuples (reverse) and the tuples that may not be reused yet.  A table is *)
(* a record; each operation of NatTable is an operator from tables to      *)
(* tables, with the condition of its success next to it.                   *)
(*                                                                         *)
(* A flow is [proto, fam, src, raddr, rport]: src stands for the source    *)
(* address together with its port (the identifier, for ICMP), raddr is the *)
(* remote address, rport the remote port (for ICMP, type and code).        *)
(***************************************************************************)
EXTENDS Integers, Functions

CONSTANTS
  SnatFamilies,     \* the address families this node has a SNAT address for
  ReuseQuarantine   \* how long a released return tuple stays reserved, by protocol

Protocols == {"tcp", "udp", "icmp"}

ASSUME QuarantineAssumption == ReuseQuarantine \in [Protocols -> Nat]

(* HashMap::new and HashMap::insert (Restrict is the removal). *)
EmptyMap == [x \in {} |-> x]
Put(f, k, v) == [x \in DOMAIN f \cup {k} |-> IF x = k THEN v ELSE f[x]]

(* ReverseNatKey::from_translated_flow: what a packet that answers the     *)
(* translated flow looks like.  An ICMP answer has another type than the   *)
(* request, so the type is dropped from its key.                           *)
ReverseKey(flow, port) ==
  [proto |-> flow.proto, fam |-> flow.fam, raddr |-> flow.raddr,
   rport |-> IF flow.proto = "icmp" THEN 0 ELSE flow.rport,
   port  |-> port]

BindingKey(b) == ReverseKey(b.original, b.port)

(* NatTable::new_dual. *)
NewNat(ports) ==
  [available_ports |-> ports, forward |-> EmptyMap, reverse |-> EmptyMap,
   quarantined |-> EmptyMap]

(* Variant: the quarantine ends one unit of time early. *)
PurgedEarly(nat, now) ==
  Restrict(nat.quarantined,
           {k \in DOMAIN nat.quarantined : nat.quarantined[k] > now + 1})

(* allocate_at, its retain: the tuples that are still reserved at time now. *)
Purged(nat, now) ==
  Restrict(nat.quarantined,
           {k \in DOMAIN nat.quarantined : nat.quarantined[k] > now})

(* The ports whose return tuple for this flow is neither bound nor         *)
(* quarantined at time now.                                                *)
UsablePorts(nat, flow, now) ==
  {p \in nat.available_ports :
     /\ ReverseKey(flow, p) \notin DOMAIN nat.reverse
     /\ ReverseKey(flow, p) \notin DOMAIN Purged(nat, now)}

Lowest(S) == CHOOSE p \in S : \A q \in S : p <= q

(* allocate_at reaches its port search only for an unbound session and a   *)
(* family with a SNAT address.                                             *)
MayAllocate(nat, id, flow) ==
  id \notin DOMAIN nat.forward /\ flow.fam \in SnatFamilies

CanAllocate(nat, id, flow, now) ==
  MayAllocate(nat, id, flow) /\ UsablePorts(nat, flow, now) # {}

(* allocate_at, successful: the lowest usable port is taken. *)
Allocate(nat, id, flow, locator, now) ==
  LET port == Lowest(UsablePorts(nat, flow, now))
  IN  [available_ports |-> nat.available_ports \ {port},
       forward     |-> Put(nat.forward, id, [original |-> flow, port |-> port]),
       reverse     |-> Put(nat.reverse, ReverseKey(flow, port), locator),
       quarantined |-> Purged(nat, now)]

(* allocate_at, failing: an exhausted port range is noticed after the      *)
(* lapsed quarantines were dropped, the other errors before.               *)
AllocateFailed(nat, id, flow, now) ==
  IF MayAllocate(nat, id, flow)
  THEN [nat EXCEPT !.quarantined = Purged(nat, now)]
  ELSE nat

(* remove_at, for sessions that have a binding.  expire_idle removes a     *)
(* batch; the removals of a batch commute, so a batch is one update.       *)
RemoveAll(nat, ids, now) ==
  LET keys == {BindingKey(nat.forward[i]) : i \in ids}
  IN  [available_ports |-> nat.available_ports \cup {nat.forward[i].port : i \in ids},
       forward     |-> Restrict(nat.forward, DOMAIN nat.forward \ ids),
       reverse     |-> Restrict(nat.reverse, DOMAIN nat.reverse \ keys),
       quarantined |-> [k \in DOMAIN nat.quarantined \cup keys |->
                          IF k \in keys THEN now + ReuseQuarantine[k.proto]
                                        ELSE nat.quarantined[k]]]

(* lookup_reverse, on the normalised return tuple. *)
HasReverse(nat, key) == key \in DOMAIN nat.reverse

-----------------------------------------------------------------------------
(* The free ports and the bound ports partition the worker's range, and no *)
(* two bindings share a port, whatever their protocols and destinations.   *)
PortsPartitioned(nat, ports) ==
  /\ nat.available_ports \cup {nat.forward[i].port : i \in DOMAIN nat.forward} = ports
  /\ \A i \in DOMAIN nat.forward : nat.forward[i].port \notin nat.available_ports
  /\ \A i, j \in DOMAIN nat.forward :
       nat.forward[i].port = nat.forward[j].port => i = j

(* The reverse index holds exactly the return tuples of the bindings, and  *)
(* resolves each to the session that holds the binding.                    *)
ReverseMatchesForward(nat) ==
  /\ \A i \in DOMAIN nat.forward :
       /\ BindingKey(nat.forward[i]) \in DOMAIN nat.reverse
       /\ nat.reverse[BindingKey(nat.forward[i])].session_id = i
  /\ \A k \in DOMAIN nat.reverse :
       /\ nat.reverse[k].session_id \in DOMAIN nat.forward
       /\ BindingKey(nat.forward[nat.reverse[k].session_id]) = k

(* A tuple is never bound and quarantined at once. *)
QuarantineDisjoint(nat) ==
  DOMAIN nat.quarantined \cap DOMAIN nat.reverse = {}

NatConsistent(nat, ports) ==
  /\ PortsPartitioned(nat, ports)
  /\ ReverseMatchesForward(nat)
  /\ QuarantineDisjoint(nat)
=============================================================================
