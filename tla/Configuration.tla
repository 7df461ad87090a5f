--------------------------- MODULE Configuration ----------------------------
(***************************************************************************)
(* What ApplianceConfig::parse (src/src/v1_config.rs) and                  *)
(* PreparedRuntime::build (src/src/xdp_datapath/runtime.rs) accept, and    *)
(* what they derive from it: the maps of the XDP programs and the          *)
(* IoClassifierConfigs of the IO workers.                                  *)
(*                                                                         *)
(* A configuration is the record of the fields that are checked or used    *)
(* here; keys, certificates, MAC addresses, names and the syntax of the    *)
(* file are left out.                                                      *)
(***************************************************************************)
EXTENDS Classifier, FiniteSets

CONSTANT Unusable    \* addresses is_usable_host_address refuses

Usable(a) == a \in Addresses \ Unusable
NatIps(c) == {c.nat[f] : f \in Families} \ {None}
Peer(c) == IF c.listen # None THEN c.listen ELSE c.endpoint

-----------------------------------------------------------------------------
(* parse_dns_config, and the comparison with the tunnel after it. *)
DnsAccepted(c) ==
  c.dns # None =>
    /\ c.role = "client"
    /\ \A a \in {c.dns.listen, c.dns.local, c.dns.remote} :
         Usable(a) /\ Family(a) = Family(c.dns.listen) /\ c.nat[Family(a)] # None
    /\ c.dns.listen \notin NatIps(c) \cup {c.dns.local, c.dns.remote, Peer(c)}

(* parse_ip_policy, which a client has to have and a server must not. *)
PolicyAccepted(c) ==
  IF c.role = "client" THEN c.policy # None /\ c.policy.prefixes # {} ELSE c.policy = None

(* ApplianceConfig::parse. *)
ParseAccepts(c) ==
  /\ c.intercepts # {} /\ (c.role = "server" => Cardinality(c.intercepts) = 1)
  /\ c.workers > 0
  /\ IF c.role = "client" THEN c.endpoint # None /\ c.listen = None
                          ELSE c.listen # None /\ c.endpoint = None
  /\ Usable(Peer(c))
  /\ NatIps(c) # {} /\ \A a \in NatIps(c) : Usable(a) /\ a # Peer(c)
  /\ Valid(c.ports) /\ Length(c.ports) >= c.workers
  /\ PolicyAccepted(c) /\ DnsAccepted(c)

-----------------------------------------------------------------------------
(* resolve_tunnel_local_ips: the addresses, one if the check passes. *)
TunnelLocalIps(c, addresses) ==
  LET own == addresses[c.tunnel]
  IN  IF c.role = "client" THEN {a \in own : Family(a) = Family(c.endpoint)}
                           ELSE own \cap {c.listen}

(* validate_dns_runtime_addresses. *)
DnsOwners(c, addresses) ==
  IF c.dns = None THEN {} ELSE {i \in c.intercepts : c.dns.listen \in addresses[i]}

DnsPlaced(c, addresses) ==
  c.dns # None =>
    /\ c.dns.listen \notin TunnelLocalIps(c, addresses) \cup NatIps(c)
    /\ Cardinality(DnsOwners(c, addresses)) = 1

(* merge_interfaces. *)
Roles(c, i) == [tunnel |-> i = c.tunnel, intercept |-> i \in c.intercepts]
NoRoles == [tunnel |-> FALSE, intercept |-> FALSE]
OfFamily(ips) == [f \in Families |->
  IF \E a \in ips : Family(a) = f THEN CHOOSE a \in ips : Family(a) = f ELSE None]

(* The policy of the role: a server takes what comes back to its NAT addresses. *)
PolicyOf(c) ==
  IF c.role = "client" THEN c.policy
  ELSE [mode |-> "tunnel", prefixes |-> {{a} : a \in NatIps(c)}]

XdpForcedLocalIps(c, locals) ==
  locals \cup {Peer(c)} \cup (IF c.dns = None THEN {} ELSE {c.dns.listen})

Override(old, keys, action) ==
  [x \in DOMAIN old \cup keys |-> IF x \in keys THEN action ELSE old[x]]

(* Variant: no entries for the appliance's own addresses. *)
PolicyAlone(old, c, locals) ==
  Override(Override(old, PolicyOf(c).prefixes,
                    IF PolicyOf(c).mode = "tunnel" THEN "redirect" ELSE "pass"),
           {{a} : a \in NatIps(c)}, "redirect")

(* Variant: no entries for the NAT addresses. *)
NatForgotten(old, c, locals) ==
  Override(Override(old, PolicyOf(c).prefixes,
                    IF PolicyOf(c).mode = "tunnel" THEN "redirect" ELSE "pass"),
           {{a} : a \in XdpForcedLocalIps(c, locals)}, "pass")

(* allowed_v4 and allowed_v6: the policy, over it the appliance's own      *)
(* addresses, over them the NAT addresses.  An entry is never removed.     *)
Allowed(old, c, locals) ==
  Override(Override(Override(old, PolicyOf(c).prefixes,
                             IF PolicyOf(c).mode = "tunnel" THEN "redirect" ELSE "pass"),
                    {{a} : a \in XdpForcedLocalIps(c, locals)}, "pass"),
           {{a} : a \in NatIps(c)}, "redirect")

NoMaps == [tunnel_port |-> 0, tunnel_ip |-> OfFamily({}), dns_ip |-> OfFamily({}),
           dns_local |-> OfFamily({}), dns_nat_ports |-> [start |-> 0, end |-> 0],
           mode |-> "tunnel", allowed |-> [x \in {} |-> "pass"]]

(* dns_local_response_classifier, and the same in configure_bpf_maps. *)
LocalResponse(c) == [resolver |-> c.dns.local, nat |-> c.nat[Family(c.dns.local)]]

(* configure_bpf_maps, for one interface; locals and owner are fixed when  *)
(* the program starts.                                                     *)
ConfigureBpfMaps(m, c, i, locals, owner) ==
  LET dns == i \in c.intercepts /\ i \in owner /\ c.dns # None
  IN  [tunnel_port |-> c.port,
       tunnel_ip   |-> OfFamily(locals),
       dns_ip      |-> OfFamily(IF dns THEN {c.dns.listen} ELSE {}),
       dns_local   |-> [f \in Families |->
                          IF dns /\ Family(c.dns.local) = f /\ c.nat[f] # None
                          THEN LocalResponse(c) ELSE None],
       dns_nat_ports |-> IF dns THEN c.ports ELSE m.dns_nat_ports,
       mode        |-> IF i \in c.intercepts THEN PolicyOf(c).mode ELSE m.mode,
       allowed     |-> IF i \in c.intercepts THEN Allowed(m.allowed, c, locals) ELSE m.allowed]

(* The IoClassifierConfig run gives to the IO workers of an interface. *)
IoClassifierConfig(c, i, locals, owner) ==
  LET dns == i \in c.intercepts /\ i \in owner /\ c.dns # None
  IN  [tunnel |-> i = c.tunnel, intercept |-> i \in c.intercepts,
       tunnel_port |-> c.port,
       tunnel_local_ips |-> IF i = c.tunnel THEN locals ELSE {},
       nat_return_ips |-> NatIps(c), nat_ports |-> c.ports,
       dns_listen |-> IF dns THEN c.dns.listen ELSE None,
       dns_local_response |-> IF dns THEN LocalResponse(c) ELSE None,
       policy |-> PolicyOf(c)]
=============================================================================
