----------------------------- MODULE Classifier -----------------------------
(***************************************************************************)
(* The two classifiers every frame passes: the XDP program                 *)
(* (src/src/xdp_datapath/xdp_filter.c), driven by the maps that            *)
(* configure_bpf_maps fills, and IoWorker::handle_frame                    *)
(* (src/src/xdp_datapath/io_worker.rs), driven by an IoClassifierConfig.   *)
(*                                                                         *)
(* A prefix is the set of the addresses it covers, a longer prefix being a *)
(* smaller set.  Of a packet the fields the classifiers read are kept:     *)
(*   ip    "ok", "malformed" or "other" (neither IPv4 nor IPv6)            *)
(*   proto after the extension headers: "udp", "tcp" (a whole header),     *)
(*         "echo" (ICMP echo) or "other"                                   *)
(*   frag  "none", "first", "later" or, for IPv6, "atomic" (a fragment     *)
(*         header on a whole packet)                                       *)
(*   udp   the length in the UDP header: "exact", "short" (it leaves bytes *)
(*         of the packet over) or "bad"                                    *)
(***************************************************************************)
EXTENDS PortRanges

CONSTANTS
  V4, V6,     \* addresses
  Public,     \* the ones is_public_v4, is_public_v6 and is_public_destination accept
  DnsPort,    \* 53
  None

Addresses == V4 \cup V6
Families == {"v4", "v6"}
Family(a) == IF a \in V4 THEN "v4" ELSE "v6"

-----------------------------------------------------------------------------
(* The kernel's side: m holds the maps of an interface, r its role flags.  *)

Fragmented(p) == p.frag \in {"first", "later"}
ToTunnel(m, p) == m.tunnel_ip[Family(p.dst)] = p.dst
ToVip(m, p) == m.dns_ip[Family(p.dst)] = p.dst

(* is_dns_local_response_v4 and _v6. *)
FromResolver(m, p) ==
  LET d == m.dns_local[Family(p.dst)]
  IN  d # None /\ p.src = d.resolver /\ p.dst = d.nat

(* The outer QUIC packets of a tunnel interface: IPv6 fragments are dropped. *)
IsOuter(m, r, p) == r.tunnel /\ p.proto = "udp" /\ ToTunnel(m, p)
OuterBroken(p) == p.udp = "bad" \/ (Family(p.dst) = "v6" /\ Fragmented(p))

VipAction(p) ==
  IF p.proto # "udp" THEN "pass"
  ELSE IF p.frag = "later" \/ p.udp = "bad" THEN "drop"
  ELSE IF p.dport # DnsPort THEN "pass"
  ELSE IF Fragmented(p) THEN "drop" ELSE "redirect"

IsResponse(m, r, p) ==
  r.intercept /\ FromResolver(m, p) /\ (p.proto = "udp" \/ Family(p.dst) = "v6")
ResponseBroken(p) == Fragmented(p) \/ (p.proto = "udp" /\ p.udp = "bad")
ResponsePorts(m, p) ==
  p.proto = "udp" /\ p.sport = DnsPort /\ p.dport \in PortsIn(m.dns_nat_ports)

(* The lookup in allowed_v4 or allowed_v6: the longest prefix decides. *)
Matching(m, a) == {x \in DOMAIN m.allowed : a \in x}
Longest(m, a, x) == x \in Matching(m, a) /\ \A y \in Matching(m, a) : x \subseteq y

(* Variant: in "direct" mode every address that is not listed is taken. *)
InterceptActionPrivate(m, p) ==
  LET wanted == IF Matching(m, p.dst) # {}
                THEN \E x \in DOMAIN m.allowed :
                       Longest(m, p.dst, x) /\ m.allowed[x] = "redirect"
                ELSE m.mode = "direct"
  IN  IF ~wanted THEN "pass" ELSE IF Fragmented(p) THEN "drop" ELSE "redirect"

(* intercept_action_v4 and intercept_action_v6. *)
InterceptAction(m, p) ==
  LET wanted == IF Matching(m, p.dst) # {}
                THEN \E x \in DOMAIN m.allowed :
                       Longest(m, p.dst, x) /\ m.allowed[x] = "redirect"
                ELSE m.mode = "direct" /\ p.dst \in Public
  IN  IF ~wanted THEN "pass" ELSE IF Fragmented(p) THEN "drop" ELSE "redirect"

(* Variant: what else comes to the tunnel address is left to the policy. *)
FilterProgTunnelShared(m, r, p) ==
  IF (~r.tunnel /\ ~r.intercept) \/ p.ip = "other" THEN "pass"
  ELSE IF p.ip = "malformed" THEN "drop"
  ELSE IF IsOuter(m, r, p) /\ OuterBroken(p) THEN "drop"
  ELSE IF IsOuter(m, r, p) /\ p.dport = m.tunnel_port THEN "redirect"
  ELSE IF r.intercept /\ ToVip(m, p) THEN VipAction(p)
  ELSE IF IsResponse(m, r, p) /\ ResponseBroken(p) THEN "drop"
  ELSE IF IsResponse(m, r, p) /\ ResponsePorts(m, p) THEN "redirect"
  ELSE IF r.intercept THEN InterceptAction(m, p) ELSE "pass"

(* xdp_filter_prog. *)
FilterProg(m, r, p) ==
  IF (~r.tunnel /\ ~r.intercept) \/ p.ip = "other" THEN "pass"
  ELSE IF p.ip = "malformed" THEN "drop"
  ELSE IF IsOuter(m, r, p) /\ OuterBroken(p) THEN "drop"
  ELSE IF IsOuter(m, r, p) /\ p.dport = m.tunnel_port THEN "redirect"
  ELSE IF r.intercept /\ ToVip(m, p) THEN VipAction(p)
  ELSE IF IsResponse(m, r, p) /\ ResponseBroken(p) THEN "drop"
  ELSE IF IsResponse(m, r, p) /\ ResponsePorts(m, p) THEN "redirect"
  ELSE IF r.tunnel /\ ToTunnel(m, p) THEN "pass"
  ELSE IF r.intercept THEN InterceptAction(m, p) ELSE "pass"

-----------------------------------------------------------------------------
(* The IO worker's side: c is its IoClassifierConfig. *)

(* build_flow_key: the transport headers a flow may have. *)
HasTransport(p) == p.proto \in {"tcp", "echo"} \/ (p.proto = "udp" /\ p.udp = "exact")

(* parse_flow_key: any fragment header is refused. *)
FlowKeyOk(p) == p.frag = "none" /\ HasTransport(p)

(* intercept_allowed. *)
InterceptAllowed(c, a) ==
  LET covered == \E x \in c.policy.prefixes : a \in x
  IN  IF c.policy.mode = "tunnel" THEN covered ELSE a \in Public /\ ~covered

IsDnsVipQuery(c, p) ==
  c.dns_listen # None /\ p.dst = c.dns_listen /\ p.proto = "udp" /\ p.dport = DnsPort

IsDnsLocalResolverResponse(c, p) ==
  /\ c.dns_local_response # None
  /\ p.src = c.dns_local_response.resolver /\ p.dst = c.dns_local_response.nat
  /\ p.proto = "udp" /\ p.sport = DnsPort /\ p.dport \in PortsIn(c.nat_ports)

(* parse_outer_quic and the lookup of the DCID it finds: quic says whether *)
(* the DCID is "active" or that of a first packet ("initial"), and whether *)
(* the header is "invalid".                                                *)
Outer(c, p, quic) ==
  IF p.proto # "udp" THEN "passed"
  ELSE IF p.udp = "bad" /\ p.dport = c.tunnel_port THEN "dropped"
  ELSE IF p.dport # c.tunnel_port THEN "passed"
  ELSE IF quic \in {"active", "initial"} THEN "tunnel" ELSE "dropped"

(* IoWorker::handle_frame; hit says whether the reverse-NAT directory has  *)
(* the packet's tuple.                                                     *)
HandleFrame(c, p, quic, hit) ==
  IF p.ip # "ok" THEN "dropped"
  ELSE IF c.tunnel /\ p.dst \in c.tunnel_local_ips THEN Outer(c, p, quic)
  ELSE IF ~c.intercept THEN "passed"
  ELSE IF ~FlowKeyOk(p) THEN "dropped"
  ELSE IF IsDnsVipQuery(c, p) THEN "query"
  ELSE IF hit THEN "return"
  ELSE IF IsDnsLocalResolverResponse(c, p) \/ p.dst \in c.nat_return_ips THEN "dropped"
  ELSE IF InterceptAllowed(c, p.dst) THEN "intercept" ELSE "passed"
=============================================================================
