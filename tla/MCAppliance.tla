---------------------------- MODULE MCAppliance -----------------------------
(* Appliance for TLC.  Each family has seven addresses: 1 the tunnel       *)
(* interface's, 2 the peer's, 3 for NAT, 4 the DNS address, 5 the local    *)
(* resolver's, 6 another host's and 7 one that is not public.  In some     *)
(* configurations one address has two of these parts.                      *)
EXTENDS Appliance

MCV4 == 1..8
MCV6 == 11..17
MCPublic == {2, 3, 5, 6, 12, 13, 15, 16}
MCUnusable == {8}
MCInterfaces == {"wan", "lan"}

At(f, k) == IF f = "v4" THEN k ELSE 10 + k
Whole(f) == {At(f, k) : k \in 1..7}
Other(f) == IF f = "v4" THEN "v6" ELSE "v4"

WidePolicies(f) ==
  {[mode |-> "tunnel", prefixes |-> {Whole(f)}], [mode |-> "direct", prefixes |-> {{At(f, 7)}}]}
MCPolicies(f) ==
  WidePolicies(f)
  \cup {[mode |-> "tunnel", prefixes |-> {{At(f, 6)}, {At(f, 2)}}],
        [mode |-> "direct", prefixes |-> {{At(f, 5), At(f, 6)}, {At(f, 3)}}]}

Base(f) ==
  [role |-> "client", tunnel |-> "wan", intercepts |-> {"lan"},
   endpoint |-> At(f, 2), listen |-> None, port |-> 5, workers |-> 2,
   nat |-> [g \in Families |-> IF g = f THEN At(f, 3) ELSE None], ports |-> [start |-> 2, end |-> 4],
   policy |-> [mode |-> "tunnel", prefixes |-> {Whole(f)}],
   dns |-> [listen |-> At(f, 4), local |-> At(f, 5), remote |-> At(f, 6)]]

MCTerm == [start |-> 2, end |-> 5]
In(c, wan, lan) ==
  [config |-> c, addresses |-> [i \in Interfaces |-> IF i = "wan" THEN wan ELSE lan],
   terms |-> {MCTerm}, reloads |-> {}]

(* Every way to share addresses between the parts, with DNS. *)
Shared(f) ==
  {In([Base(f) EXCEPT !.endpoint = At(f, e), !.nat[f] = At(f, n), !.dns.listen = At(f, v),
                      !.dns.local = At(f, r), !.intercepts = s, !.policy = q],
      {At(f, 1)} \cup (IF onWan THEN {At(f, v)} ELSE {}),
      IF onWan THEN {} ELSE {At(f, v)}) :
     e \in {1, 2}, n \in {1, 2, 3}, v \in {3, 4}, r \in {1, 2, 3, 5}, onWan \in BOOLEAN,
     s \in {{"lan"}, {"wan", "lan"}}, q \in WidePolicies(f)}

(* Without DNS, on one interface or two; the tunnel in either family. *)
Plain(f) ==
  {In([Base(f) EXCEPT !.endpoint = At(g, e), !.nat[f] = At(f, n), !.dns = None,
                      !.intercepts = s, !.policy = q], {At(g, 1)}, {}) :
     e \in {1, 2}, n \in {1, 2, 3}, g \in Families, s \in {{"wan"}, {"wan", "lan"}}, q \in MCPolicies(f)}

(* The DNS address on the tunnel interface, whose tunnel is of the other family. *)
Crossed(f) ==
  {In([Base(f) EXCEPT !.endpoint = At(Other(f), 2), !.intercepts = s, !.dns.local = At(f, r)],
      {At(Other(f), 1), At(f, 4)}, {}) : s \in {{"wan"}, {"wan", "lan"}}, r \in {1, 3, 5}}

Servers(f) ==
  {In([Base(f) EXCEPT !.role = "server", !.endpoint = None, !.listen = At(f, e), !.nat[f] = At(f, n),
                      !.policy = None, !.dns = None, !.intercepts = s], {At(f, 1)}, {}) :
     e \in {1, 2}, n \in {1, 3}, s \in {{"wan"}, {"lan"}}}

(* Files that are refused, the terms of the sysctl, and reloads. *)
Refused ==
  {In([Base("v4") EXCEPT !.nat["v4"] = 8], {1}, {4}), In([Base("v4") EXCEPT !.dns.local = 15], {1}, {4}),
   In([Base("v4") EXCEPT !.workers = 4], {1}, {4}), In([Base("v4") EXCEPT !.policy = None], {1}, {4}),
   In([Base("v4") EXCEPT !.nat["v4"] = None], {1}, {4}), In([Base("v4") EXCEPT !.listen = 1], {1}, {4})}
Sysctls == {[In(Base("v4"), {1}, {4}) EXCEPT !.terms = Terms]}
Reloading(f) ==
  {[In([Base(f) EXCEPT !.policy = q], {At(f, 1)}, {At(f, 4)})
      EXCEPT !.reloads = {[Base(f) EXCEPT !.policy = n] : n \in MCPolicies(f)}
                         \cup {[Base(f) EXCEPT !.dns = None], [Base(f) EXCEPT !.dns.listen = At(f, 7)]}] :
     q \in MCPolicies(f)}

MCInputs ==
  Refused \cup Sysctls
  \cup UNION {Shared(f) \cup Plain(f) \cup Crossed(f) \cup Servers(f) \cup Reloading(f) : f \in Families}

Packet(dst, src, proto, sport, dport, frag, udp) ==
  [ip |-> "ok", dst |-> dst, src |-> src, proto |-> proto, sport |-> sport, dport |-> dport,
   frag |-> frag, udp |-> udp]
Frags(f) == {"none", "first", "later"} \cup (IF f = "v6" THEN {"atomic"} ELSE {})

(* From another host and, with DNS, from the local resolver.  Port 1 is    *)
(* 53, 2 to 4 are for NAT and 5 is the tunnel's.                           *)
PacketsTo(f, sources) ==
  {Packet(At(f, d), s, "udp", sp, dp, fr, "exact") :
     d \in 1..7, s \in sources, sp \in {1, 3}, dp \in {1, 3, 5}, fr \in Frags(f)}
  \cup {Packet(At(f, d), s, "udp", 1, dp, "none", u) :
          d \in 1..7, s \in sources, dp \in {1, 3, 5}, u \in {"short", "bad"}}
  \cup {Packet(At(f, d), s, t, 1, 3, fr, "exact") :
          d \in 1..7, s \in sources, t \in {"tcp", "other"}, fr \in Frags(f)}

MCPackets(c) ==
  LET f == IF c.nat["v4"] # None THEN "v4" ELSE "v6"
  IN  PacketsTo(f, {At(f, 6)} \cup (IF c.dns = None THEN {} ELSE {c.dns.local}))
      \cup {Packet(At(Other(f), d), At(Other(f), 6), "udp", 3, 5, "none", "exact") : d \in {1, 2, 6}}
      \cup {[Packet(6, 7, "echo", 3, 3, "none", "exact") EXCEPT !.ip = i] : i \in {"ok", "malformed", "other"}}
=============================================================================
