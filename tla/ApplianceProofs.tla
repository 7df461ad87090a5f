-------------------------- MODULE ApplianceProofs ---------------------------
(***************************************************************************)
(* The kernel's classifier and the IO worker's agree for every             *)
(* configuration the appliance accepts, any host and any packet.           *)
(***************************************************************************)
EXTENDS Appliance, FiniteSetTheorems, TLAPS

(* What the checks at startup establish of a configuration c and a host    *)
(* with these addresses.                                                   *)
Sound(c, addresses) ==
  /\ c \in Configs /\ \A f \in Families : c.nat[f] # None => Family(c.nat[f]) = f
  /\ ParseAccepts(c)
  /\ \E a \in Addresses : TunnelLocalIps(c, addresses) = {a}
  /\ DnsPlaced(c, addresses)

(* The maps of an interface as long as its classifier is on. *)
StartMaps(c, addresses, i) ==
  ConfigureBpfMaps(NoMaps, c, i, TunnelLocalIps(c, addresses), DnsOwners(c, addresses))
StartIo(c, addresses, i) ==
  IoClassifierConfig(c, i, TunnelLocalIps(c, addresses), DnsOwners(c, addresses))

LEMMA FamilyIn == \A a : Family(a) \in Families
BY Zenon DEF Family, Families

(* The map of the tunnel's address holds it and nothing else. *)
LEMMA OfFamilySingleton ==
  ASSUME NEW a, NEW d, d # None
  PROVE  OfFamily({a})[Family(d)] = d <=> d = a
<1>1. Family(d) \in Families BY FamilyIn, Zenon
<1>2. CASE \E b \in {a} : Family(b) = Family(d)
  <2>1. (CHOOSE b \in {a} : Family(b) = Family(d)) = a BY <1>2, Zenon
  <2>2. OfFamily({a})[Family(d)] = a BY <1>1, <1>2, <2>1, Zenon DEF OfFamily
  <2> QED BY <2>2, Zenon
<1>3. CASE ~\E b \in {a} : Family(b) = Family(d)
  <2>1. OfFamily({a})[Family(d)] = None BY <1>1, <1>3, Zenon DEF OfFamily
  <2> QED BY <1>3, <2>1, Zenon
<1> QED BY <1>2, <1>3, Zenon

LEMMA OfFamilyEmpty ==
  ASSUME NEW d PROVE OfFamily({})[Family(d)] = None
BY FamilyIn, Zenon DEF OfFamily

(* A redirect entry of the LPM maps is the policy's or a NAT address's. *)
LEMMA RedirectEntry ==
  ASSUME NEW c, NEW locals, NEW x,
         x \in DOMAIN Allowed(NoMaps.allowed, c, locals),
         Allowed(NoMaps.allowed, c, locals)[x] = "redirect"
  PROVE  \/ \E a \in NatIps(c) : x = {a}
         \/ x \in PolicyOf(c).prefixes /\ PolicyOf(c).mode = "tunnel"
<1>1. DOMAIN NoMaps.allowed = {} BY Zenon DEF NoMaps
<1> QED BY <1>1, Zenon DEF Allowed, Override

(* Every prefix of the policy has an entry. *)
LEMMA PolicyEntries ==
  ASSUME NEW c, NEW locals
  PROVE  PolicyOf(c).prefixes \subseteq DOMAIN Allowed(NoMaps.allowed, c, locals)
BY Zenon DEF Allowed, Override

(* The address of a DNS answer is no tunnel address of the interface it    *)
(* comes in on.  The check on the number of tunnel addresses gives this: a *)
(* tunnel interface that owned the DNS address as well would have two      *)
(* addresses of that family.                                               *)
LEMMA ResponseNotTunnel ==
  ASSUME NEW c, NEW addresses, Sound(c, addresses), c.dns # None,
         c.tunnel \in DnsOwners(c, addresses)
  PROVE  c.nat[Family(c.dns.local)] \notin TunnelLocalIps(c, addresses)
<1> DEFINE f == Family(c.dns.local)
           locals == TunnelLocalIps(c, addresses)
<1>1. c.role = "client" /\ Family(c.dns.local) = Family(c.dns.listen) /\ c.nat[f] # None
  BY Zenon DEF Sound, ParseAccepts, DnsAccepted
<1>2. c.dns.listen \in addresses[c.tunnel] BY Zenon DEF DnsOwners
<1>3. c.dns.listen \notin locals BY Zenon DEF Sound, DnsPlaced
<1>4. Family(c.nat[f]) = f BY <1>1, FamilyIn, Zenon DEF Sound
<1>5. locals = {a \in addresses[c.tunnel] : Family(a) = Family(c.endpoint)}
  BY <1>1, Zenon DEF TunnelLocalIps
<1> HIDE DEF locals
<1> QED BY <1>1, <1>2, <1>3, <1>4, <1>5, Zenon DEF locals

(* The four ways to be redirected, on an interface whose classifier is on. *)
LEMMA RedirectCases ==
  ASSUME NEW c, NEW addresses, NEW i, NEW p,
         FilterProg(StartMaps(c, addresses, i), Roles(c, i), p) = "redirect"
  PROVE  LET m == StartMaps(c, addresses, i)
             r == Roles(c, i)
         IN  \/ IsOuter(m, r, p) /\ p.dport = m.tunnel_port
             \/ r.intercept /\ ToVip(m, p) /\ VipAction(p) = "redirect"
             \/ IsResponse(m, r, p) /\ ~ResponseBroken(p) /\ ResponsePorts(m, p)
             \/ r.intercept /\ ~(r.tunnel /\ ToTunnel(m, p)) /\ InterceptAction(m, p) = "redirect"
BY Zenon DEF FilterProg

(* The tunnel address of the map is the address of the worker's list. *)
LEMMA TunnelAddress ==
  ASSUME NEW c, NEW addresses, NEW i, NEW p, Sound(c, addresses), p.dst \in Addresses
  PROVE  ToTunnel(StartMaps(c, addresses, i), p) <=> p.dst \in TunnelLocalIps(c, addresses)
<1>1. PICK a \in Addresses : TunnelLocalIps(c, addresses) = {a} BY Zenon DEF Sound
<1>2. p.dst # None BY ApplianceAssumption, Zenon
<1>3. OfFamily({a})[Family(p.dst)] = p.dst <=> p.dst = a BY <1>2, OfFamilySingleton, Zenon
<1>4. StartMaps(c, addresses, i).tunnel_ip = OfFamily({a})
  BY <1>1, Zenon DEF StartMaps, ConfigureBpfMaps
<1> QED BY <1>1, <1>3, <1>4, Zenon DEF ToTunnel

(* The DNS address of the map is the one of the worker, and no tunnel      *)
(* address.                                                                *)
LEMMA DnsAddress ==
  ASSUME NEW c, NEW addresses, NEW i, NEW p, Sound(c, addresses), p.dst \in Addresses,
         ToVip(StartMaps(c, addresses, i), p)
  PROVE  /\ i \in DnsOwners(c, addresses) /\ c.dns # None /\ p.dst = c.dns.listen
         /\ StartIo(c, addresses, i).dns_listen = p.dst
         /\ p.dst \notin TunnelLocalIps(c, addresses)
<1> DEFINE dns == i \in c.intercepts /\ i \in DnsOwners(c, addresses) /\ c.dns # None
<1>1. p.dst # None BY ApplianceAssumption, Zenon
<1>2. StartMaps(c, addresses, i).dns_ip = OfFamily(IF dns THEN {c.dns.listen} ELSE {})
  BY Zenon DEF StartMaps, ConfigureBpfMaps
<1>3. OfFamily(IF dns THEN {c.dns.listen} ELSE {})[Family(p.dst)] = p.dst
  BY <1>2, Zenon DEF ToVip
<1>4. dns BY <1>1, <1>3, OfFamilyEmpty, Zenon
<1>5. p.dst = c.dns.listen BY <1>1, <1>3, <1>4, OfFamilySingleton, Zenon
<1>6. StartIo(c, addresses, i).dns_listen = c.dns.listen
  BY <1>4, Zenon DEF StartIo, IoClassifierConfig
<1>7. c.dns.listen \notin TunnelLocalIps(c, addresses) BY <1>4, Zenon DEF Sound, DnsPlaced
<1> QED BY <1>4, <1>5, <1>6, <1>7, Zenon

(* A frame that the XDP program redirects is not passed by the IO worker.  *)
LEMMA TakenByIoWorker ==
  ASSUME NEW c, NEW addresses, NEW i, NEW p, NEW quic, NEW hit,
         Sound(c, addresses), p.dst \in Addresses,
         FilterProg(StartMaps(c, addresses, i), Roles(c, i), p) = "redirect"
  PROVE  HandleFrame(StartIo(c, addresses, i), p, quic, hit) # "passed"
<1> DEFINE m == StartMaps(c, addresses, i)
           r == Roles(c, i)
           k == StartIo(c, addresses, i)
           locals == TunnelLocalIps(c, addresses)
<1>1. r.tunnel = (i = c.tunnel) /\ r.intercept = (i \in c.intercepts) BY Zenon DEF Roles
<1>2. ToTunnel(m, p) <=> p.dst \in locals BY TunnelAddress, Zenon
<1>3. /\ k.tunnel = (i = c.tunnel) /\ k.intercept = (i \in c.intercepts)
      /\ k.tunnel_port = c.port /\ m.tunnel_port = c.port
      /\ k.tunnel_local_ips = IF i = c.tunnel THEN locals ELSE {}
      /\ k.nat_return_ips = NatIps(c) /\ k.nat_ports = c.ports /\ k.policy = PolicyOf(c)
  BY Zenon DEF StartIo, IoClassifierConfig, StartMaps, ConfigureBpfMaps
<1>4. CASE IsOuter(m, r, p) /\ p.dport = m.tunnel_port
  <2>1. i = c.tunnel /\ p.proto = "udp" /\ p.dst \in locals
    BY <1>1, <1>2, <1>4, Zenon DEF IsOuter
  <2> HIDE DEF m, r, k, locals
  <2>2. Outer(k, p, quic) # "passed" BY <1>3, <1>4, <2>1, Zenon DEF Outer
  <2> QED BY <1>3, <2>1, <2>2, Zenon DEF HandleFrame, k
<1>5. CASE r.intercept /\ ToVip(m, p) /\ VipAction(p) = "redirect"
  <2>1. k.dns_listen = p.dst /\ p.dst \notin locals BY <1>5, DnsAddress, Zenon
  <2>2. p.proto = "udp" /\ p.dport = DnsPort BY <1>5, Zenon DEF VipAction
  <2>3. i \in c.intercepts BY <1>1, <1>5, Zenon
  <2>4. p.dst # None BY ApplianceAssumption, Zenon
  <2> HIDE DEF m, r, k, locals
  <2>5. IsDnsVipQuery(k, p) BY <2>1, <2>2, <2>4, Zenon DEF IsDnsVipQuery
  <2> QED BY <1>3, <2>1, <2>3, <2>5, ZenonT(30) DEF HandleFrame, k
<1>6. CASE IsResponse(m, r, p) /\ ~ResponseBroken(p) /\ ResponsePorts(m, p)
  <2>1. m.dns_local[Family(p.dst)] # None /\ p.dst = m.dns_local[Family(p.dst)].nat
        /\ i \in c.intercepts
    BY <1>1, <1>6, ZenonT(30) DEF IsResponse, FromResolver
  <2>2. /\ i \in DnsOwners(c, addresses) /\ c.dns # None
        /\ m.dns_local[Family(p.dst)] = LocalResponse(c)
    BY <2>1, FamilyIn, Zenon DEF StartMaps, ConfigureBpfMaps
  <2>3. p.dst = c.nat[Family(c.dns.local)] BY <2>1, <2>2, SMTT(30) DEF LocalResponse
  <2>4. i = c.tunnel => p.dst \notin locals BY <2>2, <2>3, ResponseNotTunnel, Zenon
  <2>5. p.dst # None BY ApplianceAssumption, Zenon
  <2>6. p.dst \in NatIps(c) BY <2>3, <2>5, FamilyIn, Zenon DEF NatIps
  <2> HIDE DEF m, r, k, locals
  <2> QED BY <1>3, <2>1, <2>4, <2>6, Zenon DEF HandleFrame, k
<1>7. CASE r.intercept /\ ~(r.tunnel /\ ToTunnel(m, p)) /\ InterceptAction(m, p) = "redirect"
  <2>1. i \in c.intercepts /\ (i = c.tunnel => p.dst \notin locals)
    BY <1>1, <1>2, <1>7, ZenonT(30)
  <2>2. m.mode = PolicyOf(c).mode /\ m.allowed = Allowed(NoMaps.allowed, c, locals)
    BY <2>1, Zenon DEF StartMaps, ConfigureBpfMaps
  <2>3. p.dst \in NatIps(c) \/ InterceptAllowed(k, p.dst)
    <3> HIDE DEF m, r, k, locals
    <3>1. CASE Matching(m, p.dst) # {}
      <4>1. PICK x \in DOMAIN m.allowed : p.dst \in x /\ m.allowed[x] = "redirect"
        BY <1>7, <3>1, Zenon DEF InterceptAction, Longest, Matching
      <4>2. \/ \E a \in NatIps(c) : x = {a}
            \/ x \in PolicyOf(c).prefixes /\ PolicyOf(c).mode = "tunnel"
        BY <2>2, <4>1, RedirectEntry, Zenon
      <4> QED BY <1>3, <4>1, <4>2, Zenon DEF InterceptAllowed
    <3>2. CASE Matching(m, p.dst) = {}
      <4>1. PolicyOf(c).mode = "direct" /\ p.dst \in Public
        BY <1>7, <2>2, <3>2, Zenon DEF InterceptAction
      <4>2. \A x \in PolicyOf(c).prefixes : p.dst \notin x
        BY <2>2, <3>2, PolicyEntries, Zenon DEF Matching
      <4> QED BY <1>3, <4>1, <4>2, Zenon DEF InterceptAllowed
    <3> QED BY <3>1, <3>2, Zenon
  <2> HIDE DEF m, r, k, locals
  <2> QED BY <1>3, <2>1, <2>3, Zenon DEF HandleFrame, k
<1> QED BY <1>4, <1>5, <1>6, <1>7, RedirectCases, Zenon

(* The entry of an address of the appliance itself. *)
LEMMA OwnEntry ==
  ASSUME NEW c, NEW locals, NEW a
  PROVE  /\ a \in NatIps(c) =>
              /\ {a} \in DOMAIN Allowed(NoMaps.allowed, c, locals)
              /\ Allowed(NoMaps.allowed, c, locals)[{a}] = "redirect"
         /\ a \in XdpForcedLocalIps(c, locals) \ NatIps(c) =>
              /\ {a} \in DOMAIN Allowed(NoMaps.allowed, c, locals)
              /\ Allowed(NoMaps.allowed, c, locals)[{a}] = "pass"
<1>1. CASE a \in NatIps(c) BY <1>1, ZenonT(30) DEF Allowed, Override
<1>2. CASE a \in XdpForcedLocalIps(c, locals) \ NatIps(c)
  <2>1. {a} \notin {{b} : b \in NatIps(c)} BY <1>2, Zenon
  <2> QED BY <1>2, <2>1, Zenon DEF Allowed, Override
<1> QED BY <1>1, <1>2, Zenon

(* Of the frames for the appliance itself, the policy redirects none. *)
LEMMA OwnRedirected ==
  ASSUME NEW c, NEW addresses, NEW i, NEW p, Sound(c, addresses), p.dst \in Addresses,
         FilterProg(StartMaps(c, addresses, i), Roles(c, i), p) = "redirect",
         p.dst \in XdpForcedLocalIps(c, TunnelLocalIps(c, addresses)) \ NatIps(c)
  PROVE  /\ p.proto = "udp"
         /\ \/ p.dst \in TunnelLocalIps(c, addresses) /\ p.dport = c.port /\ i = c.tunnel
            \/ /\ c.dns # None /\ p.dst = c.dns.listen /\ p.dport = DnsPort
               /\ i \in DnsOwners(c, addresses)
<1> DEFINE m == StartMaps(c, addresses, i)
           r == Roles(c, i)
           locals == TunnelLocalIps(c, addresses)
<1>1. r.tunnel = (i = c.tunnel) /\ r.intercept = (i \in c.intercepts) BY Zenon DEF Roles
<1>2. ToTunnel(m, p) <=> p.dst \in locals BY TunnelAddress, Zenon
<1>3. m.tunnel_port = c.port BY Zenon DEF StartMaps, ConfigureBpfMaps
<1>4. CASE IsOuter(m, r, p) /\ p.dport = m.tunnel_port
  BY <1>1, <1>2, <1>3, <1>4, ZenonT(30) DEF IsOuter
<1>5. CASE r.intercept /\ ToVip(m, p) /\ VipAction(p) = "redirect"
  <2>1. i \in DnsOwners(c, addresses) /\ c.dns # None /\ p.dst = c.dns.listen
    BY <1>5, DnsAddress, Zenon
  <2>2. p.proto = "udp" /\ p.dport = DnsPort BY <1>5, Zenon DEF VipAction
  <2> QED BY <2>1, <2>2, Zenon
<1>6. CASE IsResponse(m, r, p) /\ ~ResponseBroken(p) /\ ResponsePorts(m, p)
  <2>1. m.dns_local[Family(p.dst)] # None /\ p.dst = m.dns_local[Family(p.dst)].nat
    BY <1>6, Zenon DEF IsResponse, FromResolver
  <2>2. m.dns_local[Family(p.dst)] = LocalResponse(c)
    BY <2>1, FamilyIn, ZenonT(30) DEF StartMaps, ConfigureBpfMaps
  <2>3. p.dst = c.nat[Family(c.dns.local)] BY <2>1, <2>2 DEF LocalResponse
  <2>4. p.dst # None BY ApplianceAssumption, Zenon
  <2>5. p.dst \in NatIps(c) BY <2>3, <2>4, FamilyIn, Zenon DEF NatIps
  <2> QED BY <2>5, Zenon
<1>7. CASE r.intercept /\ ~(r.tunnel /\ ToTunnel(m, p)) /\ InterceptAction(m, p) = "redirect"
  <2>1. m.allowed = Allowed(NoMaps.allowed, c, locals)
    BY <1>1, <1>7, Zenon DEF StartMaps, ConfigureBpfMaps
  <2> HIDE DEF m, r
  <2>2. {p.dst} \in DOMAIN m.allowed /\ m.allowed[{p.dst}] = "pass" BY <2>1, OwnEntry, ZenonT(30)
  <2>3. {p.dst} \in Matching(m, p.dst) BY <2>2, Zenon DEF Matching
  <2>4. PICK x : Longest(m, p.dst, x) /\ m.allowed[x] = "redirect"
    BY <1>7, <2>3, Zenon DEF InterceptAction
  <2>5. x = {p.dst} BY <2>3, <2>4, Zenon DEF Longest, Matching
  <2> QED BY <2>2, <2>4, <2>5, Zenon
<1> QED BY <1>4, <1>5, <1>6, <1>7, RedirectCases, Zenon

(* The XDP program does not pass a packet for a NAT address, and the IO    *)
(* worker asks the directory.                                              *)
LEMMA NatClosed ==
  ASSUME NEW c, NEW addresses, NEW i, NEW p, NEW quic, NEW hit,
         Sound(c, addresses), p.dst \in Addresses, p.ip = "ok", i \in c.intercepts,
         p.dst \in NatIps(c), i = c.tunnel => p.dst \notin TunnelLocalIps(c, addresses)
  PROVE  /\ FilterProg(StartMaps(c, addresses, i), Roles(c, i), p) # "pass"
         /\ HandleFrame(StartIo(c, addresses, i), p, quic, hit) \in {"return", "dropped"}
<1> DEFINE m == StartMaps(c, addresses, i)
           r == Roles(c, i)
           k == StartIo(c, addresses, i)
           locals == TunnelLocalIps(c, addresses)
<1>1. r.tunnel = (i = c.tunnel) /\ r.intercept BY Zenon DEF Roles
<1>2. ToTunnel(m, p) <=> p.dst \in locals BY TunnelAddress, Zenon
<1>3. ~IsOuter(m, r, p) BY <1>1, <1>2, Zenon DEF IsOuter
<1>4. c.dns # None => p.dst # c.dns.listen BY Zenon DEF Sound, ParseAccepts, DnsAccepted
<1>5. ~ToVip(m, p) BY <1>4, DnsAddress, Zenon
<1>6. InterceptAction(m, p) # "pass"
  <2>1. m.allowed = Allowed(NoMaps.allowed, c, locals) BY Zenon DEF StartMaps, ConfigureBpfMaps
  <2> HIDE DEF m, r
  <2>2. {p.dst} \in DOMAIN m.allowed /\ m.allowed[{p.dst}] = "redirect" BY <2>1, OwnEntry
  <2>3. Longest(m, p.dst, {p.dst}) BY <2>2, Zenon DEF Longest, Matching
  <2>4. Matching(m, p.dst) # {} BY <2>2, Zenon DEF Matching
  <2> QED BY <2>2, <2>3, <2>4, Zenon DEF InterceptAction
<1>7. FilterProg(m, r, p) # "pass"
  <2> HIDE DEF m, r
  <2> QED BY <1>1, <1>2, <1>3, <1>5, <1>6, Zenon DEF FilterProg
<1>8. /\ k.tunnel = (i = c.tunnel) /\ k.intercept
      /\ k.tunnel_local_ips = IF i = c.tunnel THEN locals ELSE {}
      /\ k.nat_return_ips = NatIps(c)
      /\ k.dns_listen # None => c.dns # None /\ k.dns_listen = c.dns.listen
  BY Zenon DEF StartIo, IoClassifierConfig
<1>9. HandleFrame(k, p, quic, hit) \in {"return", "dropped"}
  <2> HIDE DEF k, locals
  <2>1. ~IsDnsVipQuery(k, p) BY <1>4, <1>8, Zenon DEF IsDnsVipQuery
  <2> QED BY <1>8, <2>1, Zenon DEF HandleFrame, locals
<1> QED BY <1>7, <1>9, Zenon

(* The search in the LPM maps finds an entry: the prefixes an address is   *)
(* in are nested and finite, so one of them is the longest.                *)
NestedIn(S) == \A x, y \in S : x \cap y = {} \/ x \subseteq y \/ y \subseteq x
AllHold(S, a) == \A x \in S : a \in x
HasLongest(S) == \E x \in S : \A y \in S : x \subseteq y

LEMMA LeastNumber == ASSUME NEW S, S \subseteq Nat, S # {} PROVE \E n \in S : \A k \in S : n <= k
<1> DEFINE R == OpToRel(<, Nat)
<1>1. IsWellFoundedOn(R, Nat) BY NatLessThanWellFounded, Zenon
<1> HIDE DEF R
<1>2. PICK n \in S : \A k \in S : ~(<<k, n>> \in R) BY <1>1, WFMin, Zenon
<1>3. ASSUME NEW k \in S PROVE n <= k
  <2>1. <<k, n>> \in Nat \X Nat /\ <<k, n>>[1] = k /\ <<k, n>>[2] = n BY Zenon
  <2>2. ~(k < n) BY <1>2, <2>1, Zenon DEF R, OpToRel
  <2> QED BY <2>2
<1> QED BY <1>3, Zenon

LEMMA LongestExists ==
  ASSUME NEW S, S \subseteq SUBSET Addresses, S # {}, NestedIn(S), NEW a, AllHold(S, a)
  PROVE  HasLongest(S)
<1> DEFINE C == {Cardinality(x) : x \in S}
<1>1. ASSUME NEW x \in S PROVE IsFiniteSet(x) /\ Cardinality(x) \in Nat
  <2>1. IsFiniteSet(Addresses) /\ x \in SUBSET Addresses BY ApplianceAssumption, Zenon
  <2>2. IsFiniteSet(x) BY <2>1, FS_Subset, Zenon
  <2> QED BY <2>2, FS_CardinalityType, Zenon
<1>2. C \subseteq Nat /\ C # {} BY <1>1, Zenon
<1>3. PICK n \in C : \A k \in C : n <= k BY <1>2, LeastNumber, Zenon
<1>4. PICK x \in S : Cardinality(x) = n BY Zenon
<1>5. ASSUME NEW y \in S PROVE x \subseteq y
  <2>1. x \subseteq y \/ y \subseteq x
    <3>1. a \in x \cap y BY Zenon DEF AllHold
    <3> QED BY <3>1, Zenon DEF NestedIn
  <2>2. CASE y \subseteq x
    <3>1. Cardinality(y) <= Cardinality(x) /\ (Cardinality(x) = Cardinality(y) => x = y)
      BY <1>1, <2>2, FS_Subset, Zenon
    <3>2. Cardinality(x) <= Cardinality(y) BY <1>3, <1>4, Zenon
    <3>3. Cardinality(x) \in Nat /\ Cardinality(y) \in Nat BY <1>1, Zenon
    <3>4. Cardinality(x) = Cardinality(y) BY <3>1, <3>2, <3>3
    <3> QED BY <3>1, <3>4, Zenon
  <2> QED BY <2>1, <2>2, Zenon
<1> QED BY <1>5, Zenon DEF HasLongest

(* The policy of the role lists prefixes, and has a mode. *)
LEMMA PolicyShape ==
  ASSUME NEW c, NEW addresses, Sound(c, addresses)
  PROVE  /\ PolicyOf(c).mode \in {"tunnel", "direct"}
         /\ PolicyOf(c).prefixes \subseteq SUBSET Addresses
<1>1. c \in Configs /\ ParseAccepts(c) BY Zenon DEF Sound
<1>2. CASE c.role = "client"
  <2>1. c.policy \in Policies BY <1>1, <1>2, Zenon DEF ParseAccepts, PolicyAccepted, Configs
  <2>2. PolicyOf(c) = c.policy BY <1>2, Zenon DEF PolicyOf
  <2> QED BY <2>1, <2>2, Zenon DEF Policies
<1>3. CASE c.role # "client"
  <2>1. PolicyOf(c) = [mode |-> "tunnel", prefixes |-> {{a} : a \in NatIps(c)}]
    BY <1>3, Zenon DEF PolicyOf
  <2>2. NatIps(c) \subseteq Addresses BY <1>1 DEF NatIps, Configs
  <2> QED BY <2>1, <2>2
<1> QED BY <1>2, <1>3, Zenon

(* The entries that an address not of the appliance matches are those of   *)
(* the policy.                                                             *)
LEMMA PolicyMatches ==
  ASSUME NEW c, NEW locals, NEW m, NEW d,
         m.allowed = Allowed(NoMaps.allowed, c, locals),
         d \notin XdpForcedLocalIps(c, locals) \cup NatIps(c)
  PROVE  /\ Matching(m, d) = {x \in PolicyOf(c).prefixes : d \in x}
         /\ \A x \in Matching(m, d) :
              m.allowed[x] = IF PolicyOf(c).mode = "tunnel" THEN "redirect" ELSE "pass"
<1> DEFINE P == PolicyOf(c).prefixes
           F == {{a} : a \in XdpForcedLocalIps(c, locals)}
           N == {{a} : a \in NatIps(c)}
           v == IF PolicyOf(c).mode = "tunnel" THEN "redirect" ELSE "pass"
           w == Override(NoMaps.allowed, P, v)
           u == Override(w, F, "pass")
<1>1. DOMAIN NoMaps.allowed = {} BY Zenon DEF NoMaps
<1>2. m.allowed = Override(u, N, "redirect") BY Zenon DEF Allowed
<1>3. \A x \in F \cup N : d \notin x BY Zenon
<1> HIDE DEF F, N, v
<1>4. DOMAIN w = P /\ \A x \in P : w[x] = v
  <2> HIDE DEF P
  <2> QED BY <1>1, Zenon DEF Override, w
<1> HIDE DEF w
<1>5. DOMAIN u = P \cup F /\ \A x \in (P \cup F) \ F : u[x] = v
  <2> HIDE DEF P
  <2> QED BY <1>4, Zenon DEF Override, u
<1> HIDE DEF u
<1>6. /\ DOMAIN m.allowed = P \cup F \cup N
      /\ \A x \in (P \cup F \cup N) \ (F \cup N) : m.allowed[x] = v
  <2> HIDE DEF P
  <2> QED BY <1>2, <1>5, Zenon DEF Override
<1>7. Matching(m, d) = {x \in P : d \in x}
  <2> HIDE DEF P
  <2> QED BY <1>3, <1>6, Zenon DEF Matching
<1>8. ASSUME NEW x \in Matching(m, d) PROVE m.allowed[x] = v
  <2>1. x \in P /\ d \in x BY <1>7, Zenon
  <2> HIDE DEF P
  <2> QED BY <1>3, <1>6, <2>1, Zenon
<1> QED BY <1>7, <1>8, Zenon DEF v

(* The verdict on a packet for an address that is not the appliance's. *)
LEMMA PolicyVerdict ==
  ASSUME NEW c, NEW addresses, NEW i, NEW p, Sound(c, addresses), NestedIn(PolicyOf(c).prefixes),
         p.dst \in Addresses, p.ip = "ok", i \in c.intercepts,
         p.dst \notin XdpForcedLocalIps(c, TunnelLocalIps(c, addresses)) \cup NatIps(c)
  PROVE  FilterProg(StartMaps(c, addresses, i), Roles(c, i), p)
           = IF ~InterceptAllowed(StartIo(c, addresses, i), p.dst) THEN "pass"
             ELSE IF Fragmented(p) THEN "drop" ELSE "redirect"
<1> DEFINE m == StartMaps(c, addresses, i)
           r == Roles(c, i)
           k == StartIo(c, addresses, i)
           locals == TunnelLocalIps(c, addresses)
           M == Matching(m, p.dst)
<1>1. r.tunnel = (i = c.tunnel) /\ r.intercept BY Zenon DEF Roles
<1>2. /\ p.dst \notin locals /\ p.dst \notin NatIps(c)
      /\ c.dns # None => p.dst # c.dns.listen
  BY Zenon DEF XdpForcedLocalIps
<1>3. ~ToTunnel(m, p) BY <1>2, TunnelAddress, Zenon
<1>4. ~IsOuter(m, r, p) BY <1>3, Zenon DEF IsOuter
<1>5. ~ToVip(m, p) BY <1>2, DnsAddress, Zenon
<1>6. ~IsResponse(m, r, p)
  <2> SUFFICES ASSUME IsResponse(m, r, p) PROVE FALSE BY Zenon
  <2>1. m.dns_local[Family(p.dst)] # None /\ p.dst = m.dns_local[Family(p.dst)].nat
    BY Zenon DEF IsResponse, FromResolver
  <2>2. m.dns_local[Family(p.dst)] = LocalResponse(c)
    BY <2>1, FamilyIn, ZenonT(30) DEF StartMaps, ConfigureBpfMaps
  <2>3. p.dst = c.nat[Family(c.dns.local)] BY <2>1, <2>2 DEF LocalResponse
  <2>4. p.dst # None BY ApplianceAssumption, Zenon
  <2>5. p.dst \in NatIps(c) BY <2>3, <2>4, FamilyIn, Zenon DEF NatIps
  <2> QED BY <1>2, <2>5, Zenon
<1>7. /\ m.mode = PolicyOf(c).mode /\ m.allowed = Allowed(NoMaps.allowed, c, locals)
      /\ k.policy = PolicyOf(c)
  BY Zenon DEF StartMaps, ConfigureBpfMaps, StartIo, IoClassifierConfig
<1>8. FilterProg(m, r, p) = InterceptAction(m, p)
  <2> HIDE DEF m, r
  <2>1. p.ip # "other" /\ p.ip # "malformed" BY Zenon
  <2> QED BY <1>1, <1>3, <1>4, <1>5, <1>6, <2>1, Zenon DEF FilterProg
<1> HIDE DEF m, r, k, locals
<1>9. /\ M = {x \in PolicyOf(c).prefixes : p.dst \in x}
      /\ \A x \in M : m.allowed[x] = IF PolicyOf(c).mode = "tunnel" THEN "redirect" ELSE "pass"
  <2>1. p.dst \notin XdpForcedLocalIps(c, locals) \cup NatIps(c) BY Zenon DEF locals
  <2> QED BY <1>7, <2>1, PolicyMatches
<1>10. /\ PolicyOf(c).mode \in {"tunnel", "direct"}
       /\ PolicyOf(c).prefixes \subseteq SUBSET Addresses
  BY PolicyShape, Zenon
<1>11. M \subseteq DOMAIN m.allowed BY Zenon DEF Matching
<1> HIDE DEF M
<1>12. CASE M # {}
  <2>1. M \subseteq SUBSET Addresses /\ NestedIn(M) /\ AllHold(M, p.dst)
    BY <1>9, <1>10, Zenon DEF NestedIn, AllHold
  <2>2. PICK x \in M : \A y \in M : x \subseteq y
    BY <1>12, <2>1, LongestExists, Zenon DEF HasLongest
  <2>3. Longest(m, p.dst, x) /\ x \in DOMAIN m.allowed BY <1>11, <2>2, Zenon DEF Longest, M
  <2>4. \A y : Longest(m, p.dst, y) => y \in M BY Zenon DEF Longest, M
  <2>5. (\E y \in DOMAIN m.allowed : Longest(m, p.dst, y) /\ m.allowed[y] = "redirect")
          <=> PolicyOf(c).mode = "tunnel"
    <3>1. CASE PolicyOf(c).mode = "tunnel" BY <1>9, <2>2, <2>3, <3>1, Zenon
    <3>2. CASE PolicyOf(c).mode # "tunnel"
      <4>1. \A y \in M : m.allowed[y] # "redirect" BY <1>9, <3>2, Zenon
      <4> QED BY <2>4, <3>2, <4>1, Zenon
    <3> QED BY <3>1, <3>2, Zenon
  <2>6. InterceptAllowed(k, p.dst) <=> PolicyOf(c).mode = "tunnel"
    BY <1>7, <1>9, <1>12, Zenon DEF InterceptAllowed
  <2> QED BY <1>8, <1>12, <2>5, <2>6, Zenon DEF InterceptAction, M, m, r, k
<1>13. CASE M = {}
  <2>1. InterceptAllowed(k, p.dst) <=> PolicyOf(c).mode = "direct" /\ p.dst \in Public
    <3>1. ~\E x \in PolicyOf(c).prefixes : p.dst \in x BY <1>9, <1>13, Zenon
    <3>2. "tunnel" # "direct" BY Zenon
    <3> QED BY <1>7, <1>10, <3>1, <3>2, Zenon DEF InterceptAllowed
  <2> QED BY <1>7, <1>8, <1>13, <2>1, Zenon DEF InterceptAction, M, m, r, k
<1> QED BY <1>12, <1>13, Zenon

(* And what the IO worker does with it, without a hit in the directory. *)
LEMMA PolicyHandled ==
  ASSUME NEW c, NEW addresses, NEW i, NEW p, NEW quic,
         p.ip = "ok", i \in c.intercepts, p.dst \in Addresses,
         p.dst \notin XdpForcedLocalIps(c, TunnelLocalIps(c, addresses)) \cup NatIps(c),
         InterceptAllowed(StartIo(c, addresses, i), p.dst)
  PROVE  HandleFrame(StartIo(c, addresses, i), p, quic, FALSE)
           = IF FlowKeyOk(p) THEN "intercept" ELSE "dropped"
<1> DEFINE k == StartIo(c, addresses, i)
           locals == TunnelLocalIps(c, addresses)
<1>1. /\ p.dst \notin locals /\ p.dst \notin NatIps(c)
      /\ c.dns # None => p.dst # c.dns.listen
  BY Zenon DEF XdpForcedLocalIps
<1>2. /\ k.intercept /\ k.tunnel_local_ips = IF i = c.tunnel THEN locals ELSE {}
      /\ k.nat_return_ips = NatIps(c)
      /\ k.dns_listen # None => c.dns # None /\ k.dns_listen = c.dns.listen
      /\ k.dns_local_response # None => c.dns # None /\ k.dns_local_response = LocalResponse(c)
  BY Zenon DEF StartIo, IoClassifierConfig
<1> HIDE DEF k, locals
<1>3. p.dst \notin k.tunnel_local_ips BY <1>1, <1>2, Zenon
<1>4. ~IsDnsVipQuery(k, p) BY <1>1, <1>2, Zenon DEF IsDnsVipQuery
<1>5. ~IsDnsLocalResolverResponse(k, p)
  <2> SUFFICES ASSUME IsDnsLocalResolverResponse(k, p) PROVE FALSE BY Zenon
  <2>1. k.dns_local_response # None /\ p.dst = k.dns_local_response.nat
    BY Zenon DEF IsDnsLocalResolverResponse
  <2>2. p.dst = LocalResponse(c).nat BY <1>2, <2>1, Zenon
  <2>3. p.dst = c.nat[Family(c.dns.local)] BY <2>2, Zenon DEF LocalResponse
  <2>4. p.dst # None BY ApplianceAssumption, Zenon
  <2>5. p.dst \in NatIps(c) BY <2>3, <2>4, FamilyIn, Zenon DEF NatIps
  <2> QED BY <1>1, <2>5, Zenon
<1> QED BY <1>1, <1>2, <1>3, <1>4, <1>5, Zenon DEF HandleFrame, k

-----------------------------------------------------------------------------
(* The inductive invariant.  While a classifier is on, its maps are the    *)
(* ones of the start; a reload, which changes them, has switched it off.   *)
Setup ==
  /\ input \in Inputs /\ config \in Configs
  /\ config.tunnel = input.config.tunnel /\ config.intercepts = input.config.intercepts
  /\ stage \in {"reserve", "built"} => config = input.config /\ ParseAccepts(config)
  /\ stage = "reserve" => \A i \in Interfaces : maps[i] = NoMaps
  /\ stage \in {"built", "running"} => Sound(input.config, input.addresses)
  /\ stage = "built" =>
       \A i \in Used : maps[i] = StartMaps(input.config, input.addresses, i)
  /\ stage = "running" => \A i \in Used :
       /\ io[i] = StartIo(input.config, input.addresses, i)
       /\ \/ flags[i] = NoRoles
          \/ /\ flags[i] = Roles(input.config, i)
             /\ maps[i] = StartMaps(input.config, input.addresses, i)

Verdict(i, p) == FilterProg(StartMaps(input.config, input.addresses, i), Roles(input.config, i), p)
Handled(i, p, quic, hit) == HandleFrame(StartIo(input.config, input.addresses, i), p, quic, hit)

Outcome(i, p, o) ==
  \E quic, hit :
    LET h == Handled(i, p, quic, hit)
    IN  /\ hit \in {MayHit(p), FALSE}
        /\ o = h \/ (o = "rejected" /\ h \notin {"passed", "dropped"})

(* A frame was judged by the maps of the start, or passed by a classifier  *)
(* that is off; only a redirected one has an outcome.                      *)
FrameJudged ==
  frame # None =>
    /\ stage = "running" /\ DOMAIN frame = {"interface", "packet", "outcome", "verdict"}
    /\ frame.interface \in Used /\ frame.packet.dst \in Addresses
    /\ \/ frame.verdict = "pass" /\ flags[frame.interface] = NoRoles
       \/ frame.verdict = Verdict(frame.interface, frame.packet)
    /\ frame.outcome # None =>
         /\ frame.verdict = "redirect"
         /\ Outcome(frame.interface, frame.packet, frame.outcome)

Inv == Setup /\ FrameJudged

LEMMA UsedInterfaces == Setup => Used \subseteq Interfaces
BY Zenon DEF Setup, Used, Configs

LEMMA InitInv == Init => Inv
<1> SUFFICES ASSUME Init PROVE Inv BY Zenon
<1>1. input \in Inputs /\ config = input.config /\ config \in Configs
  BY ApplianceAssumption, Zenon DEF Init
<1>2. stage \in {"reserve", "refused"} /\ (stage = "reserve" => ParseAccepts(config))
  BY Zenon DEF Init
<1>3. \A i \in Interfaces : maps[i] = NoMaps BY Zenon DEF Init
<1>4. frame = None BY Zenon DEF Init
<1> QED BY <1>1, <1>2, <1>3, <1>4, Zenon DEF Inv, Setup, FrameJudged

(* The checks of build make the configuration a sound one. *)
LEMMA BuildSound ==
  ASSUME Setup, stage = "reserve", BuildAccepts(config, input.addresses)
  PROVE  Sound(input.config, input.addresses)
<1> DEFINE c == input.config
           locals == TunnelLocalIps(c, input.addresses)
<1>1. config = c /\ ParseAccepts(c) /\ c \in Configs /\ input \in Inputs BY Zenon DEF Setup
<1>2. \A f \in Families : c.nat[f] # None => Family(c.nat[f]) = f
  BY <1>1, ApplianceAssumption, Zenon
<1>3. c.tunnel \in Interfaces BY <1>1, Zenon DEF Configs
<1>4. input.addresses[c.tunnel] \subseteq Addresses /\ IsFiniteSet(input.addresses[c.tunnel])
  BY <1>1, <1>3, ApplianceAssumption, Zenon
<1>5. locals \subseteq input.addresses[c.tunnel] BY Zenon DEF TunnelLocalIps
<1>6. IsFiniteSet(locals) BY <1>4, <1>5, FS_Subset, Zenon
<1>7. Cardinality(locals) = 1 /\ DnsPlaced(c, input.addresses) BY <1>1, Zenon DEF BuildAccepts
<1> HIDE DEF locals
<1>8. \E a : locals = {a} BY <1>6, <1>7, FS_Singleton, Zenon
<1>9. \E a \in Addresses : locals = {a} BY <1>4, <1>5, <1>8, Zenon
<1> QED BY <1>1, <1>2, <1>7, <1>9, Zenon DEF Sound, locals

LEMMA BuildKeepsInv == ASSUME Inv, Build PROVE Inv'
<1>1. stage = "reserve" /\ frame = None /\ UNCHANGED <<input, config, flags, io, frame>>
  BY Zenon DEF Build, Inv, FrameJudged
<1>2. FrameJudged' BY <1>1, Zenon DEF FrameJudged
<1>3. config = input.config /\ ParseAccepts(config) /\ Used' = Used
  BY <1>1, Zenon DEF Inv, Setup, Used
<1>4. CASE BuildAccepts(config, input.addresses)
  <2>1. Sound(input.config, input.addresses) BY <1>1, <1>4, BuildSound, Zenon DEF Inv
  <2>2. stage' = "built" BY <1>4, Zenon DEF Build
  <2>3. \A i \in Used : maps'[i] = StartMaps(input.config, input.addresses, i)
    <3> SUFFICES ASSUME NEW i \in Used
                 PROVE  maps'[i] = StartMaps(input.config, input.addresses, i)
      BY Zenon
    <3>1. i \in Interfaces BY UsedInterfaces, Zenon DEF Inv
    <3>2. maps[i] = NoMaps BY <1>1, <3>1, Zenon DEF Inv, Setup
    <3>3. maps'[i] = ConfigureBpfMaps(maps[i], config, i, Locals, Owner)
      BY <1>4, <3>1, Zenon DEF Build
    <3> QED BY <1>3, <3>2, <3>3, Zenon DEF StartMaps, Locals, Owner
  <2> QED BY <1>1, <1>2, <1>3, <2>1, <2>2, <2>3, Zenon DEF Inv, Setup
<1>5. CASE ~BuildAccepts(config, input.addresses)
  <2>1. stage' = "refused" BY <1>5, Zenon DEF Build
  <2> QED BY <1>1, <1>2, <1>3, <2>1, Zenon DEF Inv, Setup
<1> QED BY <1>4, <1>5, Zenon

LEMMA StartKeepsInv == ASSUME Inv, Start PROVE Inv'
<1>1. /\ stage = "built" /\ stage' = "running" /\ frame = None
      /\ UNCHANGED <<input, config, maps, frame>>
  BY Zenon DEF Start, Inv, FrameJudged
<1>2. FrameJudged' BY <1>1, Zenon DEF FrameJudged
<1>3. config = input.config /\ Used' = Used /\ Sound(input.config, input.addresses)
  BY <1>1, Zenon DEF Inv, Setup, Used
<1>4. ASSUME NEW i \in Used
      PROVE  /\ io'[i] = StartIo(input.config, input.addresses, i)
             /\ flags'[i] = Roles(input.config, i)
             /\ maps'[i] = StartMaps(input.config, input.addresses, i)
  <2>1. i \in Interfaces BY UsedInterfaces, Zenon DEF Inv
  <2>2. io'[i] = IoClassifierConfig(config, i, Locals, Owner) /\ flags'[i] = Roles(config, i)
    BY <2>1, Zenon DEF Start
  <2>3. maps[i] = StartMaps(input.config, input.addresses, i) BY <1>1, Zenon DEF Inv, Setup
  <2> QED BY <1>1, <1>3, <2>2, <2>3, Zenon DEF StartIo, Locals, Owner
<1> QED BY <1>1, <1>2, <1>3, <1>4, Zenon DEF Inv, Setup

LEMMA ReloadKeepsInv == ASSUME Inv, NEW c \in input.reloads, Reload(c) PROVE Inv'
<1>1. /\ stage = "running" /\ UNCHANGED <<stage, input, io, frame>>
      /\ config' = [config EXCEPT !.policy = c.policy, !.dns = c.dns]
      /\ flags' = [i \in Interfaces |-> NoRoles]
  BY Zenon DEF Reload
<1>2. c \in Configs /\ config \in Configs /\ input \in Inputs
  BY ApplianceAssumption, Zenon DEF Inv, Setup
<1>3. /\ config' \in Configs /\ config'.tunnel = config.tunnel
      /\ config'.intercepts = config.intercepts
  BY <1>1, <1>2, Zenon DEF Configs
<1>4. Used' = Used /\ Used \subseteq Interfaces BY <1>3, UsedInterfaces, Zenon DEF Used, Inv
<1>5. \A i \in Used : flags'[i] = NoRoles BY <1>1, <1>4, Zenon
<1>6. Setup' BY <1>1, <1>2, <1>3, <1>4, <1>5, Zenon DEF Inv, Setup
<1>7. FrameJudged'
  <2>1. ASSUME frame # None PROVE flags'[frame.interface] = NoRoles
    BY <1>5, <2>1, Zenon DEF Inv, FrameJudged
  <2> QED BY <1>1, <1>4, <2>1 DEF Inv, FrameJudged, Verdict, Outcome, Handled, MayHit
<1> QED BY <1>6, <1>7, Zenon DEF Inv

LEMMA NoRolesPass == ASSUME NEW m, NEW p PROVE FilterProg(m, NoRoles, p) = "pass"
<1>1. NoRoles.tunnel = FALSE /\ NoRoles.intercept = FALSE BY Zenon DEF NoRoles
<1> QED BY <1>1, Zenon DEF FilterProg

LEMMA ArriveKeepsInv == ASSUME Inv, Arrive PROVE Inv'
<1>1. PICK i \in Used, p \in Packets(input.config) :
        frame' = [interface |-> i, packet |-> p, outcome |-> None,
                  verdict |-> FilterProg(maps[i], flags[i], p)]
  BY Zenon DEF Arrive
<1>2. stage = "running" /\ UNCHANGED <<stage, input, config, maps, flags, io>> BY Zenon DEF Arrive
<1>3. Setup' BY <1>2, Zenon DEF Inv, Setup, Used
<1>4. p.dst \in Addresses BY <1>1, ApplianceAssumption, Zenon DEF Inv, Setup
<1>5. CASE flags[i] = NoRoles
  <2>1. FilterProg(maps[i], flags[i], p) = "pass" BY <1>5, NoRolesPass, Zenon
  <2> QED BY <1>1, <1>2, <1>3, <1>4, <1>5, <2>1, Zenon DEF Inv, FrameJudged, Used
<1>6. CASE flags[i] = Roles(input.config, i)
           /\ maps[i] = StartMaps(input.config, input.addresses, i)
  <2>1. FilterProg(maps[i], flags[i], p) = Verdict(i, p) BY <1>6, Zenon DEF Verdict
  <2> QED BY <1>1, <1>2, <1>3, <1>4, <2>1, Zenon DEF Inv, FrameJudged, Used, Verdict
<1> QED BY <1>2, <1>5, <1>6, Zenon DEF Inv, Setup

LEMMA HandleKeepsInv == ASSUME Inv, Handle PROVE Inv'
<1>1. /\ frame # None /\ frame.verdict = "redirect" /\ frame.outcome = None
      /\ UNCHANGED <<stage, input, config, maps, flags, io>>
  BY Zenon DEF Handle
<1>2. Setup' BY <1>1, Zenon DEF Inv, Setup, Used
<1>3. PICK quic, hit, o :
        LET h == HandleFrame(io[frame.interface], frame.packet, quic, hit)
        IN  /\ frame' = [frame EXCEPT !.outcome = o] /\ hit \in {MayHit(frame.packet), FALSE}
            /\ o = h \/ (o = "rejected" /\ h \notin {"passed", "dropped"})
  BY Zenon DEF Handle
<1>4. io[frame.interface] = StartIo(input.config, input.addresses, frame.interface)
  BY <1>1, Zenon DEF Inv, FrameJudged, Setup
<1>5. Outcome(frame.interface, frame.packet, o) BY <1>3, <1>4, Zenon DEF Outcome, Handled
<1>6. /\ DOMAIN frame' = DOMAIN frame /\ frame'.interface = frame.interface
      /\ frame'.packet = frame.packet /\ frame'.verdict = frame.verdict /\ frame'.outcome = o
  BY <1>1, <1>3, Zenon DEF Inv, FrameJudged
<1>7. Outcome(frame.interface, frame.packet, frame.outcome)'
  BY <1>1, <1>5, <1>6, Zenon DEF Outcome, Handled, MayHit
<1>8. FrameJudged' BY <1>1, <1>6, <1>7, Zenon DEF Inv, FrameJudged, Used, Verdict
<1> QED BY <1>2, <1>8, Zenon DEF Inv

LEMMA InvStep == Inv /\ [Next]_vars => Inv'
<1> SUFFICES ASSUME Inv, [Next]_vars PROVE Inv' BY Zenon
<1>1. CASE ReadTerm
  <2>1. UNCHANGED <<stage, input, config, maps, flags, io, frame>> BY <1>1, Zenon DEF ReadTerm
  <2> QED
    BY <2>1, ZenonT(30) DEF Inv, Setup, FrameJudged, Used, Verdict, Outcome, Handled, MayHit
<1>2. CASE Build BY <1>2, BuildKeepsInv, Zenon
<1>3. CASE Start BY <1>3, StartKeepsInv, Zenon
<1>4. ASSUME NEW c \in input.reloads, Reload(c) PROVE Inv' BY <1>4, ReloadKeepsInv, Zenon
<1>5. CASE Arrive BY <1>5, ArriveKeepsInv, Zenon
<1>6. CASE Handle BY <1>6, HandleKeepsInv, Zenon
<1>7. CASE Done
  <2>1. frame' = None /\ UNCHANGED <<stage, input, config, maps, flags, io>> BY <1>7, Zenon DEF Done
  <2> QED BY <2>1, Zenon DEF Inv, Setup, FrameJudged, Used
<1>8. CASE UNCHANGED vars
  BY <1>8, Zenon DEF vars, Inv, Setup, FrameJudged, Used, Verdict, Outcome, Handled, MayHit
<1> QED BY <1>1, <1>2, <1>3, <1>4, <1>5, <1>6, <1>7, <1>8, Zenon DEF Next

(* For every configuration and host, a frame the XDP program redirects is  *)
(* one its IO worker handles (filter_prog and handle_frame agree).         *)
THEOREM RedirectedIsTaken == Spec => []RedirectedTaken
<1>1. Inv => RedirectedTaken
  <2> SUFFICES ASSUME Inv, frame # None, frame.outcome = "passed" PROVE FALSE
    BY Zenon DEF RedirectedTaken
  <2>1. frame.outcome # None BY ApplianceAssumption, Zenon
  <2>2. PICK quic, hit :
          frame.outcome \in {Handled(frame.interface, frame.packet, quic, hit), "rejected"}
    BY <2>1, Zenon DEF Inv, FrameJudged, Outcome
  <2>3. /\ stage = "running" /\ frame.packet.dst \in Addresses
        /\ Verdict(frame.interface, frame.packet) = "redirect"
    BY <2>1, Zenon DEF Inv, FrameJudged
  <2>4. Sound(input.config, input.addresses) BY <2>3, Zenon DEF Inv, Setup
  <2>5. Handled(frame.interface, frame.packet, quic, hit) # "passed"
    BY <2>3, <2>4, TakenByIoWorker, SMTT(30) DEF Verdict, Handled
  <2> QED BY <2>2, <2>5, Zenon
<1> QED BY <1>1, InitInv, InvStep, PTL DEF Spec

(* For every configuration and host, of the frames for the tunnel address, *)
(* the peer and the DNS address only outer packets and DNS queries are     *)
(* redirected.                                                             *)
THEOREM OwnTrafficStaysLocal == Spec => []OwnTrafficLocal
<1>1. Inv => OwnTrafficLocal
  <2> DEFINE c == input.config
             p == frame.packet
  <2> SUFFICES ASSUME Inv, frame # None, frame.verdict = "redirect",
                      p.dst \in XdpForcedLocalIps(c, Locals) \ NatIps(c)
               PROVE  /\ p.proto = "udp"
                      /\ \/ p.dst \in Locals /\ p.dport = c.port /\ frame.interface = c.tunnel
                         \/ /\ c.dns # None /\ p.dst = c.dns.listen /\ p.dport = DnsPort
                            /\ frame.interface \in Owner
    BY Zenon DEF OwnTrafficLocal
  <2>1. /\ stage = "running" /\ p.dst \in Addresses
        /\ Verdict(frame.interface, p) = "redirect"
    BY Zenon DEF Inv, FrameJudged
  <2>2. Sound(c, input.addresses) BY <2>1, Zenon DEF Inv, Setup
  <2> QED BY <2>1, <2>2, OwnRedirected, Zenon DEF Verdict, Locals, Owner
<1> QED BY <1>1, InitInv, InvStep, PTL DEF Spec

(* For every configuration and host, a frame for a NAT address is not left *)
(* to the kernel, nor to the policy.                                       *)
THEOREM NatStaysClosed == Spec => []NatFailsClosed
<1>1. Inv => NatFailsClosed
  <2> DEFINE c == input.config
             i == frame.interface
             p == frame.packet
             own == IF flags[i].tunnel THEN Locals ELSE {}
  <2> SUFFICES ASSUME Inv, frame # None, p.ip = "ok", flags[i].intercept,
                      p.dst \in NatIps(c) \ own
               PROVE  /\ frame.verdict # "pass"
                      /\ frame.outcome \in {None, "return", "dropped", "rejected"}
    BY Zenon DEF NatFailsClosed
  <2>1. stage = "running" /\ i \in Used /\ p.dst \in Addresses BY Zenon DEF Inv, FrameJudged
  <2>2. flags[i] # NoRoles BY DEF NoRoles
  <2>3. flags[i] = Roles(c, i) BY <2>1, <2>2, Zenon DEF Inv, Setup
  <2>4. Sound(c, input.addresses) BY <2>1, Zenon DEF Inv, Setup
  <2>5. i \in c.intercepts /\ (i = c.tunnel => p.dst \notin TunnelLocalIps(c, input.addresses))
    <3>1. Roles(c, i).tunnel = (i = c.tunnel) /\ Roles(c, i).intercept = (i \in c.intercepts)
      BY Zenon DEF Roles
    <3>2. Roles(c, i).intercept /\ (Roles(c, i).tunnel => p.dst \notin Locals) BY <2>3, Zenon
    <3>3. Locals = TunnelLocalIps(c, input.addresses) BY Zenon DEF Locals
    <3> QED BY <3>1, <3>2, <3>3, ZenonT(30)
  <2>6. frame.verdict = Verdict(i, p) BY <2>2, Zenon DEF Inv, FrameJudged
  <2>7. Verdict(i, p) # "pass" BY <2>1, <2>4, <2>5, NatClosed, SMTT(30) DEF Verdict
  <2>8. CASE frame.outcome # None
    <3>1. PICK quic, hit : frame.outcome \in {Handled(i, p, quic, hit), "rejected"}
      BY <2>8, Zenon DEF Inv, FrameJudged, Outcome
    <3>2. Handled(i, p, quic, hit) \in {"return", "dropped"}
      BY <2>1, <2>4, <2>5, NatClosed, Zenon DEF Handled
    <3> QED BY <2>6, <2>7, <3>1, <3>2, Zenon
  <2> QED BY <2>6, <2>7, <2>8, Zenon
<1> QED BY <1>1, InitInv, InvStep, PTL DEF Spec

LEMMA PolicyNested ==
  ASSUME Setup, ParseAccepts(input.config) PROVE NestedIn(PolicyOf(input.config).prefixes)
<1> DEFINE c == input.config
<1>1. CASE c.role = "client" /\ c.policy # None
  <2>1. PolicyOf(c) = c.policy BY <1>1, Zenon DEF PolicyOf
  <2> QED BY <1>1, <2>1, ApplianceAssumption, Zenon DEF Setup, NestedIn
<1>2. CASE c.role # "client"
  <2>1. PolicyOf(c) = [mode |-> "tunnel", prefixes |-> {{a} : a \in NatIps(c)}]
    BY <1>2, Zenon DEF PolicyOf
  <2>2. PolicyOf(c).prefixes = {{a} : a \in NatIps(c)} BY <2>1
  <2> QED BY <2>2, Zenon DEF NestedIn
<1> QED BY <1>1, <1>2, Zenon DEF ParseAccepts, PolicyAccepted

(* For every configuration and host, a packet for an address that is not   *)
(* the appliance's is judged as the policy says, by the LPM maps and by    *)
(* the list of the IO worker alike.                                        *)
THEOREM PolicyIsExact == Spec => []PolicyExact
<1>1. Inv => PolicyExact
  <2> DEFINE c == input.config
             i == frame.interface
             p == frame.packet
             allowed == InterceptAllowed(io[i], p.dst)
  <2> SUFFICES ASSUME Inv, frame # None, p.ip = "ok", flags[i].intercept,
                      p.dst \notin XdpForcedLocalIps(c, Locals) \cup NatIps(c)
               PROVE  /\ frame.verdict = IF ~allowed THEN "pass"
                                         ELSE IF Fragmented(p) THEN "drop" ELSE "redirect"
                      /\ frame.outcome # None =>
                           frame.outcome \in IF FlowKeyOk(p) THEN {"intercept", "rejected"}
                                             ELSE {"dropped"}
    BY Zenon DEF PolicyExact
  <2>1. stage = "running" /\ i \in Used /\ p.dst \in Addresses BY Zenon DEF Inv, FrameJudged
  <2>2. flags[i] # NoRoles BY DEF NoRoles
  <2>3. flags[i] = Roles(c, i) /\ io[i] = StartIo(c, input.addresses, i)
    BY <2>1, <2>2, Zenon DEF Inv, Setup
  <2>4. Sound(c, input.addresses) BY <2>1, Zenon DEF Inv, Setup
  <2>5. i \in c.intercepts
    <3>1. Roles(c, i).intercept = (i \in c.intercepts) BY Zenon DEF Roles
    <3> QED BY <2>3, <3>1, Zenon
  <2>6. Locals = TunnelLocalIps(c, input.addresses) BY Zenon DEF Locals
  <2>7. NestedIn(PolicyOf(c).prefixes) BY <2>4, PolicyNested, Zenon DEF Inv, Sound
  <2>8. frame.verdict = Verdict(i, p) BY <2>2, Zenon DEF Inv, FrameJudged
  <2>9. frame.verdict = IF ~allowed THEN "pass" ELSE IF Fragmented(p) THEN "drop" ELSE "redirect"
    BY <2>1, <2>3, <2>4, <2>5, <2>6, <2>7, <2>8, PolicyVerdict DEF Verdict
  <2>10. ASSUME frame.outcome # None
         PROVE  frame.outcome \in IF FlowKeyOk(p) THEN {"intercept", "rejected"} ELSE {"dropped"}
    <3>1. frame.verdict = "redirect" /\ Outcome(i, p, frame.outcome)
      BY <2>10, Zenon DEF Inv, FrameJudged
    <3>2. allowed BY <2>9, <3>1, Zenon
    <3>3. ~MayHit(p) BY Zenon DEF MayHit
    <3>4. PICK quic, hit :
            LET h == Handled(i, p, quic, hit)
            IN  /\ hit \in {MayHit(p), FALSE}
                /\ \/ frame.outcome = h
                   \/ frame.outcome = "rejected" /\ h \notin {"passed", "dropped"}
      BY <3>1, Zenon DEF Outcome
    <3>5. hit = FALSE
      <4>1. MayHit(p) = FALSE BY <3>3, Zenon DEF MayHit
      <4> QED BY <3>4, <4>1, Zenon
    <3>6. Handled(i, p, quic, FALSE) = IF FlowKeyOk(p) THEN "intercept" ELSE "dropped"
      <4>1. InterceptAllowed(StartIo(c, input.addresses, i), p.dst) BY <2>3, <3>2, Zenon
      <4>2. p.dst \notin XdpForcedLocalIps(c, TunnelLocalIps(c, input.addresses)) \cup NatIps(c)
        BY <2>6, Zenon
      <4>3. HandleFrame(StartIo(c, input.addresses, i), p, quic, FALSE)
              = IF FlowKeyOk(p) THEN "intercept" ELSE "dropped"
        BY <2>1, <2>5, <4>1, <4>2, PolicyHandled, Zenon
      <4> QED BY <4>3, Zenon DEF Handled
    <3> QED BY <3>4, <3>5, <3>6, Zenon
  <2> QED BY <2>9, <2>10, Zenon
<1> QED BY <1>1, InitInv, InvStep, PTL DEF Spec
=============================================================================
