----------------------------- MODULE Appliance ------------------------------
(***************************************************************************)
(* The appliance from its configuration file to its frames                 *)
(* (src/src/xdp_datapath/runtime.rs): the checks before it touches the     *)
(* kernel, the maps filled while the classifiers are off, the IO workers   *)
(* started and the classifiers enabled, a reload of the policies, and what *)
(* becomes of a frame that arrives: the verdict of the XDP program, and    *)
(* for a redirected frame the outcome of its IO worker.                    *)
(***************************************************************************)
EXTENDS PortReservation, Configuration

CONSTANTS
  Interfaces,
  Inputs,      \* [config, addresses, terms, reloads]: a configuration file; the host
               \* it is started on, with the addresses of its interfaces and the terms
               \* its sysctl may list; the files a reload may find
  Packets(_)   \* bound: the packets that arrive, for a configuration

(* ApplianceConfig. *)
Policies == [mode : {"tunnel", "direct"}, prefixes : SUBSET SUBSET Addresses]
DnsConfigs == [listen : Addresses, local : Addresses, remote : Addresses]
Configs ==
  [role : {"client", "server"}, tunnel : Interfaces, intercepts : SUBSET Interfaces,
   endpoint : Addresses \cup {None}, listen : Addresses \cup {None}, port : Nat, workers : Nat,
   nat : [Families -> Addresses \cup {None}], ports : [start : Nat, end : Nat],
   policy : Policies \cup {None}, dns : DnsConfigs \cup {None}]

(* Of two prefixes that share an address one is a part of the other. *)
ASSUME ApplianceAssumption ==
  /\ None \notin Addresses /\ None # "passed" /\ V4 \cap V6 = {} /\ Public \subseteq Addresses
  /\ IsFiniteSet(Addresses)
  /\ \A i \in Inputs :
       /\ i.terms \subseteq Terms /\ {i.config} \cup i.reloads \subseteq Configs
       /\ \A f \in Families : i.config.nat[f] # None => Family(i.config.nat[f]) = f
       /\ i.config.policy # None => \A x, y \in i.config.policy.prefixes :
            x \cap y = {} \/ x \subseteq y \/ y \subseteq x
       /\ \A k \in Interfaces : i.addresses[k] \subseteq Addresses /\ IsFiniteSet(i.addresses[k])
       /\ \A p \in Packets(i.config) : p.dst \in Addresses

VARIABLES
  stage,    \* "reserve", "built", "running", or "refused": the program has ended
  input,    \* the file and the host
  config,   \* the ApplianceConfig, with the last reload
  maps,     \* per interface: the maps of its XDP program
  flags,    \* per interface: role_flags
  io,       \* per interface: the IoClassifierConfig of its IO workers
  frame     \* the frame under way: interface, packet, verdict and outcome

vars == <<ranges, error, stage, input, config, maps, flags, io, frame>>

(* The checks of PreparedRuntime::build. *)
BuildAccepts(c, addresses) ==
  /\ Cardinality(TunnelLocalIps(c, addresses)) = 1
  /\ Accepts(c.ports)
  /\ DnsPlaced(c, addresses)

Locals == TunnelLocalIps(input.config, input.addresses)
Owner == DnsOwners(input.config, input.addresses)
Used == {config.tunnel} \cup config.intercepts

Init ==
  /\ ReservationInit /\ input \in Inputs /\ config = input.config
  /\ stage = IF ParseAccepts(config) THEN "reserve" ELSE "refused"
  /\ maps = [i \in Interfaces |-> NoMaps] /\ flags = [i \in Interfaces |-> NoRoles]
  /\ io = [i \in Interfaces |-> None] /\ frame = None

(* read_reserved_ranges: the next term of the kernel's list. *)
ReadTerm ==
  /\ stage = "reserve" /\ \E term \in input.terms : Parse(term)
  /\ UNCHANGED <<stage, input, config, maps, flags, io, frame>>

(* PreparedRuntime::build: the maps of every interface are filled, with    *)
(* its role flags at zero.  The list of the kernel is not kept.            *)
Build ==
  /\ stage = "reserve"
  /\ IF BuildAccepts(config, input.addresses)
     THEN /\ stage' = "built"
          /\ maps' = [i \in Interfaces |->
                        IF i \in Used THEN ConfigureBpfMaps(maps[i], config, i, Locals, Owner)
                        ELSE maps[i]]
     ELSE stage' = "refused" /\ UNCHANGED maps
  /\ ranges' = <<>> /\ error' = FALSE
  /\ UNCHANGED <<input, config, flags, io, frame>>

(* PreparedRuntime::run: the IO workers start, then the classifiers are    *)
(* enabled.                                                                *)
Start ==
  /\ stage = "built" /\ stage' = "running"
  /\ io' = [i \in Interfaces |->
              IF i \in Used THEN IoClassifierConfig(config, i, Locals, Owner) ELSE None]
  /\ flags' = [i \in Interfaces |-> IF i \in Used THEN Roles(config, i) ELSE NoRoles]
  /\ UNCHANGED <<ranges, error, input, config, maps, frame>>

(* reload_policy_from_source and configure_bpf_maps, which turns the       *)
(* classifiers off; at most one reload.                                    *)
Reload(c) ==
  LET new == [config EXCEPT !.policy = c.policy, !.dns = c.dns]
  IN  /\ stage = "running" /\ config = input.config /\ ParseAccepts(c)
      /\ config' = new
      /\ maps' = [i \in Interfaces |->
                    IF i \in Used THEN ConfigureBpfMaps(maps[i], new, i, Locals, Owner)
                    ELSE maps[i]]
      /\ flags' = [i \in Interfaces |-> NoRoles]
      /\ UNCHANGED <<ranges, error, stage, input, io, frame>>

(* A frame arrives and the XDP program decides. *)
Arrive ==
  /\ stage = "running" /\ frame = None
  /\ \E i \in Used, p \in Packets(input.config) :
       frame' = [interface |-> i, packet |-> p, outcome |-> None,
                 verdict |-> FilterProg(maps[i], flags[i], p)]
  /\ UNCHANGED <<ranges, error, stage, input, config, maps, flags, io>>

(* The tuples in the directory are those of bindings: what comes back to a *)
(* NAT address, with a flow key.                                           *)
MayHit(p) ==
  /\ FlowKeyOk(p) /\ p.dst \in NatIps(input.config)
  /\ p.proto = "udp" => p.dport \in PortsIn(input.config.ports)

(* The IO worker takes the frame from its ring; the channel of the Flow    *)
(* worker it dispatches to may be full.                                    *)
Handle ==
  /\ frame # None /\ frame.verdict = "redirect" /\ frame.outcome = None
  /\ \E quic \in {"active", "initial", "unknown", "invalid"}, hit \in {MayHit(frame.packet), FALSE} :
       LET outcome == HandleFrame(io[frame.interface], frame.packet, quic, hit)
       IN  frame' \in {[frame EXCEPT !.outcome = o] :
                          o \in IF outcome \in {"passed", "dropped"} THEN {outcome}
                                ELSE {outcome, "rejected"}}
  /\ UNCHANGED <<ranges, error, stage, input, config, maps, flags, io>>

(* The frame is gone. *)
Done ==
  /\ frame # None /\ (frame.verdict # "redirect" \/ frame.outcome # None)
  /\ frame' = None
  /\ UNCHANGED <<ranges, error, stage, input, config, maps, flags, io>>

Next ==
  \/ ReadTerm \/ Build \/ Start \/ Arrive \/ Handle \/ Done
  \/ \E c \in input.reloads : Reload(c)

Spec == Init /\ [][Next]_vars

-----------------------------------------------------------------------------
(* Whatever ranges the file of reserved ports lists, the program starts    *)
(* exactly if each port it wants is reserved, and it then divides them     *)
(* among its workers without loss or overlap.  A term that is no range     *)
(* (PortRange::new: it starts at port 0, say) is an error and no start.    *)
PortsAcceptedExactly == stage = "reserve" => AcceptsExactly /\ SharesReserved

(* A frame the XDP program redirects is one its IO worker handles: the     *)
(* worker dispatches it or counts it as dropped, and never passes it,      *)
(* which would lose it unseen.  This rests on the checks at startup, and   *)
(* on a reload switching the classifiers off: the maps follow the new      *)
(* policy, the IO workers keep the old one.                                *)
RedirectedTaken == frame # None => frame.outcome # "passed"

(* The appliance does not intercept its own traffic, whatever the policy   *)
(* says: of the frames for its tunnel address, for its peer and for the    *)
(* DNS address, only the outer packets and the queries are redirected.  An *)
(* address that is also a NAT address is the directory's.                  *)
OwnTrafficLocal ==
  frame # None /\ frame.verdict = "redirect" =>
    LET c == input.config
        p == frame.packet
    IN  p.dst \in XdpForcedLocalIps(c, Locals) \ NatIps(c) =>
          /\ p.proto = "udp"
          /\ \/ p.dst \in Locals /\ p.dport = c.port /\ frame.interface = c.tunnel
             \/ c.dns # None /\ p.dst = c.dns.listen /\ p.dport = DnsPort /\ frame.interface \in Owner

(* A frame for a NAT address never falls back to the kernel on an          *)
(* intercept interface, and reaches a Flow worker only by a tuple the      *)
(* directory holds.  The tunnel interface keeps its own address.           *)
NatFailsClosed ==
  frame # None /\ frame.packet.ip = "ok" /\ flags[frame.interface].intercept =>
    LET own == IF flags[frame.interface].tunnel THEN Locals ELSE {}
    IN  frame.packet.dst \in NatIps(input.config) \ own =>
          frame.verdict # "pass" /\ frame.outcome \in {None, "return", "dropped", "rejected"}

(* What the policy says of an address that is not the appliance's own is   *)
(* what happens: a packet is redirected exactly if the policy wants its    *)
(* destination and it is not a fragment, and then intercepted if it has a  *)
(* flow key.  The LPM maps of the kernel and the list of the IO worker are *)
(* two renderings of it.                                                   *)
PolicyExact ==
  frame # None /\ frame.packet.ip = "ok" /\ flags[frame.interface].intercept =>
    LET c == input.config
        p == frame.packet
    IN  p.dst \notin XdpForcedLocalIps(c, Locals) \cup NatIps(c) =>
          /\ frame.verdict = IF ~InterceptAllowed(io[frame.interface], p.dst) THEN "pass"
                             ELSE IF Fragmented(p) THEN "drop" ELSE "redirect"
          /\ frame.outcome # None =>
               frame.outcome \in IF FlowKeyOk(p) THEN {"intercept", "rejected"} ELSE {"dropped"}
=============================================================================
