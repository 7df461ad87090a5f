# TLA+ verification of new_proxy

new_proxy is an AF_XDP appliance that carries layer-3 traffic between one client
and one server node over QUIC datagrams. This directory models its control: who
owns which state, in which order it changes, and what survives interleavings,
failures and crashes. `PROJECT.json` maps every definition to the source lines it
translates, and lists runs, mutants, hazards, findings and theorems.

## 1. The system

| part | state | operations | source |
|---|---|---|---|
| NAT table | bindings by id and by return tuple, free and quarantined ports | allocate, remove, lookup | `flow_plane/nat.rs` |
| session table | sessions, key index, deadline index, NAT table | get-or-create, touch, expire, remove, rebind, correct IO owner, bindings without a session | `flow_plane/session.rs` |
| DNS transactions | by key, by return tuple, by deadline | query, answer, expire, abort | `flow_plane/worker.rs`, `dns.rs` |
| reverse NAT directory | return tuple to (worker, id), shared under a lock | publish, lookup, retire | `flow_plane/nat.rs`, `xdp_datapath/runtime.rs` |
| Flow workers | the tables above, one QUIC lane each | one handler per message or engine event, expiry passes | `flow_plane/worker.rs`, `runtime.rs` |
| IO workers | none of their own but a policy | classify a frame, look up, dispatch; transmit | `io_worker.rs`, `runtime.rs` |
| IO wakeup | pending flag, eventfd, bounded channel | notify, drain, clear | `io_wakeup.rs`, `runtime.rs` |
| DCID index | active and staged connection ids, shared | stage, publish, retire, close flow | `flow_plane/quic_flow.rs` |
| QUIC engine | active and candidate connection, event queue | packets, timers, close, reconnect, promote | `quic_engine.rs` |
| authentication | nonces, what waits for the stream | request, response, confirm, complete | `quic_engine.rs` |
| inner packets | packet id, reassembly buffer | fragment, reassemble, prune, clear | `quic_engine.rs` |
| AF_XDP socket | four rings shared with the kernel, free chunks | receive, return, reclaim, transmit, kick | `xdp_datapath/xsk.rs`, `runtime.rs` |
| configuration | `ApplianceConfig`, from which BPF maps and IO worker settings are derived | parse, check, derive, reload | `v1_config.rs`, `runtime.rs` |
| classifiers | maps and role flags; `IoClassifierConfig` | the verdict of the XDP program, the branches of the IO worker | `xdp_datapath/xdp_filter.c`, `io_worker.rs` |
| runtime | threads, signals, classifier maps | configure, start, reload, exit | `runtime.rs` |
| BPF links | attachment, owner record, pins, lock | attach, detach, take over what a crash left | `loader.rs` |
| ports | SNAT range, reserved ranges | divide among workers, check the reservation | `runtime.rs`, `port_reservation.rs` |

Threads share only the two indexes (behind `RwLock`), the bounded channels, the
wakeups and the signal flags. IO workers send to Flow workers by `try_send` and drop
when a channel is full; Flow workers send packets to IO workers and wake them; the
main thread configures the kernel, reloads the policy and sends it to the Flow
workers by a blocking `send`.

What makes it hard: a locator found in the directory waits in a channel while its
session ends and its tuple is reused; ports are shared by sessions and DNS
transactions; engine events wait in a queue while the engine goes on; a candidate
connection authenticates while the active one fails, and packet ids start again with
every connection; the kernel moves the rings between any two accesses of a worker;
two classifiers written in two languages must agree on every frame, however the
addresses of a configuration coincide; wakeups are coalesced; signals arrive at any
time; a process is killed between two commands that change the interface. The hazards
in `PROJECT.json` name the lines.

## 2. Modules

A table is a record, and its operations are operators on that record, so that the
state machines that use a table, and the proofs about it, share one definition.
Definitions marked "Variant" are wrong on purpose; each is used by one mutant and by
nothing else.

| module | models | used by |
|---|---|---|
| `NatTable` | NAT table | `SessionTable` |
| `SessionTable` | session table | `SessionWorker`, `DnsTable` |
| `SessionWorker` | one worker's sessions and DNS bindings over time | runs, proofs |
| `DnsTable` | DNS transactions of one worker, with its session table | `FlowPlane` |
| `FlowPlane` | Flow workers, IO workers, channels, directory, network | runs, proofs |
| `IoWakeup` | senders, channel, eventfd, IO loop | runs, proofs |
| `DcidIndex` | DCID index | `QuicLane` |
| `QuicLane` | one worker's engine, flow loop and DCID entries | runs, proofs |
| `AuthExchange` | authentication frames and states | `Tunnel` |
| `InnerFragments` | fragmentation and reassembly | `Tunnel` |
| `InnerChannel` | abstract: a channel that may lose and reorder packets | refined by `TunnelChannel` |
| `Tunnel` | a client, a server and the network | runs, proofs |
| `TunnelChannel` | `Tunnel` as an `InnerChannel` | runs |
| `UmemQueues` | abstract: queues that pass chunks on | refined by `Xsk` |
| `Xsk` | rings, IO loop and kernel | runs, proofs |
| `PortRanges` | division of the port range | `FlowPlane`, `PortReservation`, proofs |
| `PortReservation` | reserved port list and the check at start | `Appliance` |
| `PublicAddress` | the two tests for public addresses, bit by bit | proofs |
| `Classifier` | `xdp_filter_prog` and `handle_frame` as functions of a frame | `Configuration` |
| `Configuration` | checks of the file; maps and IO settings made from it | `Appliance` |
| `Appliance` | from the file to the outcome of a frame | runs, proofs |
| `Runtime` | main thread, classifier maps, signals, broadcast | runs, proofs |
| `BpfLink` | one interface's attachment over processes | runs, proofs |
| `MC*` | constants for TLC | |
| `*Proofs` | theorems | |

`IoWorkerProofs` is about `Xsk`, `IoWakeup` and `PublicAddress`, `LifecycleProofs` about
`Runtime` and `BpfLink`, `SessionTableProofs` also about `NatTable` and `PortRanges`,
`SessionTunnelProofs` about `SessionWorker` and `Tunnel`;
`FlowWorkerProofs` has what one worker's operations do, which `FlowPlaneProofs` uses.
Specifications that one proof module extends have different names for their formulas
(`WakeupSpec`, `LinkSpec`, `TunnelSpec`).

### NatTable, SessionTable, SessionWorker
`allocate_at` purges ended quarantines, then takes the lowest port whose return tuple
is neither bound nor quarantined (`Purged`, `UsablePorts`, `Lowest`, `Allocate`).
`RemoveAll` puts the tuple in quarantine. A session has its key, its deadline and its
binding in three indexes; `TouchTcp`, `Create`, `RemoveSessions`, `RebindQuicFlow`
and `CorrectInterceptIo` are the functions of `session.rs`. A flow is a record of
protocol, family, source and remote endpoint. A packet has one TCP flag
(`none`, `fin`, `rst`); time is a counter, and the timeouts keep the order they have
in the code (reset < closing < idle). `SessionWorker` drives the table with packets
of both directions, drops, expiry, DNS bindings and the clock; `heard` is a history of
what each TCP session has received, against which `EarlyExpiryEarned` holds its deadline.

### DnsTable, FlowPlane
A query is its transaction key: a client, and an id with a question (`ask`). An answer is
accepted by its tuple, id and question, whoever asked (`ResponseMatches`). `FlowPlane` has one action per message of
`handle_flow_message`, per engine event of `drain_engine` that touches sessions, per
expiry pass and per class of frame of `handle_frame`. Atomicity: a worker's tables
are private to its thread, so a handler is one step, except where it publishes,
fails to send and retires (`retiring` holds the session between the two). An IO
worker looks up the directory and enqueues under one read lock, so that is one step
too. Expiry removes the table entries before the directory entries; as the worker
handles no message in between, this equals one step. The network keeps answers to
sessions for less than the quarantine of their tuple (`InTime`), which is what the
quarantine is for; answers to DNS queries may arrive at any time. `misdelivered` is a history of the answers
given to another flow or query, with whether the tuple had been through its quarantine
since they were sent. Left out:
`dns_completed_reverse`, which only chooses a drop counter, and `DnsTransactionTable`
and `retire_quic_flow_state`, which nothing calls.

### IoWakeup
`notify` is three steps (swap, write, reset after a failed write), `drain` and
`clear_pending` one each, and `io_loop` alternates receive, transmit, the end of a
round and poll. Steps are sequentially consistent: the release store of
`clear_pending` is followed by the channel's receive, which has a SeqCst fence.
`EAGAIN` of the eventfd cannot happen, as `OneWakeup` bounds its counter by one.

### DcidIndex, QuicLane
Every DCID of a lane hashes to its worker, so lanes share no key and one lane stands
for all. The engine's connections carry the DCIDs they track; quinn-proto is
external, and what a packet or a timer does to a connection is one of the outcomes
`drive_connection` can report. Each call of `poll` drives the engine again before it
takes an event, as the code does. The code keeps DCIDs in hash sets, so in which order it
visits them is unknown: `Order` gives one order for every set, TLC checks one choice of
it, and the proofs hold for every choice. The authentication exchange is reduced to its
outcomes here; `Tunnel` has it in full.

### AuthExchange, InnerFragments, Tunnel, InnerChannel, TunnelChannel
`Tunnel` composes a client's engine and a server's. A connection is the number of the
client's attempt, which also stands for its random nonces and its TLS exporter; a MAC is
the tuple of what it covers, so it is right exactly if key and contents are.
`DriveConnection` is `drive_connection`: take a frame, look at the deadline, flush.
`DriveServer` is `drive` with `promote_candidate`, and `Resolve` is
`resolve_candidate_replacement`, which runs later, when `drain_engine` reaches the
event; between the two, packets are refused (`promotion`). A blocked stream leaves
"complete" for a later flush. Streams are reliable and ordered, datagrams arrive at most
once in any order: quinn-proto is external. Every fault is an action: transports lost on
either side, deadlines, SIGHUP, a first packet that comes after its attempt is over.

Three things the model made plain. A refusal because there is a candidate already is
silent, and the client repeats its first packet. A drive that sees the candidate
authenticate handles the candidate's datagrams while the old connection is still the
active one; this does no harm, as the client sends none before it has "complete". And
the client's packet ids start at 0 with every connection, so the server has to clear its
reassembly buffer when it commits a replacement (the mutant of `ImplementsChannel`).

`InnerChannel` is the promise: what arrives was sent, in the same direction and on the
same connection, and arrives once, while that connection is the receiver's current one.

### Xsk, UmemQueues
Each load or store of a shared index is a step, and the kernel moves between any two.
Counters wrap (`Wrap` for 2^32, a multiple of the ring size). `TakeFrames`,
`Capacity`, `QueueFrames`, `PublishTx` and `Kick` are `transmit_batch` with the part of
`io_loop` that calls it. A kick that fails counts its frames as dropped although they
are queued and will be sent, and a frame that is too large makes `transmit_batch`
refuse the whole batch. The fill ring's wakeup flag is not read by the code; `poll`
drives the kernel. `UmemQueues` has no indexes: chunks go round in queues, each in one
place at a time. `push_fill` and `reclaim_completions` check no capacity, so that the refinement
holds is a fact about the numbers of chunks (`XskAssumption`).

### PortReservation, Classifier, Configuration, Appliance
A behaviour of `Appliance` takes a configuration file and a host: `ParseAccepts` is
`ApplianceConfig::parse`, `ReadTerm` reads one term of the reserved port list at a time,
`Build` makes the checks of `PreparedRuntime::build` and fills the maps with the role flags
at zero, `Start` starts the IO workers and enables the classifiers, `Reload` replaces the
policies. A frame then arrives on an interface; `FilterProg` is the XDP program, and
`HandleFrame` the IO worker that takes a redirected frame. Addresses are members of two
sets, a prefix is a set of addresses, and the longest match is the smallest set. A frame
is the fields the branches read: addresses, protocol, ports, kind of fragment, whether
the UDP length is right. Which DCID index and directory lookups succeed is chosen freely, except
that the directory holds only tuples of NAT addresses. `PublicAddress` compares the C test
for public addresses with the Rust one; that they agree is why `Classifier` has one
constant `Public` for both.

### Runtime
Configuration of each link (which may stop at any map update), thread start (which may
fail with some of the threads running: `SpawnFails`), enabling of the classifiers, the main loop with reload and exit, broadcast to each worker in
turn, disabling and joining. A Flow worker is its channel and its rules. The policy is
that of a client that tunnels listed prefixes (`tunnel_prefixes`).

### BpfLink
Each bpftool command and file operation is a step, so a process can be killed, and an
administrator can act, between any two. Attaching fails where a program is attached;
detaching removes whatever is attached in the given mode. Ids are drawn from those
not in use. Whether commands may fail is chosen once per behaviour (`mayfail`), as some
properties are about processes that are killed while their commands work.

## 3. Runs

| run | states | bounds | properties |
|---|---|---|---|
| `session_worker` | 306,106 | two scenes of 2 ports, 3 sessions, 1 DNS flow, time 3: 2 TCP flows to one endpoint; ICMP echo, a family without SNAT address and 3 queues | `Consistent`, `EarlyExpiryEarned`, `ReuseRespectsQuarantine` |
| `flow_plane_server` | 381,879 | 2 workers, 2 ports, 3 UDP flows, 1 close, channel of 1 | `NoMisdelivery`, `BindingsReachable`, `SessionsRebound` |
| `flow_plane_client` | 659,775 | 1 worker, 4 queries of 2 clients, 1 flow, 2 transactions, 1 close | `WorkersConsistent`, `NoMisdelivery`, `DirectoryLive`, `AnsweredOnce`, `TransactionsEnd` |
| `io_wakeup` | 14,603 | 3 senders, channel of 2, 5 packets, failing writes | `OneWakeup`, `NoLostWakeup`, `ChannelEmptied`, `TimeoutEmpties` |
| `quic_lane` | 547,529 | both roles, 5 DCIDs, 3 tracked, 4 connections, 2 SIGHUPs | `IndexOfCurrentFlow`, `LaneSettled`, `CandidateHarmless`, `NothingDeadIsActive` |
| `runtime` | 80,074 | 2 links, 2 workers, 2 policies, 2 reloads, channel of 1 | `RedirectsOnlyWhileRunning`, `RedirectedAdmitted`, `RulesDelivered`, `ReloadsComplete`, `ExitEnds` |
| `appliance` | 419,647 | a thousand configurations, 2 interfaces, 2 families of 7 addresses, ports up to 6, lists of 3 terms, 1 reload | `PortsAcceptedExactly`, `RedirectedTaken`, `OwnTrafficLocal`, `NatFailsClosed`, `PolicyExact` |
| `bpf_link` | 296,068 | 2 processes, 4 ids, 2 modes, 3 kills, with and without failing commands | `RunningUndisturbed`, `ForeignOnlyRaced`, `LeftoverRecorded`, `LeftoverGoes` |
| `xsk` | 180,373 | rings of 2, counters modulo 4, 2 + 2 chunks, batches of 2, 1 descriptor per kick | `ImplementsQueues`, `QueuesMove` |
| `tunnel` | 14,538 | 2 keys, 4 attempts, 1 fault, 2 packets, whole or in 2 fragments, ids modulo 2, buffer of 2 entries and 3 bytes | `AuthAgreement`, `BudgetKept`, `ImplementsChannel`, `FragmentsGo`, `TunnelComesUp` |

What they show, beyond the comments at the properties:

- **Refinement.** `xsk` and `tunnel` check that the detailed specification implements the
  abstract one (`Queues!Spec`, `Channel!Spec`). `Xsk` maps each queue to the slots between
  two indexes, `TunnelChannel` maps the receivers' connections to `latest` and the client's.
- **Two classifiers.** `RedirectedTaken` compares the XDP program with the IO worker on
  every frame of every configuration, and `PolicyExact` compares both with the policy as
  a set of prefixes. `MCAppliance` lets one address be the tunnel's, the peer's, for NAT, for DNS
  and the resolver's at once wherever the checks at start accept it.
- **Recovery.** `TunnelComesUp`: after the faults the tunnel is up for good, whichever of
  the two sides lost what; `FragmentsGo`, `QueuesMove`, `TransactionsEnd`,
  `ReloadsComplete`, `LeftoverGoes`: nothing is kept or waits for ever.

Why these bounds are enough: the conflicts are between two holders of one thing. Two
flows that can meet on a tuple and a third that competes for ports, two workers that
can meet in the directory, a channel that is full with one message, an old, an active
and a new connection, two processes on one interface: each reaches every order of
the operations above. Time runs past each timeout and quarantine at least once, the
counters of a ring wrap after two rounds, and packet ids wrap after two packets.
The tunnel needs four attempts for one fault to be followed by a recovery on each side;
with five attempts and with two faults (175,703 and 994,686 states) it passes too, but
takes longer. In `tunnel` the byte budget binds before the entry limit does; with one entry and
4 bytes, where the entry limit binds alone, it passes too. A run in which both bind needs three
packets and is out of reach; the two tests (`quic_engine.rs` 623-624) are independent.

Two runs fail on purpose; each checks one sentence of the documentation:

| run | sentence | what the code does |
|---|---|---|
| `runtime_reload_off` | SIGUSR1 needs no restart (ARCHITECTURE.md 29-30) | a reload writes `role_flags = 0` and nothing sets it again |
| `bpf_link_record` | a failed restart keeps the owner record (437-439) | it removes it, with the program still attached |

The models also show smaller differences from the documentation, for which there is no run:
IO workers keep the policy of the start, and prefixes removed from the policy stay in
the tries (30), which over many reloads could fill them. SIGUSR1 before the main loop begins
is forgotten, as the loop reads the epoch it compares with after the classifiers are
enabled. `RedirectedAdmitted` holds because the reload switches the classifiers
off: a reload that left them on would also have to give the IO workers the new
policy. Where 27-28 give 5 s to a session after FINs of both sides and 2 s after an RST, a session
whose first packet is a FIN gets 5 s at once, on one FIN, until its next packet; this FIN, or
an RST in its place, is then forgotten; and a FIN after an RST gives 5 s instead of 2 s.
`EarlyExpiryEarned` states the first two as they are. A program attached between `drop`'s
comparison and its detach command is detached (436-437); `ForeignOnlyRaced` says that
this race is the only way. A process killed after it attached its program and before its
record is in place leaves a program that no later start takes over; `LeftoverRecorded` has this
as its exception (`attached.by = "killed"`) and covers every other moment.

The documents also differ among themselves. IP_DNS_POLICY.md 111-112 and 464 have a new policy
take effect by a restart; ARCHITECTURE.md 29-30 and the code reload it. ARCHITECTURE.md 106-109
counts the NAT addresses among those handled locally; IP_DNS_POLICY.md 157-162 and the code
drop what is sent to them and is no return traffic, which is what `NatFailsClosed` states.

Three properties have a limit to know of. `PortsAcceptedExactly` is about lists whose terms are
ranges: a term that is none, such as one that starts at port 0 (`PortRange::new`), is an error
and the program does not start, although the ports it needs may be listed. `LaneSettled` exempts a
connection past the limit of tracked DCIDs: some of its DCIDs are not in the index until the
engine gives the connection up. And `NoMisdelivery` allows a DNS answer that comes later than the
quarantine of its tuple to reach a query with the same id and question that has taken the tuple
over, perhaps another client's: the code compares nothing else.

Closing a lane drops its remote DNS transactions without an answer and without
retiring their directory entries; ARCHITECTURE.md 581-584 says so, and `DirectoryLive`
and `AnsweredOnce` state exactly this exception.

## 4. Fairness

- `FlowPlane` (client): the clock advances; the flow loop wakes at least every 2 ms and
  makes its expiry pass; a handler that began is finished. No fairness for packets, clients or
  the network.
- `IoWakeup`: the IO thread and a sender inside `notify` go on. `poll` has a 100 ms
  timeout; `ChannelEmptied` does without it, and `TimeoutEmpties`, where a write
  to the eventfd may have failed, assumes it.
- `Xsk`: the IO thread runs, and an awake kernel takes what was published. None for
  arriving frames. `QueuesMove` is about workers that come to `poll` again and again:
  `io_loop` transmits until its channel is empty, and senders that keep it filled can hold
  it there.
- `Tunnel`: both threads run, streams deliver, a first packet that is repeated arrives,
  what the other side has left is found out in time (the idle timeout and the
  authentication deadline), fragments age. None for faults, datagrams and blocked streams.
- `Runtime`: main thread and workers go on. None for signals and file edits.
- `BpfLink`: a started process goes on, and systemd (`Restart=on-failure`) starts the
  next one. None for failures, kills and the administrator.
- `SessionWorker`, `QuicLane`, `Appliance` and the server of `FlowPlane` are checked for
  safety only and have no fairness. `QuicLane`'s `LaneSettled` states what must hold
  whenever the queue of events is empty; that candidates are resolved is part of `TunnelComesUp`.

Deadlock is checked wherever the clock or a budget does not end the behaviours: not in the
session, flow plane and appliance models, which end when their time or their input does.

## 5. Proofs

| theorem | states |
|---|---|
| `IoWorkerProofs!RingsImplementQueues` | `ImplementsQueues`: the rings of `Xsk` implement `UmemQueues` |
| `IoWorkerProofs!TypeCorrect` | types, and the channel's capacity |
| `IoWorkerProofs!OneWakeupAlways` | `OneWakeup`: at most one wakeup is outstanding |
| `IoWorkerProofs!WakeupsAreNotLost` | `NoLostWakeup`: no sleep with packets and without a wakeup |
| `IoWorkerProofs!PublicV4Agrees`, `PublicV6Agrees` | the C and the Rust test accept the same addresses |
| `SessionTableProofs!AllocateConsistent`, `RemoveAllConsistent` | NAT operations keep the table consistent |
| `SessionTableProofs!TouchTcpInv`, `CreateInv`, `RemoveSessionsInv`, `EphemeralInv` | session operations keep all indexes exact |
| `SessionTableProofs!SharesDisjoint` | two workers never share a port |
| `SessionTunnelProofs!TablesStayConsistent` | `Consistent` in every reachable state |
| `SessionTunnelProofs!QuarantineIsRespected` | `ReuseRespectsQuarantine` |
| `SessionTunnelProofs!EarlyExpiryIsEarned` | `EarlyExpiryEarned` |
| `QuicLaneProofs!LaneInvariant` | the inductive invariant of `QuicLane` |
| `QuicLaneProofs!IndexAlwaysOfCurrentFlow` | `IndexOfCurrentFlow` |
| `QuicLaneProofs!LaneAlwaysSettled` | `LaneSettled` |
| `QuicLaneProofs!CandidateAlwaysHarmless` | `CandidateHarmless` |
| `QuicLaneProofs!NothingDeadStaysActive` | `NothingDeadIsActive` |
| `FlowPlaneProofs!FlowWorkersAreConsistent` | `WorkersConsistent` |
| `FlowPlaneProofs!SessionsFollowTheirLane` | `SessionsRebound` |
| `FlowPlaneProofs!BindingsAreReachable`, `DirectoryIsLive` | `BindingsReachable`, `DirectoryLive` |
| `FlowPlaneProofs!QueriesAreAnsweredOnce` | `AnsweredOnce` |
| `FlowPlaneProofs!NothingIsMisdelivered` | `NoMisdelivery` |
| `ApplianceProofs!RedirectedIsTaken` | `RedirectedTaken`: no IO worker passes a redirected frame |
| `ApplianceProofs!OwnTrafficStaysLocal` | `OwnTrafficLocal` |
| `ApplianceProofs!NatStaysClosed` | `NatFailsClosed` |
| `ApplianceProofs!PolicyIsExact` | `PolicyExact` |
| `SessionTunnelProofs!AuthenticationAgrees` | `AuthAgreement` |
| `LifecycleProofs!RedirectsEndWithWorkers` | `RedirectsOnlyWhileRunning` |
| `LifecycleProofs!RedirectsAreAdmitted` | `RedirectedAdmitted` |
| `LifecycleProofs!ReloadsReachWorkers` | `RulesDelivered` |
| `LifecycleProofs!RunningIsUndisturbed` | `RunningUndisturbed` |
| `LifecycleProofs!OnlyRacedDetach` | `ForeignOnlyRaced` |
| `LifecycleProofs!LeftoversAreRecorded` | `LeftoverRecorded` |

They hold for every value of the constants under the named assumptions of the modules
(numbers are naturals, flags are booleans, protocols and families are those of the code).

- **IoWakeup.** `NoLostWakeup` is not inductive alone: that a set `pending` flag stands
  for a wakeup follows from `OneWakeup`, and that a sender is about to reset the flag
  only after a failed write from `ResetsAreFailures`. `WakeupInv` joins these.
- **Tables.** `TableConsistent` needs the shape of the record (`IsTable`), that ids in
  use are below the next id, and that every session has a binding. `TableInv` adds
  this; one lemma per operation shows that it is kept, and `SessionTunnelProofs`
  applies them action by action.
- **Quarantine.** `QuarantineInv` says that each released tuple that is not bound again
  is in quarantine until its time or the time has passed; from it each step that binds a
  tuple binds it late enough.
- **Early expiry.** `HeardInv` says of each TCP session which state its packets have led to
  (`HeardState`), and that its deadline is early exactly if `heard` allows it. That reset and
  closing timeouts are shorter than the idle timeout is assumed (`TimeoutAssumption`).
- **QUIC lane.** The four invariants speak of moments when the queue of events is empty, or
  of the index alone; in between, engine and index disagree, and the events that wait are
  the difference. So `LaneInv` speaks of the future: `ActiveAfter` and `StagedAfter` are what
  the index will hold when the queue has been applied, defined by the last event about
  each DCID and without a recursion over the queue. `Routes` says that the first is what the
  engine believes published (with the DCIDs of a promotion under way), and the second what
  its connections that have not authenticated have generated. Adding events changes these
  sets as the events say (`AddedPublishing`, `AddedRetired`, ...), and applying the first
  event changes the index but not them (`AfterApplied`). `QueueInv` says that a DCID is staged
  only if nothing before knows it; `CandidateInv`, `AliveInv` and `PendingInv` are about
  promotions, losses and waiting packets. `drive` does all this in several parts, so these
  are stated for the middle of a drive too (`Mid`): what the drive has yet to take note of
  are its parameters. `DriveKeeps` puts the parts together, and each action is a drive, an
  event or both.
- **Appliance.** The invariant says that a running appliance has either no role flags, or
  the flags, maps and IO settings of its start (`Setup`), and that the frame under way was
  judged by one of the two (`FrameJudged`). The rest is about functions: for a file that
  `ParseAccepts` and a host that `BuildAccepts`, the two classifiers agree branch by branch.
  The branch that needs the checks at start is the one where the tunnel interface might
  also own the DNS address in the tunnel's family: it would then have two addresses of that
  family, which `resolve_tunnel_local_ips` refuses. For `PolicyIsExact` a lookup has to
  find a longest prefix (`LongestExists`): the prefixes that hold an address are nested, so
  one with the fewest addresses is in all others. That addresses are finitely many and
  prefixes nested is assumed (`ApplianceAssumption`), as for every IP prefix.
- **Public addresses.** A masked segment of the Rust test is expressed by the two bytes the
  C test reads (`MaskedHigh`, `SegmentIs`); the rest is arithmetic.
- **Authentication.** `AuthAgreement` is not inductive: that the client follows the server
  needs to be known of the frames under way. `AuthInv` says that frames carry the key of
  their sender, that those for the client are of its connection and a "complete" only of
  one the server has authenticated, that a candidate with "complete" waiting for the stream
  has shown the key, and that one that waits to replace the active connection has
  authenticated. `Judged` and `Drove` say what handling a frame and driving a
  connection can change; one step per action then follows from them.
- **Ports.** `OffsetsAdd` compares the offsets of two shares; the rest is arithmetic.
- **Flow plane.** `FlowWorkerProofs` says of each operation which bindings it releases and
  which it makes (`TableEffect`, `DnsEffect`, `WorkerEffect`), so that what follows does not
  depend on how. A worker's step then changes the directory by exactly these bindings
  (`DirStep`), and the account of tokens and answers with them (`Account`); `StateInv` joins
  the tables, the directory and the account. `NoMisdelivery` is about answers that are on
  their way for a while. `NetInv` says that the tuple of an answer in the network belongs to
  whom the answer is for, or to nobody and is in quarantine for as long as the answer may
  still arrive (`Reserved`); `InboxInv`, that the locator of a packet in a channel is that of
  a session it is for, or of none, now and later, since identifiers are not given out twice. Both
  use the assumption about the network that the model states (`InTime`). DNS answers are
  not bound by it: `SuccessionInv` says that the transaction on the tuple of an answer in the
  network is the one it is for or was opened a quarantine after the answer was sent, and a
  packet in a channel is given to such a transaction only (`Lawful`). Its deadline tells when
  a transaction was opened (`QueryInv`, `Dates`).
- **Rings.** `RxIs` and `TxIs` say that the chunks of all queues together are as many as the
  socket has, so no queue outgrows its ring; from this, that writing a slot behind the last
  queue of a ring overwrites none in use, although all indexes wrap (`Added`). Each access of
  the worker or the kernel is then one step of the queues or none.
- **Main thread.** `KernelInv` says by where the main thread is which classifiers are on and
  that tries hold nothing the IO workers do not admit until they are off. `LastIs` says what a
  channel's last rule set is without a recursion over the channel.
- **BPF links.** `OwnInv`, `ForeignInv` and `OursInv` say for each place in the code what is
  known there of the record, the pins and the program; the lock makes one process the only
  one whose place matters (`Holder`).

Only model-checked: everything with fairness or `ENABLED` in it, as the prover has no
liveness; the reassembly budget (`BudgetKept`, a sum over a set) and the port list
(`PortsAcceptedExactly`, folds over a sequence), as it has no induction over data; and that
`Tunnel` refines `InnerChannel`, a proof within reach that is not done.

## 6. Not modelled

- Parsing of headers byte by byte, NAT rewriting, MSS clamping and checksums: functions of
  a buffer. The models start from the fields the code goes on with.
- Domain matching, EDNS clamping and the SERVFAIL packet of `dns.rs`; its
  `DnsTransactionTable` is not used by the worker.
- The syntax of the configuration file, keys, certificates, MAC addresses and the list of
  remote domains.
- The IO registry, which does not change after start, interface discovery, and the creation
  of sockets and threads.
- Statistics: counters and a snapshot file no other part reads.
- QUIC transport and TLS (quinn-proto, rustls) and the kernel are external: modelled
  by what the code relies on. Datagrams that no engine would send do not arise.

## 7. Plan

1. An abstract flow plane (flows, their answers and a directory without threads) that
   `FlowPlane` refines.
2. `QuicLane`'s outcomes of a drive as an abstraction of `Tunnel`'s, with both queues of events.
3. Proofs: `Tunnel` implements `InnerChannel` (`ImplementsChannel`).
