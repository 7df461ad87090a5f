------------------------------ MODULE Runtime ------------------------------
(***************************************************************************)
(* The main thread of a client (PreparedRuntime::build and run in          *)
(* src/src/xdp_datapath/runtime.rs): it configures the BPF maps of every   *)
(* interface with the classifiers off, starts the workers, switches the    *)
(* classifiers on, reloads the policy when SIGUSR1 asks for it, and shuts  *)
(* down.  The Flow workers, the signals and the edits of the policy file   *)
(* run beside it.                                                          *)
(*                                                                         *)
(* A policy is [prefixes, domains]: the prefixes to tunnel, and the remote *)
(* domains.  Links and workers are numbered from 0 in the order the loops  *)
(* visit them.                                                             *)
(***************************************************************************)
EXTENDS Integers, Sequences

CONSTANTS
  LinkCount, WorkerCount,
  Capacity,               \* of a Flow worker's channel
  Policies, FirstPolicy,  \* contents the policy file may have
  MaxSignals, MaxPackets  \* bounds

Links == 0..(LinkCount - 1)
Workers == 0..(WorkerCount - 1)

ASSUME RuntimeAssumption ==
  /\ LinkCount \in Nat \ {0} /\ WorkerCount \in Nat \ {0} /\ Capacity \in Nat \ {0}
  /\ FirstPolicy \in Policies /\ \A p \in Policies : p.domains # "packet"
  /\ MaxSignals \in Nat /\ MaxPackets \in Nat

VARIABLES
  main,          \* where the main thread is
  at,            \* the link or worker its current loop is at
  file,          \* the policy file
  config,        \* self.config: the policy last loaded
  role_flags,    \* per link: whether the XDP program classifies at all
  allowed,       \* per link: prefixes in the LPM tries
  io_policy,     \* the prefixes the IO workers were started with
  running,       \* per worker: its thread, and so its receiver, exists
  domains,       \* per worker: dns_config.remote_domains
  inbox,         \* per worker: its channel; a message is "packet" or a rule set
  exit,          \* EXIT_REQUESTED
  epoch, last_epoch,   \* RELOAD_POLICY_EPOCH and the one the main thread acted on
  packets,       \* bound: packets dispatched
  stuck          \* links whose classifier could not be switched off

kernel == <<role_flags, allowed, stuck>>
threads == <<running, domains, inbox>>
signals == <<exit, epoch>>
vars == <<main, at, file, config, kernel, io_policy, threads, signals, last_epoch, packets>>

Init ==
  /\ main = "configure" /\ at = 0
  /\ file = FirstPolicy /\ config = FirstPolicy
  /\ role_flags = [l \in Links |-> FALSE]
  /\ allowed = [l \in Links |-> {}]
  /\ stuck = {}
  /\ io_policy = {}
  /\ running = [w \in Workers |-> FALSE]
  /\ domains = [w \in Workers |-> FirstPolicy.domains]
  /\ inbox = [w \in Workers |-> <<>>]
  /\ exit = FALSE /\ epoch = 0 /\ last_epoch = 0 /\ packets = 0

Last(count) == at = count - 1

(* The main thread's loop over links or workers goes on, or ends. *)
Advance(count, next) ==
  IF Last(count) THEN main' = next /\ at' = 0 ELSE at' = at + 1 /\ UNCHANGED main

(* Variant: the classifiers are configured as enabled. *)
ConfigureBpfMapsEnabled(l, cleared, added) ==
  /\ added \subseteq config.prefixes /\ (added # {} => cleared)
  /\ role_flags' = IF cleared THEN [role_flags EXCEPT ![l] = TRUE] ELSE role_flags
  /\ allowed' = [allowed EXCEPT ![l] = @ \cup added]
  /\ UNCHANGED stuck

(* Variant: the classifier stays on while its tries change. *)
ConfigureBpfMapsRunning(l, cleared, added) ==
  /\ added \subseteq config.prefixes /\ (added # {} => cleared)
  /\ allowed' = [allowed EXCEPT ![l] = @ \cup added]
  /\ UNCHANGED <<role_flags, stuck>>

(* configure_bpf_maps: role_flags is cleared, then the policy's prefixes   *)
(* are added.  An update that fails leaves the rest undone, the clearing   *)
(* included.                                                               *)
ConfigureBpfMaps(l, cleared, added) ==
  /\ added \subseteq config.prefixes /\ (added # {} => cleared)
  /\ role_flags' = IF cleared THEN [role_flags EXCEPT ![l] = FALSE] ELSE role_flags
  /\ allowed' = [allowed EXCEPT ![l] = @ \cup added]
  /\ UNCHANGED stuck

(* build: any failure ends the program before a thread exists. *)
Configure(ok, cleared, added) ==
  /\ main = "configure"
  /\ ok => cleared /\ added = config.prefixes
  /\ ConfigureBpfMaps(at, cleared, added)
  /\ IF ok THEN Advance(LinkCount, "spawn") ELSE main' = "failed" /\ at' = 0
  /\ UNCHANGED <<file, config, io_policy, threads, signals, last_epoch, packets>>

(* run: the workers start, the IO workers with a copy of the policy. *)
Spawn ==
  /\ main = "spawn" /\ main' = "enable"
  /\ running' = [w \in Workers |-> TRUE]
  /\ io_policy' = config.prefixes
  /\ exit' = FALSE
  /\ UNCHANGED <<at, file, config, kernel, domains, inbox, epoch, last_epoch, packets>>

(* run: an error on the way ends the program; the threads that have        *)
(* started are not asked to end, they go with the process.                 *)
SpawnFails(started) ==
  /\ main = "spawn" /\ main' = "failed"
  /\ running' = [w \in Workers |-> w < started]
  /\ io_policy' = config.prefixes
  /\ exit' = FALSE
  /\ UNCHANGED <<at, file, config, kernel, domains, inbox, epoch, last_epoch, packets>>

(* enable_bpf_classifiers: a link that fails switches the earlier ones off *)
(* again as far as it can, and the program ends.                           *)
Enable ==
  /\ main = "enable"
  /\ role_flags' = [role_flags EXCEPT ![at] = TRUE]
  /\ Advance(LinkCount, "loop")
  /\ last_epoch' = IF Last(LinkCount) THEN epoch ELSE last_epoch
  /\ UNCHANGED <<file, config, allowed, stuck, io_policy, threads, signals, packets>>

EnableFails(still_on) ==
  /\ main = "enable" /\ still_on \subseteq 0..(at - 1)
  /\ role_flags' = [l \in Links |-> l \in still_on] /\ stuck' = still_on
  /\ exit' = TRUE /\ main' = "join" /\ at' = 0
  /\ UNCHANGED <<file, config, allowed, io_policy, threads, epoch, last_epoch, packets>>

(* run, a pass of the main loop that finds a new reload request: the file  *)
(* may be unreadable or invalid, then nothing changes.                     *)
Reload(readable) ==
  /\ main = "loop" /\ ~exit /\ epoch # last_epoch
  /\ last_epoch' = epoch
  /\ IF readable THEN config' = file /\ main' = "reconfigure" ELSE UNCHANGED <<config, main>>
  /\ UNCHANGED <<at, file, kernel, io_policy, threads, signals, packets>>

(* run: configure_bpf_maps for every link, errors are only logged. *)
Reconfigure(cleared, added) ==
  /\ main = "reconfigure"
  /\ ConfigureBpfMaps(at, cleared, added)
  /\ Advance(LinkCount, "broadcast")
  /\ UNCHANGED <<file, config, io_policy, threads, signals, last_epoch, packets>>

(* Variant: the broadcast gives up on a full channel, as dispatch_to does. *)
BroadcastTry ==
  /\ main = "broadcast"
  /\ inbox' = IF running[at] /\ Len(inbox[at]) < Capacity
              THEN [inbox EXCEPT ![at] = Append(@, config.domains)] ELSE inbox
  /\ Advance(WorkerCount, "loop")
  /\ UNCHANGED <<file, config, kernel, io_policy, running, domains, signals, last_epoch, packets>>

(* Variant: the broadcast waits for a worker that has ended. *)
BroadcastWaits ==
  /\ main = "broadcast"
  /\ running[at] /\ Len(inbox[at]) < Capacity
  /\ inbox' = [inbox EXCEPT ![at] = Append(@, config.domains)]
  /\ Advance(WorkerCount, "loop")
  /\ UNCHANGED <<file, config, kernel, io_policy, running, domains, signals, last_epoch, packets>>

(* broadcast: send blocks while the channel is full, and fails once the    *)
(* receiver is gone.                                                       *)
Broadcast ==
  /\ main = "broadcast"
  /\ running[at] => Len(inbox[at]) < Capacity
  /\ inbox' = IF running[at] THEN [inbox EXCEPT ![at] = Append(@, config.domains)] ELSE inbox
  /\ Advance(WorkerCount, "loop")
  /\ UNCHANGED <<file, config, kernel, io_policy, running, domains, signals, last_epoch, packets>>

(* run: a worker thread has finished. *)
NoticeExit ==
  /\ main = "loop" /\ ~exit
  /\ \E w \in Workers : ~running[w]
  /\ exit' = TRUE /\ main' = "disable"
  /\ UNCHANGED <<at, file, config, kernel, io_policy, threads, epoch, last_epoch, packets>>

(* Variant: the loop is left only once every reload was made. *)
LeaveLoopUpToDate ==
  /\ main = "loop" /\ exit /\ epoch = last_epoch /\ main' = "disable"
  /\ UNCHANGED <<at, file, config, kernel, io_policy, threads, signals, last_epoch, packets>>

LeaveLoop ==
  /\ main = "loop" /\ exit /\ main' = "disable"
  /\ UNCHANGED <<at, file, config, kernel, io_policy, threads, signals, last_epoch, packets>>

(* disable_bpf_classifiers goes on to the next link after an error. *)
Disable(ok) ==
  /\ main = "disable"
  /\ role_flags' = IF ok THEN [role_flags EXCEPT ![at] = FALSE] ELSE role_flags
  /\ stuck' = IF ok THEN stuck ELSE stuck \cup {at}
  /\ Advance(LinkCount, "join")
  /\ UNCHANGED <<file, config, allowed, io_policy, threads, signals, last_epoch, packets>>

Join ==
  /\ main = "join" /\ \A w \in Workers : ~running[w]
  /\ main' = "done"
  /\ UNCHANGED <<at, file, config, kernel, io_policy, threads, signals, last_epoch, packets>>

(* handle_flow_message, as far as the policy is concerned. *)
Handle(w) ==
  /\ running[w] /\ inbox[w] # <<>>
  /\ inbox' = [inbox EXCEPT ![w] = Tail(@)]
  /\ domains' = IF Head(inbox[w]) = "packet" THEN domains
                ELSE [domains EXCEPT ![w] = Head(inbox[w])]
  /\ UNCHANGED <<main, at, file, config, kernel, io_policy, running, signals, last_epoch, packets>>

(* flow_loop ends on request, or its thread panics; the receiver goes. *)
Stop(w) ==
  /\ running[w]
  /\ running' = [running EXCEPT ![w] = FALSE]
  /\ inbox' = [inbox EXCEPT ![w] = <<>>]
  /\ UNCHANGED <<main, at, file, config, kernel, io_policy, domains, signals, last_epoch, packets>>

(* dispatch_to of an IO worker. *)
DispatchPacket(w) ==
  /\ running[w] /\ packets < MaxPackets
  /\ packets' = packets + 1
  /\ inbox' = IF Len(inbox[w]) < Capacity THEN [inbox EXCEPT ![w] = Append(@, "packet")]
                                          ELSE inbox
  /\ UNCHANGED <<main, at, file, config, kernel, io_policy, running, domains, signals, last_epoch>>

(* SIGTERM or SIGINT, SIGUSR1, and the administrator's edits.  Handlers    *)
(* are installed at the beginning of run.                                  *)
RequestExit ==
  /\ running # [w \in Workers |-> FALSE] /\ exit' = TRUE
  /\ UNCHANGED <<main, at, file, config, kernel, io_policy, threads, epoch, last_epoch, packets>>

RequestReload ==
  /\ running # [w \in Workers |-> FALSE] /\ epoch < MaxSignals /\ epoch' = epoch + 1
  /\ UNCHANGED <<main, at, file, config, kernel, io_policy, threads, exit, last_epoch, packets>>

EditFile(p) ==
  /\ file' = p
  /\ UNCHANGED <<main, at, config, kernel, io_policy, threads, signals, last_epoch, packets>>

MainStep ==
  \/ \E cleared \in BOOLEAN, added \in SUBSET config.prefixes :
       (\E ok \in BOOLEAN : Configure(ok, cleared, added)) \/ Reconfigure(cleared, added)
  \/ \E ok \in BOOLEAN : Reload(ok) \/ Disable(ok)
  \/ \E still_on \in SUBSET Links : EnableFails(still_on)
  \/ \E started \in Workers : SpawnFails(started)
  \/ Spawn \/ Enable \/ Broadcast \/ NoticeExit \/ LeaveLoop \/ Join

Next ==
  \/ MainStep
  \/ \E w \in Workers : Handle(w) \/ Stop(w) \/ DispatchPacket(w)
  \/ RequestExit \/ RequestReload \/ \E p \in Policies : EditFile(p)

Spec == Init /\ [][Next]_vars

(* Threads that can make a step make it: the main thread, a worker with a  *)
(* message, and a worker that is asked to end (each loop looks at          *)
(* EXIT_REQUESTED at least every 2 ms).                                    *)
FairSpec ==
  /\ Spec /\ WF_vars(MainStep)
  /\ \A w \in Workers : WF_vars(Handle(w)) /\ WF_vars(exit /\ Stop(w))

-----------------------------------------------------------------------------
(* The XDP programs redirect packets only while there are, or were, worker *)
(* threads to take them: never before the start, nor after the end, unless *)
(* the map of a link could not be written.                                 *)
RedirectsOnlyWhileRunning ==
  main \in {"configure", "failed", "spawn", "join", "done"} =>
    \A l \in Links : role_flags[l] => l \in stuck

(* A link redirects only packets of prefixes that the IO workers, with the *)
(* policy they were started with, take: at no moment of a reload, however  *)
(* far its map updates come, does the kernel send them others.             *)
RedirectedAdmitted == \A l \in Links : role_flags[l] => allowed[l] \subseteq io_policy

(* A reload reaches every Flow worker: outside the broadcast, the last     *)
(* rule set on its way to a worker, or else the one it uses, is the one    *)
(* that was loaded last.                                                   *)
Rules(w) ==
  LET on_the_way == {i \in 1..Len(inbox[w]) : inbox[w][i] # "packet"}
  IN  IF on_the_way = {} THEN domains[w]
      ELSE inbox[w][CHOOSE i \in on_the_way : \A j \in on_the_way : j <= i]
RulesDelivered ==
  main \in {"loop", "disable"} => \A w \in Workers : running[w] => Rules(w) = config.domains

(* A reload that was asked for happens, unless the program ends: also one  *)
(* that is asked for while another is under way.  And its blocking         *)
(* broadcast comes to an end: a full channel is emptied, or its receiver   *)
(* goes away.                                                              *)
ReloadsComplete ==
  /\ main = "loop" /\ epoch # last_epoch ~> epoch = last_epoch \/ exit
  /\ main = "broadcast" ~> main # "broadcast"

(* A request to end the program ends it, in whatever the main thread does, *)
(* if it did not fail to start.                                            *)
ExitEnds == exit /\ main \notin {"configure", "spawn", "failed"} ~> main = "done"

(* What doc/ARCHITECTURE.md and doc/IP_DNS_POLICY.md say of SIGUSR1: the   *)
(* appliance goes on with the new rules without a restart; a classifier    *)
(* that was switched on stays on while the main loop runs.                 *)
ClassifiersStayOn == main = "loop" /\ ~exit => \A l \in Links : role_flags[l]
=============================================================================
