-------------------------- MODULE LifecycleProofs ---------------------------
(***************************************************************************)
(* The process around the packets.  The main thread, for any number of     *)
(* links and workers, any capacity of the channels, any policies, and any  *)
(* failures of its map updates; and the BPF link of an interface, for any  *)
(* processes, any programs, failures of any command, crashes at any point, *)
(* and an administrator who acts at any time.                              *)
(***************************************************************************)
EXTENDS Runtime, BpfLink, TLAPS

-----------------------------------------------------------------------------
(* The main thread. *)
BeforeStart == main \in {"configure", "failed", "spawn"}

(* Where the loops of the main thread can be. *)
CursorInv ==
  /\ main \in {"configure", "enable", "reconfigure", "disable"} => at \in Links
  /\ main = "broadcast" => at \in Workers
  /\ main \in {"spawn", "loop"} => at = 0

KernelType ==
  /\ DOMAIN role_flags = Links /\ DOMAIN allowed = Links

(* Which classifiers are on, by where the main thread is. *)
FlagsInv ==
  /\ BeforeStart => \A l \in Links : ~role_flags[l]
  /\ main = "enable" => \A l \in Links : role_flags[l] => l < at
  /\ main = "disable" => \A l \in 0..(at - 1) : role_flags[l] => l \in stuck
  /\ main \in {"join", "done"} => \A l \in Links : role_flags[l] => l \in stuck

(* What the tries hold: until the classifiers are on nothing but what the  *)
(* IO workers are, or will be, started with.                               *)
TriesInv ==
  /\ BeforeStart => \A l \in Links : allowed[l] \subseteq config.prefixes
  /\ main = "enable" => \A l \in Links : allowed[l] \subseteq io_policy
  /\ \A l \in Links : role_flags[l] => allowed[l] \subseteq io_policy

KernelInv == CursorInv /\ KernelType /\ FlagsInv /\ TriesInv

(* A loop of the main thread stays within its range. *)
LEMMA Advances ==
  ASSUME NEW count \in Nat \ {0}, NEW next, at \in 0..(count - 1), Advance(count, next)
  PROVE  \/ at = count - 1 /\ at' = 0 /\ main' = next
         \/ at' = at + 1 /\ at' \in 0..(count - 1) /\ main' = main
BY DEF Advance, Last

(* configure_bpf_maps leaves a link that stays on as it was. *)
LEMMA Configures ==
  ASSUME NEW l \in Links, NEW cleared \in BOOLEAN, NEW added, KernelType,
         ConfigureBpfMaps(l, cleared, added)
  PROVE  /\ KernelType' /\ stuck' = stuck
         /\ \A k \in Links : role_flags'[k] => role_flags[k] /\ allowed'[k] = allowed[k]
         /\ \A k \in Links : allowed'[k] \subseteq allowed[k] \cup config.prefixes
<1>1. KernelType' /\ stuck' = stuck
  BY Zenon DEF ConfigureBpfMaps, KernelType
<1>2. ASSUME NEW k \in Links
      PROVE  allowed'[k] \subseteq allowed[k] \cup config.prefixes
  BY Zenon DEF ConfigureBpfMaps, KernelType
<1>3. ASSUME NEW k \in Links, role_flags'[k]
      PROVE  role_flags[k] /\ allowed'[k] = allowed[k]
  <2>1. CASE cleared
    <3>1. k # l BY <1>3, <2>1, Zenon DEF ConfigureBpfMaps, KernelType
    <3> QED BY <1>3, <2>1, <3>1, Zenon DEF ConfigureBpfMaps, KernelType
  <2>2. CASE ~cleared
    <3>1. added = {} /\ role_flags' = role_flags BY <2>2, Zenon DEF ConfigureBpfMaps
    <3> QED BY <1>3, <3>1, Zenon DEF ConfigureBpfMaps, KernelType
  <2> QED BY <2>1, <2>2, Zenon
<1> QED BY <1>1, <1>2, <1>3, Zenon

(* Every step of the main thread keeps the invariant of the kernel maps. *)
LEMMA KernelMainStep ==
  ASSUME KernelInv, MainStep
  PROVE  KernelInv'
<1> USE DEF KernelInv, BeforeStart
<1>0. Links = 0..(LinkCount - 1) /\ LinkCount \in Nat \ {0}
      /\ Workers = 0..(WorkerCount - 1) /\ WorkerCount \in Nat \ {0}
  BY RuntimeAssumption, Zenon DEF Links, Workers
<1>1. ASSUME NEW ok \in BOOLEAN, NEW cleared \in BOOLEAN, NEW added, Configure(ok, cleared, added)
      PROVE  KernelInv'
  <2>1. main = "configure" /\ at \in Links /\ config' = config /\ io_policy' = io_policy
    BY <1>1, Zenon DEF Configure, CursorInv
  <2>2. main' \in {"configure", "spawn", "failed"}
        /\ (main' = "configure" => at' \in Links) /\ (main' = "spawn" => at' = 0)
    BY <1>0, <1>1, <2>1, Advances, Zenon DEF Configure
  <2>3. /\ KernelType' /\ stuck' = stuck
        /\ \A k \in Links : role_flags'[k] => role_flags[k] /\ allowed'[k] = allowed[k]
        /\ \A k \in Links : allowed'[k] \subseteq allowed[k] \cup config.prefixes
    BY <1>1, <2>1, Configures, Zenon DEF Configure
  <2>4. CursorInv' BY <2>2, Zenon DEF CursorInv
  <2>5. FlagsInv' BY <2>1, <2>2, <2>3, Zenon DEF FlagsInv
  <2>6. TriesInv' BY <2>1, <2>2, <2>3, Zenon DEF TriesInv, FlagsInv
  <2> QED BY <2>3, <2>4, <2>5, <2>6, Zenon
<1>2. ASSUME NEW cleared \in BOOLEAN, NEW added, Reconfigure(cleared, added)
      PROVE  KernelInv'
  <2>1. main = "reconfigure" /\ at \in Links /\ io_policy' = io_policy
    BY <1>2, Zenon DEF Reconfigure, CursorInv
  <2>2. \/ main' = "broadcast" /\ at' = 0
        \/ main' = "reconfigure" /\ at' \in Links
    BY <1>0, <1>2, <2>1, Advances, Zenon DEF Reconfigure
  <2>3. /\ KernelType'
        /\ \A k \in Links : role_flags'[k] => role_flags[k] /\ allowed'[k] = allowed[k]
    BY <1>2, <2>1, Configures, Zenon DEF Reconfigure
  <2>4. CursorInv' BY <1>0, <2>2 DEF CursorInv
  <2>5. FlagsInv' BY <2>2, Zenon DEF FlagsInv
  <2>6. TriesInv' BY <2>1, <2>2, <2>3, Zenon DEF TriesInv
  <2> QED BY <2>3, <2>4, <2>5, <2>6, Zenon
<1>3. ASSUME NEW ok \in BOOLEAN, Reload(ok) PROVE KernelInv'
  BY <1>0, <1>3 DEF Reload, kernel, CursorInv, KernelType, FlagsInv, TriesInv
<1>4. ASSUME NEW ok \in BOOLEAN, Disable(ok) PROVE KernelInv'
  <2>1. main = "disable" /\ at \in Links /\ UNCHANGED <<config, io_policy, allowed>>
    BY <1>4, Zenon DEF Disable, CursorInv
  <2>2. \/ main' = "join" /\ at' = 0 /\ at = LinkCount - 1
        \/ main' = "disable" /\ at' = at + 1 /\ at' \in Links
    BY <1>0, <1>4, <2>1, Advances, Zenon DEF Disable
  <2>3. KernelType' /\ \A l \in Links : role_flags'[l] => role_flags[l]
    BY <1>4, <2>1, Zenon DEF Disable, KernelType
  <2>4. \A l \in 0..at : role_flags'[l] => l \in stuck'
    <3> SUFFICES ASSUME NEW l \in 0..at, role_flags'[l] PROVE l \in stuck'
      BY Zenon
    <3>1. l \in Links BY <1>0, <2>1
    <3>2. CASE l = at
      BY <1>4, <2>1, <3>2, Zenon DEF Disable, KernelType
    <3>3. CASE l # at
      <4>1. l \in 0..(at - 1) BY <1>0, <2>1, <3>3
      <4>2. l \in stuck BY <2>1, <2>3, <3>1, <4>1, Zenon DEF FlagsInv
      <4> QED BY <1>4, <4>2, Zenon DEF Disable
    <3> QED BY <3>2, <3>3, Zenon
  <2>5. CursorInv' BY <2>2, Zenon DEF CursorInv
  <2>6. FlagsInv' BY <1>0, <2>1, <2>2, <2>4 DEF FlagsInv
  <2>7. TriesInv' BY <2>1, <2>2, <2>3, Zenon DEF TriesInv
  <2> QED BY <2>3, <2>5, <2>6, <2>7, Zenon
<1>5. ASSUME NEW still_on \in SUBSET Links, EnableFails(still_on) PROVE KernelInv'
  <2>1. main' = "join" /\ main = "enable" /\ UNCHANGED <<allowed, io_policy>>
        /\ role_flags' = [l \in Links |-> l \in still_on] /\ stuck' = still_on
    BY <1>5, Zenon DEF EnableFails
  <2> QED BY <2>1, Zenon DEF CursorInv, KernelType, FlagsInv, TriesInv
<1>6. CASE Spawn
  BY <1>0, <1>6 DEF Spawn, kernel, CursorInv, KernelType, FlagsInv, TriesInv
<1>7. CASE Enable
  <2>1. main = "enable" /\ at \in Links /\ UNCHANGED <<allowed, io_policy>>
        /\ role_flags' = [role_flags EXCEPT ![at] = TRUE]
    BY <1>7, Zenon DEF Enable, CursorInv
  <2>2. \/ main' = "loop" /\ at' = 0
        \/ main' = "enable" /\ at' = at + 1 /\ at' \in Links
    BY <1>0, <1>7, <2>1, Advances, Zenon DEF Enable
  <2>3. CursorInv' BY <2>2, Zenon DEF CursorInv
  <2>4. FlagsInv' BY <1>0, <2>1, <2>2 DEF FlagsInv, KernelType
  <2>5. TriesInv' BY <2>1, <2>2, Zenon DEF TriesInv
  <2> QED BY <2>1, <2>3, <2>4, <2>5, Zenon DEF KernelType
<1>8. CASE Broadcast
  <2>1. main = "broadcast" /\ at \in Workers /\ UNCHANGED <<config, io_policy, kernel>>
    BY <1>8, Zenon DEF Broadcast, CursorInv
  <2>2. \/ main' = "loop" /\ at' = 0
        \/ main' = "broadcast" /\ at' \in Workers
    BY <1>0, <1>8, <2>1, Advances, Zenon DEF Broadcast
  <2> QED BY <2>1, <2>2, Zenon DEF kernel, CursorInv, KernelType, FlagsInv, TriesInv
<1>9. CASE NoticeExit
  BY <1>0, <1>9 DEF NoticeExit, kernel, CursorInv, KernelType, FlagsInv, TriesInv
<1>10. CASE LeaveLoop
  BY <1>0, <1>10 DEF LeaveLoop, kernel, CursorInv, KernelType, FlagsInv, TriesInv
<1>11. CASE Join
  BY <1>11, Zenon DEF Join, kernel, CursorInv, KernelType, FlagsInv, TriesInv
<1>12. ASSUME NEW started, SpawnFails(started) PROVE KernelInv'
  BY <1>0, <1>12, Zenon DEF SpawnFails, kernel, CursorInv, KernelType, FlagsInv, TriesInv
<1> QED
  BY <1>1, <1>2, <1>3, <1>4, <1>5, <1>6, <1>7, <1>8, <1>9, <1>10, <1>11, <1>12, Zenon DEF MainStep

(* The other threads, the signals and the administrator leave the main     *)
(* thread, its configuration and the kernel maps alone.                    *)
LEMMA OthersLeaveKernel ==
  ASSUME Next \/ UNCHANGED vars, ~MainStep
  PROVE  UNCHANGED <<main, at, config, kernel, io_policy>>
BY Zenon DEF Next, vars, Handle, Stop, DispatchPacket, RequestExit, RequestReload, EditFile

LEMMA KernelStep == KernelInv /\ [Next]_vars => KernelInv'
<1> SUFFICES ASSUME KernelInv, [Next]_vars PROVE KernelInv'
  BY Zenon
<1>1. CASE MainStep BY <1>1, KernelMainStep, Zenon
<1>2. CASE ~MainStep
  <2>1. UNCHANGED <<main, at, config, kernel, io_policy>> BY <1>2, OthersLeaveKernel, Zenon
  <2> QED
    BY <2>1, Zenon DEF KernelInv, BeforeStart, kernel, CursorInv, KernelType, FlagsInv, TriesInv
<1> QED BY <1>1, <1>2, Zenon

LEMMA KernelInit == Init => KernelInv
BY RuntimeAssumption
   DEF Init, Links, KernelInv, BeforeStart, CursorInv, KernelType, FlagsInv, TriesInv

(* The XDP programs redirect nothing before the workers are started and    *)
(* after they have ended, but on a link whose map could not be written,    *)
(* wherever a start or a shutdown fails.                                   *)
THEOREM RedirectsEndWithWorkers == Spec => []RedirectsOnlyWhileRunning
<1>1. KernelInv => RedirectsOnlyWhileRunning
  BY Zenon DEF KernelInv, FlagsInv, BeforeStart, RedirectsOnlyWhileRunning
<1> QED BY <1>1, KernelInit, KernelStep, PTL DEF Spec

(* Whatever is reloaded and however far the updates of the maps come, no   *)
(* link redirects packets that the IO workers would not take.              *)
THEOREM RedirectsAreAdmitted == Spec => []RedirectedAdmitted
<1>1. KernelInv => RedirectedAdmitted
  BY Zenon DEF KernelInv, TriesInv, RedirectedAdmitted
<1> QED BY <1>1, KernelInit, KernelStep, PTL DEF Spec

-----------------------------------------------------------------------------
(* Rule sets that the policy file may hold, and the messages of a channel. *)
RuleSets == {p.domains : p \in Policies}
Messages == {"packet"} \cup RuleSets

(* With the messages of q to come, a worker that uses d ends up with r. *)
LastIs(q, d, r) ==
  \/ d = r /\ \A i \in 1..Len(q) : q[i] = "packet"
  \/ \E i \in 1..Len(q) :
       q[i] = r /\ r # "packet" /\ \A j \in (i + 1)..Len(q) : q[j] = "packet"

Informed(w) == LastIs(inbox[w], domains[w], config.domains)

WorkersType ==
  /\ config \in Policies /\ file \in Policies
  /\ inbox \in [Workers -> Seq(Messages)]
  /\ DOMAIN domains = Workers /\ DOMAIN running = Workers

NoThreads == main \in {"configure", "spawn"}

(* The workers a reload has reached, by where the main thread is. *)
DeliveryInv ==
  /\ NoThreads =>
       \A w \in Workers : ~running[w] /\ inbox[w] = <<>> /\ domains[w] = config.domains
  /\ main \in {"enable", "loop", "disable"} => \A w \in Workers : running[w] => Informed(w)
  /\ main = "broadcast" => \A w \in 0..(at - 1) : running[w] => Informed(w)

RulesInv == CursorInv /\ WorkersType /\ DeliveryInv

(* Lists of messages.  A packet that comes in changes nothing, a rule set  *)
(* decides, and taking the first message leads to the same end.            *)
LEMMA PacketAppended ==
  ASSUME NEW q \in Seq(Messages), NEW d, NEW r, LastIs(q, d, r)
  PROVE  LastIs(Append(q, "packet"), d, r)
<1> DEFINE n == Append(q, "packet")
<1>1. Len(n) = Len(q) + 1 /\ n[Len(q) + 1] = "packet" /\ \A i \in 1..Len(q) : n[i] = q[i]
  BY DEF Messages
<1>2. Len(q) \in Nat OBVIOUS
<1> HIDE DEF n
<1>3. CASE d = r /\ \A i \in 1..Len(q) : q[i] = "packet"
  BY <1>1, <1>2, <1>3 DEF LastIs, n
<1>4. ASSUME NEW i \in 1..Len(q), q[i] = r, r # "packet",
             \A j \in (i + 1)..Len(q) : q[j] = "packet"
      PROVE  LastIs(n, d, r)
  <2>1. i \in 1..Len(n) /\ n[i] = r BY <1>1, <1>2, <1>4
  <2>2. \A j \in (i + 1)..Len(n) : n[j] = "packet"
    <3> TAKE j \in (i + 1)..Len(n)
    <3>1. CASE j = Len(q) + 1 BY <1>1, <3>1, Zenon
    <3>2. CASE j # Len(q) + 1
      <4>1. j \in (i + 1)..Len(q) /\ j \in 1..Len(q) BY <1>1, <1>2, <3>2
      <4> QED BY <1>1, <1>4, <4>1, Zenon
    <3> QED BY <3>1, <3>2, Zenon
  <2> QED BY <1>4, <2>1, <2>2, Zenon DEF LastIs
<1> QED BY <1>3, <1>4, Zenon DEF LastIs, n

LEMMA RulesAppended ==
  ASSUME NEW q \in Seq(Messages), NEW d, NEW r \in RuleSets
  PROVE  LastIs(Append(q, r), d, r)
<1> DEFINE n == Append(q, r)
<1>1. Len(n) = Len(q) + 1 /\ n[Len(q) + 1] = r /\ Len(q) \in Nat
  BY DEF Messages
<1>2. r # "packet" BY RuntimeAssumption, Zenon DEF RuleSets
<1> HIDE DEF n
<1>3. Len(q) + 1 \in 1..Len(n) /\ (Len(q) + 1 + 1)..Len(n) = {} BY <1>1
<1> QED BY <1>1, <1>2, <1>3, Zenon DEF LastIs, n

LEMMA HeadTaken ==
  ASSUME NEW q \in Seq(Messages), q # <<>>, NEW d, NEW r, LastIs(q, d, r)
  PROVE  LastIs(Tail(q), IF Head(q) = "packet" THEN d ELSE Head(q), r)
<1> DEFINE n == Tail(q)
<1>1. /\ Len(q) \in Nat /\ Len(q) >= 1 /\ Len(n) = Len(q) - 1 /\ Head(q) = q[1]
      /\ \A i \in 1..Len(n) : n[i] = q[i + 1]
  OBVIOUS
<1> HIDE DEF n
<1>2. CASE d = r /\ \A i \in 1..Len(q) : q[i] = "packet"
  BY <1>1, <1>2 DEF LastIs, n
<1>3. ASSUME NEW i \in 1..Len(q), q[i] = r, r # "packet",
             \A j \in (i + 1)..Len(q) : q[j] = "packet"
      PROVE  LastIs(n, IF Head(q) = "packet" THEN d ELSE Head(q), r)
  <2>1. \A j \in i..Len(n) : n[j] = "packet"
    <3> TAKE j \in i..Len(n)
    <3>1. j \in 1..Len(n) /\ j + 1 \in (i + 1)..Len(q) BY <1>1
    <3> QED BY <1>1, <1>3, <3>1, Zenon
  <2>2. CASE i = 1 BY <1>1, <1>3, <2>1, <2>2, Zenon DEF LastIs
  <2>3. CASE i # 1
    <3>1. i - 1 \in 1..Len(n) /\ n[i - 1] = r BY <1>1, <1>3, <2>3
    <3>2. (i - 1) + 1 = i OBVIOUS
    <3> QED BY <1>3, <2>1, <3>1, <3>2, Zenon DEF LastIs
  <2> QED BY <2>2, <2>3, Zenon
<1> QED BY <1>2, <1>3, Zenon DEF LastIs, n

(* What the predicate says of the rules on the way. *)
LEMMA InformedRules ==
  ASSUME NEW w \in Workers, Informed(w)
  PROVE  Rules(w) = config.domains
<1> DEFINE q  == inbox[w]
           on == {i \in 1..Len(q) : q[i] # "packet"}
<1>1. CASE domains[w] = config.domains /\ \A i \in 1..Len(q) : q[i] = "packet"
  <2>1. on = {} BY <1>1, Zenon
  <2> QED BY <1>1, <2>1, Zenon DEF Rules
<1>2. ASSUME NEW i \in 1..Len(q), q[i] = config.domains, config.domains # "packet",
             \A j \in (i + 1)..Len(q) : q[j] = "packet"
      PROVE  Rules(w) = config.domains
  <2>1. i \in on /\ \A j \in on : j <= i
    <3>1. \A j \in 1..Len(q) : j > i => j \in (i + 1)..Len(q) OBVIOUS
    <3> QED BY <1>2, <3>1
  <2>2. (CHOOSE k \in on : \A j \in on : j <= k) = i
    <3>1. \A k \in on : (\A j \in on : j <= k) => k = i BY <2>1
    <3> HIDE DEF on
    <3> QED BY <2>1, <3>1, Zenon
  <2>3. on # {} BY <2>1, Zenon
  <2>4. Rules(w) = IF on = {} THEN domains[w] ELSE q[CHOOSE k \in on : \A j \in on : j <= k]
    BY Zenon DEF Rules
  <2> QED BY <1>2, <2>2, <2>3, <2>4, Zenon
<1> QED BY <1>1, <1>2, Zenon DEF Informed, LastIs

(* A step that changes the inbox of a running worker w only. *)
LEMMA OneInbox ==
  ASSUME RulesInv, NEW w \in Workers, running[w], NEW q \in Seq(Messages),
         inbox' = [inbox EXCEPT ![w] = q], UNCHANGED <<main, at, config, file, running>>,
         DOMAIN domains' = Workers, \A v \in Workers \ {w} : domains'[v] = domains[v],
         Informed(w) => Informed(w)'
  PROVE  RulesInv'
<1> USE DEF RulesInv
<1>1. ~NoThreads BY Zenon DEF DeliveryInv
<1>2. \A v \in Workers \ {w} : inbox'[v] = inbox[v] BY Zenon DEF WorkersType
<1>3. \A v \in Workers : Informed(v) => Informed(v)'
  <2> TAKE v \in Workers
  <2>1. CASE v # w BY <1>2, <2>1, Zenon DEF Informed
  <2> QED BY <2>1, Zenon
<1>4. WorkersType' BY Zenon DEF WorkersType
<1>5. 0..(at - 1) \subseteq Workers \/ main # "broadcast"
  BY RuntimeAssumption DEF CursorInv, Workers
<1>6. DeliveryInv' BY <1>1, <1>3, <1>5, Zenon DEF DeliveryInv, NoThreads
<1> QED BY <1>4, <1>6, Zenon DEF CursorInv

LEMMA HandleDelivers ==
  ASSUME RulesInv, NEW w \in Workers, Handle(w)
  PROVE  RulesInv'
<1> DEFINE q == inbox[w]
<1>1. q \in Seq(Messages) /\ q # <<>> /\ running[w] /\ DOMAIN domains = Workers
  BY Zenon DEF Handle, RulesInv, WorkersType
<1>2. /\ Tail(q) \in Seq(Messages) /\ inbox' = [inbox EXCEPT ![w] = Tail(q)]
      /\ UNCHANGED <<main, at, config, file, running>>
  BY <1>1 DEF Handle
<1>3. /\ DOMAIN domains' = Workers /\ \A v \in Workers \ {w} : domains'[v] = domains[v]
      /\ domains'[w] = IF Head(q) = "packet" THEN domains[w] ELSE Head(q)
  BY <1>1, Zenon DEF Handle
<1>4. inbox'[w] = Tail(q) BY <1>2, Zenon DEF RulesInv, WorkersType
<1>5. Informed(w) => Informed(w)'
  BY <1>1, <1>2, <1>3, <1>4, HeadTaken, Zenon DEF Informed
<1> QED BY <1>1, <1>2, <1>3, <1>5, OneInbox, Zenon

LEMMA DispatchDelivers ==
  ASSUME RulesInv, NEW w \in Workers, DispatchPacket(w)
  PROVE  RulesInv'
<1> DEFINE q == inbox[w]
<1>1. q \in Seq(Messages) /\ running[w] /\ DOMAIN domains = Workers
  BY Zenon DEF DispatchPacket, RulesInv, WorkersType
<1>2. UNCHANGED <<main, at, config, file, running, domains>> BY Zenon DEF DispatchPacket
<1>3. CASE inbox' = inbox
  BY <1>2, <1>3, Zenon
     DEF RulesInv, CursorInv, WorkersType, DeliveryInv, NoThreads, Informed
<1>4. CASE inbox' = [inbox EXCEPT ![w] = Append(q, "packet")]
  <2>1. Append(q, "packet") \in Seq(Messages) BY <1>1 DEF Messages
  <2>2. inbox'[w] = Append(q, "packet") BY <1>4, Zenon DEF RulesInv, WorkersType
  <2>3. Informed(w) => Informed(w)'
    BY <1>1, <1>2, <2>2, PacketAppended, Zenon DEF Informed
  <2> QED BY <1>1, <1>2, <1>4, <2>1, <2>3, OneInbox, Zenon
<1> QED BY <1>3, <1>4, Zenon DEF DispatchPacket

LEMMA StopDelivers ==
  ASSUME RulesInv, NEW w \in Workers, Stop(w)
  PROVE  RulesInv'
<1> USE DEF RulesInv
<1>1. /\ running' = [running EXCEPT ![w] = FALSE] /\ inbox' = [inbox EXCEPT ![w] = <<>>]
      /\ UNCHANGED <<main, at, config, file, domains>> /\ running[w]
  BY Zenon DEF Stop
<1>2. ~NoThreads BY <1>1, Zenon DEF DeliveryInv
<1>3. WorkersType' BY <1>1 DEF WorkersType
<1>4. \A v \in Workers : running'[v] => running[v] /\ inbox'[v] = inbox[v]
  BY <1>1, Zenon DEF WorkersType
<1>5. 0..(at - 1) \subseteq Workers \/ main # "broadcast"
  BY RuntimeAssumption DEF CursorInv, Workers
<1>6. DeliveryInv' BY <1>1, <1>2, <1>4, <1>5, Zenon DEF DeliveryInv, NoThreads, Informed
<1> QED BY <1>1, <1>3, <1>6, Zenon DEF CursorInv

(* broadcast: the worker it is at has the rules, or is gone. *)
LEMMA BroadcastDelivers ==
  ASSUME RulesInv, Broadcast
  PROVE  DeliveryInv' /\ WorkersType'
<1> USE DEF RulesInv
<1> DEFINE q == inbox[at]
           r == config.domains
<1>1. main = "broadcast" /\ at \in Workers /\ UNCHANGED <<config, file, running, domains>>
  BY Zenon DEF Broadcast, CursorInv
<1>2. q \in Seq(Messages) /\ r \in RuleSets BY <1>1, Zenon DEF WorkersType, RuleSets
<1>3. \/ main' = "loop" /\ at' = 0 /\ at = WorkerCount - 1
      \/ main' = "broadcast" /\ at' = at + 1
  <2>1. WorkerCount \in Nat \ {0} /\ at \in 0..(WorkerCount - 1)
    BY <1>1, RuntimeAssumption, Zenon DEF Workers
  <2> QED BY <1>1, <2>1, Advances, Zenon DEF Broadcast
<1>4. /\ WorkersType' /\ \A v \in Workers \ {at} : inbox'[v] = inbox[v]
      /\ running[at] => inbox'[at] = Append(q, r)
  <2>1. Append(q, r) \in Seq(Messages) BY <1>2 DEF Messages
  <2> QED BY <1>1, <2>1, Zenon DEF Broadcast, WorkersType
<1>5. ASSUME NEW v \in Workers, running[v],
             v = at \/ (v < at /\ main = "broadcast")
      PROVE  Informed(v)'
  <2>1. CASE v = at
    <3>1. LastIs(Append(q, r), domains[at], r) BY <1>2, RulesAppended, Zenon
    <3>2. LastIs(inbox'[v], domains'[v], config'.domains)
      BY <1>1, <1>4, <1>5, <2>1, <3>1, Zenon
    <3> QED BY <3>2, Zenon DEF Informed
  <2>2. CASE v # at
    <3>1. v \in 0..(at - 1) BY <1>1, <1>5, <2>2, RuntimeAssumption DEF Workers
    <3>2. LastIs(inbox[v], domains[v], config.domains)
      BY <1>1, <1>5, <3>1, Zenon DEF DeliveryInv, Informed
    <3>3. LastIs(inbox'[v], domains'[v], config'.domains)
      BY <1>1, <1>4, <2>2, <3>2, Zenon
    <3> QED BY <3>3, Zenon DEF Informed
  <2> QED BY <2>1, <2>2, Zenon
<1>6. CASE main' = "loop" /\ at = WorkerCount - 1
  <2>1. \A v \in Workers : v = at \/ v < at
    BY <1>1, <1>6, RuntimeAssumption DEF Workers
  <2>2. \A v \in Workers : running'[v] => Informed(v)' BY <1>1, <1>5, <2>1, Zenon
  <2> QED BY <1>4, <1>6, <2>2, Zenon DEF DeliveryInv, NoThreads
<1>7. CASE main' = "broadcast" /\ at' = at + 1
  <2>1. \A v \in 0..(at' - 1) : v \in Workers /\ (v = at \/ v < at)
    BY <1>1, <1>7, RuntimeAssumption DEF Workers
  <2>2. \A v \in 0..(at' - 1) : running'[v] => Informed(v)' BY <1>1, <1>5, <2>1, Zenon
  <2> QED BY <1>4, <1>7, <2>2, Zenon DEF DeliveryInv, NoThreads
<1> QED BY <1>3, <1>6, <1>7, Zenon

(* Every step keeps the rules on their way. *)
LEMMA RulesStep == KernelInv /\ RulesInv /\ [Next]_vars => RulesInv'
<1> SUFFICES ASSUME KernelInv, RulesInv, [Next]_vars PROVE RulesInv'
  BY Zenon
<1> USE DEF RulesInv
<1>0. CursorInv' BY KernelStep, Zenon DEF KernelInv
<1>1. ASSUME NEW w \in Workers, Handle(w) \/ Stop(w) \/ DispatchPacket(w) PROVE RulesInv'
  BY <1>1, HandleDelivers, StopDelivers, DispatchDelivers, Zenon
<1>2. CASE Broadcast BY <1>0, <1>2, BroadcastDelivers, Zenon
<1>3. CASE MainStep /\ ~Broadcast
  <2> USE DEF threads, WorkersType, DeliveryInv, NoThreads, Informed
  <2>1. ASSUME NEW ok \in BOOLEAN, NEW cleared \in BOOLEAN, NEW added,
               Configure(ok, cleared, added)
        PROVE  RulesInv'
    BY <1>0, <2>1, Zenon DEF Configure, Advance
  <2>2. ASSUME NEW cleared \in BOOLEAN, NEW added, Reconfigure(cleared, added) PROVE RulesInv'
    BY <1>0, <2>2 DEF Reconfigure, Advance
  <2>3. ASSUME NEW ok \in BOOLEAN, Reload(ok) PROVE RulesInv' BY <1>0, <2>3, Zenon DEF Reload
  <2>4. ASSUME NEW ok \in BOOLEAN, Disable(ok) PROVE RulesInv'
    BY <1>0, <2>4, Zenon DEF Disable, Advance
  <2>5. ASSUME NEW still_on, EnableFails(still_on) PROVE RulesInv'
    BY <1>0, <2>5, Zenon DEF EnableFails
  <2>6. CASE Spawn BY <1>0, <2>6 DEF Spawn, LastIs
  <2>7. CASE Enable BY <1>0, <2>7, Zenon DEF Enable, Advance
  <2>8. CASE NoticeExit BY <1>0, <2>8, Zenon DEF NoticeExit
  <2>9. CASE LeaveLoop BY <1>0, <2>9, Zenon DEF LeaveLoop
  <2>10. CASE Join BY <1>0, <2>10, Zenon DEF Join
  <2>11. ASSUME NEW started, SpawnFails(started) PROVE RulesInv'
    BY <1>0, <2>11, Zenon DEF SpawnFails
  <2> QED BY <1>3, <2>1, <2>2, <2>3, <2>4, <2>5, <2>6, <2>7, <2>8, <2>9, <2>10, <2>11,
              Zenon DEF MainStep
<1>4. ASSUME UNCHANGED <<main, at, config, running, domains, inbox>>, file' \in Policies
      PROVE  RulesInv'
  BY <1>0, <1>4, Zenon DEF WorkersType, DeliveryInv, NoThreads, Informed
<1>5. CASE RequestExit BY <1>4, <1>5, Zenon DEF RequestExit, threads, WorkersType
<1>6. CASE RequestReload BY <1>4, <1>6, Zenon DEF RequestReload, threads, WorkersType
<1>7. ASSUME NEW p \in Policies, EditFile(p) PROVE RulesInv'
  BY <1>4, <1>7, Zenon DEF EditFile, threads
<1>8. CASE UNCHANGED vars BY <1>4, <1>8, Zenon DEF vars, threads, WorkersType
<1> QED BY <1>1, <1>2, <1>3, <1>5, <1>6, <1>7, <1>8, Zenon DEF Next

(* A reload reaches every Flow worker that runs, behind whatever packets,  *)
(* earlier rule sets, stops and signals.                                   *)
THEOREM ReloadsReachWorkers == Spec => []RulesDelivered
<1>1. Init => RulesInv
  <2>1. Init => WorkersType
    BY RuntimeAssumption DEF Init, WorkersType
  <2>2. Init => DeliveryInv /\ CursorInv
    BY KernelInit, Zenon DEF Init, DeliveryInv, NoThreads, KernelInv
  <2> QED BY <2>1, <2>2, Zenon DEF RulesInv
<1>2. RulesInv => RulesDelivered
  BY InformedRules, Zenon DEF RulesInv, DeliveryInv, RulesDelivered
<1>3. KernelInv /\ RulesInv /\ [Next]_vars => KernelInv' /\ RulesInv'
  BY KernelStep, RulesStep, Zenon
<1> QED BY <1>1, <1>2, <1>3, KernelInit, PTL DEF Spec

-----------------------------------------------------------------------------
(* The BPF link of an interface. *)
(* The state has its shape; a process that does not hold the lock is off. *)
TypeInv ==
  /\ attached \in {Nothing} \cup Programs
  /\ record \in {Nothing} \cup Records
  /\ lock \in {Nothing} \cup Pids
  /\ DOMAIN proc = Pids
  /\ \A p \in Pids :
       /\ DOMAIN proc[p] = {"pc", "mode", "program", "owned", "started", "robbed"}
       /\ proc[p].program \in {Nothing} \cup Ids
       /\ IF lock = p THEN proc[p].pc # "off" /\ proc[p].mode \in Modes ELSE proc[p] = Off

RecordOf(id, mode) == [program_id |-> id, mode |-> mode]
Ours == attached # Nothing /\ attached.by = "new_proxy"

(* The holder's program, pins and record, by where the holder is. *)
OwnInv(p) ==
  /\ proc[p].pc \in {"recheck", "attach", "verify", "record", "rename", "up"} =>
       proc[p].program \in Ids /\ pins = proc[p].program
  /\ proc[p].pc \in {"verify", "record", "rename", "up"} =>
       proc[p].owned /\ (AttachedId = proc[p].program \/ proc[p].robbed)
  /\ proc[p].owned => proc[p].program \in Ids
  /\ proc[p].started => proc[p].pc \in {"up", "drop", "detach", "confirm", "clean"}
  /\ proc[p].pc = "up" => proc[p].started
  /\ proc[p].started /\ proc[p].pc \in {"up", "drop", "detach"} =>
       record = RecordOf(proc[p].program, proc[p].mode)

Undisturbed == TypeInv /\ \A p \in Pids : lock = p => OwnInv(p)

(* What is compared before a detach still holds at the detach, but for a   *)
(* race; and the administrator's program is never one that is compared.    *)
ForeignInv ==
  /\ attached # Nothing /\ attached.by = "admin" =>
       /\ record # Nothing => record.program_id # attached.id
       /\ \A p \in Pids : proc[p].program # attached.id
  /\ ~raced => \A p \in Pids :
       /\ proc[p].pc = "detach_stale" => record # Nothing /\ AttachedId = record.program_id
       /\ proc[p].pc = "detach" => AttachedId = proc[p].program /\ proc[p].owned
  /\ foreign => raced

(* A program of new_proxy on the interface, by where the holder is, while  *)
(* commands succeed.                                                       *)
Before == {"stale", "detach_stale"}
Without == {"forget", "inspect", "load", "recheck", "attach", "confirm", "clean"}
OursInv(p) ==
  Ours => /\ proc[p].pc \in Before => record = RecordOf(attached.id, attached.mode)
          /\ proc[p].pc \notin Without
          /\ proc[p].pc \notin Before =>
               /\ proc[p].owned
               /\ attached.id = proc[p].program /\ attached.mode = proc[p].mode

LeftoverInv ==
  ~mayfail =>
    /\ lock = Nothing /\ Ours => record = RecordOf(attached.id, attached.mode)
    /\ \A p \in Pids : lock = p => OursInv(p)

-----------------------------------------------------------------------------
(* Steps of a process. *)

Fields == {"pc", "mode", "program", "owned", "started", "robbed"}

(* Process p is the only one that is not off, and goes on at pc. *)
Moved(p, pc) ==
  /\ DOMAIN proc' = Pids /\ DOMAIN proc'[p] = Fields
  /\ \A q \in Pids \ {p} : proc'[q] = proc[q]
  /\ proc'[p].pc = pc /\ proc'[p].mode = proc[p].mode /\ proc'[p].program = proc[p].program
  /\ proc'[p].owned = proc[p].owned /\ proc'[p].started = proc[p].started
  /\ proc'[p].robbed = proc[p].robbed

LEMMA OffFields ==
  /\ DOMAIN Off = Fields /\ Off.pc = "off" /\ Off.program = Nothing
  /\ ~Off.owned /\ ~Off.started /\ ~Off.robbed
BY Zenon DEF Off, Fields

LEMMA SameField ==
  ASSUME NEW f, NEW x \in DOMAIN f, f = [y \in DOMAIN f |-> f[y]]
  PROVE  [f EXCEPT ![x] = f[x]] = f
BY Zenon

LEMMA Holder ==
  ASSUME TypeInv, NEW p \in Pids, ~At(p, "off")
  PROVE  /\ lock = p /\ lock # Nothing /\ DOMAIN proc[p] = Fields
         /\ \A q \in Pids \ {p} : lock # q /\ proc[q] = Off
BY OffFields, BpfLinkAssumption, Zenon DEF TypeInv, At, Fields

LEMMA GotoMoves ==
  ASSUME TypeInv, NEW p \in Pids, NEW pc, Goto(p, pc)
  PROVE  Moved(p, pc)
<1>1. proc' = [proc EXCEPT ![p] = [proc[p] EXCEPT !.pc = pc]] BY Zenon DEF Goto
<1>2. DOMAIN proc = Pids /\ DOMAIN proc[p] = Fields BY Zenon DEF TypeInv, Fields
<1>3. proc'[p] = [proc[p] EXCEPT !.pc = pc] /\ DOMAIN proc' = Pids
      /\ \A q \in Pids \ {p} : proc'[q] = proc[q]
  BY <1>1, <1>2, Zenon
<1> QED BY <1>2, <1>3, Zenon DEF Moved, Fields

(* A process that goes on, with the lock, keeps the shape of the state. *)
GoesOn(p) ==
  /\ DOMAIN proc' = Pids /\ DOMAIN proc'[p] = Fields
  /\ \A q \in Pids \ {p} : proc'[q] = proc[q]
  /\ proc'[p].pc # "off" /\ proc'[p].mode = proc[p].mode
  /\ proc'[p].program \in {Nothing} \cup Ids

LEMMA TypeKept ==
  ASSUME TypeInv, NEW p \in Pids, ~At(p, "off"), GoesOn(p), lock' = lock,
         attached' \in {Nothing} \cup Programs, record' \in {Nothing} \cup Records
  PROVE  TypeInv'
<1>1. lock = p /\ \A q \in Pids \ {p} : lock # q /\ proc[q] = Off BY Holder, Zenon
<1>2. ASSUME NEW q \in Pids
      PROVE  /\ DOMAIN proc'[q] = Fields /\ proc'[q].program \in {Nothing} \cup Ids
             /\ IF lock' = q THEN proc'[q].pc # "off" /\ proc'[q].mode \in Modes
                             ELSE proc'[q] = Off
  <2>1. CASE q = p BY <1>1, <2>1, Zenon DEF TypeInv, GoesOn
  <2>2. CASE q # p BY <1>1, <2>2, OffFields, Zenon DEF GoesOn
  <2> QED BY <2>1, <2>2, Zenon
<1>3. lock' \in {Nothing} \cup Pids /\ DOMAIN proc' = Pids BY Zenon DEF TypeInv, GoesOn
<1> QED BY <1>2, <1>3, Zenon DEF TypeInv, Fields

LEMMA MovedType ==
  ASSUME TypeInv, NEW p \in Pids, NEW pc, ~At(p, "off"), pc # "off", Moved(p, pc), lock' = lock,
         attached' \in {Nothing} \cup Programs, record' \in {Nothing} \cup Records
  PROVE  TypeInv'
<1>1. GoesOn(p) BY Zenon DEF TypeInv, Moved, GoesOn
<1> QED BY <1>1, TypeKept, Zenon

(* A process that exits. *)
LEMMA Exits ==
  ASSUME TypeInv, NEW p \in Pids, ~At(p, "off"), Exit(p),
         attached' \in {Nothing} \cup Programs, record' \in {Nothing} \cup Records
  PROVE  /\ TypeInv' /\ lock' = Nothing
         /\ \A q \in Pids : proc'[q] = Off /\ lock' # q
<1>1. \A q \in Pids \ {p} : proc[q] = Off BY Holder, Zenon
<1>2. DOMAIN proc' = Pids /\ \A q \in Pids : proc'[q] = Off
  BY <1>1, Zenon DEF TypeInv, Exit
<1>3. lock' = Nothing /\ \A q \in Pids : lock' # q BY BpfLinkAssumption, Zenon DEF Exit
<1> QED BY <1>2, <1>3, OffFields, Zenon DEF TypeInv, Fields

-----------------------------------------------------------------------------
(* RunningUndisturbed. *)

LEMMA ExitUndisturbed ==
  ASSUME TypeInv, NEW p \in Pids, ~At(p, "off"), Exit(p),
         attached' \in {Nothing} \cup Programs, record' \in {Nothing} \cup Records
  PROVE  Undisturbed'
BY Exits, Zenon DEF Undisturbed

LEMMA MovedUndisturbed ==
  ASSUME TypeInv, NEW p \in Pids, NEW pc, ~At(p, "off"), pc # "off", Moved(p, pc), lock' = lock,
         attached' \in {Nothing} \cup Programs, record' \in {Nothing} \cup Records,
         OwnInv(p)'
  PROVE  Undisturbed'
<1>1. TypeInv' BY MovedType, Zenon
<1>2. lock' = p /\ \A q \in Pids : lock' = q => q = p BY Holder, Zenon
<1> QED BY <1>1, <1>2, Zenon DEF Undisturbed

(* A failure leads to the drop. *)
LEMMA FailUndisturbed ==
  ASSUME Undisturbed, NEW p \in Pids, ~At(p, "off"), ~At(p, "up"), ~proc[p].started,
         Fail(p), lock' = lock, attached' = attached, record' \in {Nothing} \cup Records
  PROVE  Undisturbed'
<1>1. Moved(p, "drop") BY GotoMoves, Zenon DEF Fail, Undisturbed
<1>2. OwnInv(p) /\ attached' \in {Nothing} \cup Programs
  BY Holder, Zenon DEF Undisturbed, TypeInv
<1>3. OwnInv(p)' BY <1>1, <1>2, Zenon DEF Moved, OwnInv
<1> QED BY <1>1, <1>2, <1>3, MovedUndisturbed, Zenon DEF Undisturbed

LEMMA AttachUndisturbed ==
  ASSUME Undisturbed, NEW p \in Pids,
         ReadOwner(p) \/ DetachStale(p) \/ Forget(p) \/ Inspect(p)
  PROVE  Undisturbed'
<1> USE DEF Undisturbed
<1>1. /\ proc[p].pc \in {"stale", "detach_stale", "forget", "inspect"} /\ lock' = lock
      /\ ~At(p, "off") /\ ~At(p, "up") /\ OwnInv(p)
  <2>1. /\ proc[p].pc \in {"stale", "detach_stale", "forget", "inspect"} /\ lock' = lock
        /\ ~At(p, "off") /\ ~At(p, "up")
    BY Zenon DEF ReadOwner, DetachStale, Forget, Inspect, disk, At
  <2> QED BY <2>1, Holder, Zenon
<1>2. ~proc[p].started BY <1>1, Zenon DEF OwnInv
<1>3. /\ attached' \in {Nothing} \cup Programs
      /\ record' \in {Nothing} \cup Records
  BY Zenon DEF ReadOwner, DetachStale, Forget, Inspect, disk, Detaches, TypeInv
<1>4. CASE Fail(p) /\ attached' = attached BY <1>1, <1>2, <1>3, <1>4, FailUndisturbed, Zenon
<1>5. ASSUME NEW pc \in {"inspect", "detach_stale", "forget", "load"}, Goto(p, pc)
      PROVE  Undisturbed'
  <2>1. Moved(p, pc) BY <1>5, GotoMoves, Zenon
  <2>2. OwnInv(p)' BY <1>1, <1>2, <1>5, <2>1, Zenon DEF Moved, OwnInv
  <2> QED BY <1>1, <1>3, <1>5, <2>1, <2>2, MovedUndisturbed, Zenon
<1> QED BY <1>4, <1>5, Zenon DEF ReadOwner, DetachStale, Forget, Inspect, disk

(* From the load to the record. *)
LEMMA StartUndisturbed ==
  ASSUME Undisturbed, NEW p \in Pids,
         Load(p) \/ Recheck(p) \/ Attach(p) \/ Verify(p) \/ WriteTemp(p) \/ Rename(p)
  PROVE  Undisturbed'
<1> USE DEF Undisturbed
<1>1. /\ proc[p].pc \in {"load", "recheck", "attach", "verify", "record", "rename"}
      /\ lock' = lock /\ ~At(p, "off") /\ ~At(p, "up") /\ OwnInv(p)
  <2>1. /\ proc[p].pc \in {"load", "recheck", "attach", "verify", "record", "rename"}
        /\ lock' = lock /\ ~At(p, "off") /\ ~At(p, "up")
    BY Zenon DEF Load, Recheck, Attach, Verify, WriteTemp, Rename, disk, At
  <2> QED BY <2>1, Holder, Zenon
<1>2. ~proc[p].started BY <1>1, Zenon DEF OwnInv
<1>3. DOMAIN proc = Pids /\ DOMAIN proc[p] = Fields BY Zenon DEF TypeInv, Fields
<1>4. lock = p /\ proc[p].mode \in Modes BY <1>1, Holder, Zenon DEF TypeInv
<1>5. CASE Load(p)
  <2>1. CASE Fail(p) BY <1>1, <1>2, <1>5, <2>1, FailUndisturbed, Zenon DEF Load, TypeInv
  <2>2. ASSUME NEW id \in Fresh, pins' = id,
               proc' = [proc EXCEPT ![p].program = id, ![p].pc = "recheck"]
        PROVE  Undisturbed'
    <3>1. /\ DOMAIN proc' = Pids /\ \A q \in Pids \ {p} : proc'[q] = proc[q]
          /\ DOMAIN proc'[p] = Fields /\ proc'[p].pc = "recheck" /\ proc'[p].program = id
          /\ proc'[p].mode = proc[p].mode /\ proc'[p].started = proc[p].started
          /\ proc'[p].owned = proc[p].owned
      BY <1>3, <2>2, Zenon DEF Fields
    <3>2. id \in Ids BY Zenon DEF Fresh
    <3>3. OwnInv(p)' BY <1>2, <2>2, <3>1, <3>2, Zenon DEF OwnInv
    <3>4. attached' = attached /\ record' = record BY <1>5, Zenon DEF Load
    <3>5. TypeInv'
      <4>1. GoesOn(p) BY <3>1, <3>2, Zenon DEF GoesOn
      <4> QED BY <1>1, <3>4, <4>1, TypeKept, Zenon DEF TypeInv
    <3> QED BY <1>1, <1>4, <3>3, <3>5, Zenon
  <2> QED BY <1>5, <2>1, <2>2, Zenon DEF Load
<1>6. CASE Recheck(p)
  <2>1. attached' = attached /\ record' = record BY <1>6, Zenon DEF Recheck
  <2>2. CASE Fail(p) BY <1>1, <1>2, <2>1, <2>2, FailUndisturbed, Zenon DEF TypeInv
  <2>3. CASE Goto(p, "attach") /\ pins' = pins
    <3>1. Moved(p, "attach") BY <2>3, GotoMoves, Zenon
    <3>2. OwnInv(p)' BY <1>1, <1>2, <1>6, <2>3, <3>1, Zenon DEF Moved, OwnInv, Recheck, At
    <3> QED BY <1>1, <2>1, <3>1, <3>2, MovedUndisturbed, Zenon DEF TypeInv
  <2> QED BY <1>6, <2>2, <2>3, Zenon DEF Recheck
<1>7. CASE Attach(p)
  <2>1. record' = record /\ pins' \in {pins, Nothing} BY <1>7, Zenon DEF Attach
  <2>2. CASE Fail(p) /\ attached' = attached
    BY <1>1, <1>2, <2>1, <2>2, FailUndisturbed, Zenon DEF TypeInv
  <2>3. ASSUME attached' = [id |-> proc[p].program, mode |-> proc[p].mode, by |-> "new_proxy"],
               proc' = [proc EXCEPT ![p].owned = TRUE, ![p].pc = "verify"], pins' = pins
        PROVE  Undisturbed'
    <3>1. /\ DOMAIN proc' = Pids /\ \A q \in Pids \ {p} : proc'[q] = proc[q]
          /\ DOMAIN proc'[p] = Fields /\ proc'[p].pc = "verify" /\ proc'[p].owned
          /\ proc'[p].mode = proc[p].mode /\ proc'[p].started = proc[p].started
          /\ proc'[p].program = proc[p].program
      BY <1>3, <2>3, Zenon DEF Fields
    <3>2. proc[p].program \in Ids /\ pins = proc[p].program
      BY <1>1, <1>7, Zenon DEF OwnInv, Attach, At
    <3>3. attached' \in Programs /\ attached' # Nothing /\ attached'.id = proc[p].program
      BY <1>4, <2>3, <3>2, BpfLinkAssumption DEF Programs
    <3>4. OwnInv(p)' BY <1>2, <2>3, <3>1, <3>2, <3>3, Zenon DEF OwnInv, AttachedId
    <3>5. TypeInv'
      <4>1. GoesOn(p) BY <3>1, Zenon DEF GoesOn, TypeInv
      <4> QED BY <1>1, <2>1, <3>3, <4>1, TypeKept, Zenon DEF TypeInv
    <3> QED BY <1>1, <1>4, <3>4, <3>5, Zenon
  <2> QED BY <1>7, <2>2, <2>3, Zenon DEF Attach
<1>8. CASE Verify(p)
  <2>1. UNCHANGED <<attached, record, pins>> BY <1>8, Zenon DEF Verify, disk
  <2>2. CASE Fail(p) BY <1>1, <1>2, <2>1, <2>2, FailUndisturbed, Zenon DEF TypeInv
  <2>3. CASE Goto(p, "record")
    <3>1. Moved(p, "record") BY <2>3, GotoMoves, Zenon
    <3>2. OwnInv(p)'
      BY <1>1, <1>2, <1>8, <2>1, <3>1, Zenon DEF Moved, OwnInv, AttachedId, Verify, At
    <3> QED BY <1>1, <2>1, <3>1, <3>2, MovedUndisturbed, Zenon DEF TypeInv
  <2> QED BY <1>8, <2>2, <2>3, Zenon DEF Verify
<1>9. CASE WriteTemp(p)
  <2>1. UNCHANGED <<attached, record, pins>> BY <1>9, Zenon DEF WriteTemp
  <2>2. CASE Fail(p) BY <1>1, <1>2, <2>1, <2>2, FailUndisturbed, Zenon DEF TypeInv
  <2>3. CASE Goto(p, "rename")
    <3>1. Moved(p, "rename") BY <2>3, GotoMoves, Zenon
    <3>2. OwnInv(p)'
      BY <1>1, <1>2, <1>9, <2>1, <3>1, Zenon DEF Moved, OwnInv, AttachedId, WriteTemp, At
    <3> QED BY <1>1, <2>1, <3>1, <3>2, MovedUndisturbed, Zenon DEF TypeInv
  <2> QED BY <1>9, <2>2, <2>3, Zenon DEF WriteTemp
<1>10. CASE Rename(p)
  <2>1. UNCHANGED <<attached, pins>> BY <1>10, Zenon DEF Rename
  <2>2. CASE Fail(p) /\ record' = record
    BY <1>1, <1>2, <2>1, <2>2, FailUndisturbed, Zenon DEF TypeInv
  <2>3. ASSUME record' = [program_id |-> proc[p].program, mode |-> proc[p].mode],
               proc' = [proc EXCEPT ![p].pc = "up", ![p].started = TRUE]
        PROVE  Undisturbed'
    <3>1. /\ DOMAIN proc' = Pids /\ \A q \in Pids \ {p} : proc'[q] = proc[q]
          /\ DOMAIN proc'[p] = Fields /\ proc'[p].pc = "up" /\ proc'[p].started
          /\ proc'[p].owned = proc[p].owned /\ proc'[p].mode = proc[p].mode
          /\ proc'[p].program = proc[p].program /\ proc'[p].robbed = proc[p].robbed
      BY <1>3, <2>3, Zenon DEF Fields
    <3>2. /\ proc[p].program \in Ids /\ pins = proc[p].program /\ proc[p].owned
          /\ AttachedId = proc[p].program \/ proc[p].robbed
      BY <1>1, <1>10, Zenon DEF OwnInv, Rename, At
    <3>3. record' \in Records BY <1>4, <2>3, <3>2, Zenon DEF Records
    <3>4. OwnInv(p)'
      BY <2>1, <2>3, <3>1, <3>2, ZenonT(30) DEF OwnInv, AttachedId, RecordOf
    <3>5. TypeInv'
      <4>1. GoesOn(p) BY <3>1, <3>2, Zenon DEF GoesOn
      <4> QED BY <1>1, <2>1, <3>3, <4>1, TypeKept, Zenon DEF TypeInv
    <3> QED BY <1>1, <1>4, <3>4, <3>5, Zenon
  <2> QED BY <1>10, <2>2, <2>3, Zenon DEF Rename
<1> QED BY <1>5, <1>6, <1>7, <1>8, <1>9, <1>10, Zenon

(* The end of a process. *)
LEMMA EndUndisturbed ==
  ASSUME Undisturbed, NEW p \in Pids,
         StopLink(p) \/ Drop(p) \/ Detach(p) \/ Confirm(p) \/ Clean(p) \/ Crash(p)
  PROVE  Undisturbed'
<1> USE DEF Undisturbed
<1>1. ~At(p, "off") BY Zenon DEF StopLink, Drop, Detach, Confirm, Clean, Crash, At
<1>2. OwnInv(p) BY <1>1, Holder, Zenon
<1>3. /\ attached' \in {Nothing} \cup Programs /\ record' \in {Nothing} \cup Records
  <2>1. CASE Crash(p)
    <3>1. record' = record BY <2>1, Zenon DEF Crash, disk
    <3>2. CASE AttachedId = proc[p].program /\ proc[p].owned
      <4>1. attached \in Programs
        BY <1>2, <3>2, BpfLinkAssumption, Zenon DEF OwnInv, AttachedId, TypeInv
      <4>2. [attached EXCEPT !.by = "killed"] \in Programs BY <4>1, Zenon DEF Programs
      <4> QED BY <2>1, <3>1, <4>1, <4>2, Zenon DEF Crash, TypeInv
    <3> QED BY <2>1, <3>1, <3>2, Zenon DEF Crash, TypeInv
  <2> QED BY <2>1, Zenon DEF StopLink, Drop, Detach, Confirm, Clean, disk, Detaches, TypeInv
<1>4. CASE Exit(p) BY <1>1, <1>3, <1>4, ExitUndisturbed, Zenon
<1>5. ASSUME NEW pc \in {"drop", "detach", "clean", "confirm"}, Goto(p, pc), lock' = lock,
             record' = record, proc[p].pc \in {"up", "drop", "detach", "confirm"},
             pc \in {"drop", "detach"} => proc[p].pc \in {"up", "drop"}
      PROVE  Undisturbed'
  <2>1. Moved(p, pc) BY <1>5, GotoMoves, Zenon
  <2>2. OwnInv(p)' BY <1>2, <1>5, <2>1, Zenon DEF Moved, OwnInv
  <2> QED BY <1>1, <1>3, <1>5, <2>1, <2>2, MovedUndisturbed, Zenon
<1>6. CASE StopLink(p) BY <1>5, <1>6, Zenon DEF StopLink, disk, At
<1>7. CASE Drop(p) BY <1>4, <1>5, <1>7, Zenon DEF Drop, disk, At
<1>8. CASE Detach(p) BY <1>4, <1>5, <1>8, Zenon DEF Detach, disk, At
<1>9. CASE Confirm(p) BY <1>4, <1>5, <1>9, Zenon DEF Confirm, disk, At
<1>10. CASE Clean(p) BY <1>4, <1>10, Zenon DEF Clean
<1>11. CASE Crash(p) BY <1>4, <1>11, Zenon DEF Crash
<1> QED BY <1>6, <1>7, <1>8, <1>9, <1>10, <1>11, Zenon

LEMMA ClaimUndisturbed ==
  ASSUME Undisturbed, NEW p \in Pids, NEW mode \in Modes, Claim(p, mode)
  PROVE  Undisturbed'
<1>1. /\ lock = Nothing /\ lock' = p /\ UNCHANGED <<attached, record, pins>>
      /\ \A q \in Pids : proc[q] = Off
  BY BpfLinkAssumption, Zenon DEF Claim, Undisturbed, TypeInv, disk
<1>2. /\ DOMAIN proc' = Pids /\ \A q \in Pids \ {p} : proc'[q] = Off
      /\ proc'[p] = [Off EXCEPT !.pc = "stale", !.mode = mode]
  BY <1>1, Zenon DEF Claim, Undisturbed, TypeInv
<1>3. /\ DOMAIN proc'[p] = Fields /\ proc'[p].pc = "stale" /\ proc'[p].mode = mode
      /\ proc'[p].program = Nothing /\ ~proc'[p].owned /\ ~proc'[p].started
  BY <1>2, Zenon DEF Off, Fields
<1>4. OwnInv(p)' BY <1>3, Zenon DEF OwnInv
<1>5. TypeInv' BY <1>1, <1>2, <1>3, OffFields, Zenon DEF Undisturbed, TypeInv, Fields
<1> QED BY <1>1, <1>4, <1>5, Zenon DEF Undisturbed

(* What the administrator does to the processes. *)
LEMMA Robs ==
  ASSUME TypeInv, Administer
  PROVE  /\ DOMAIN proc' = Pids
         /\ \A p \in Pids :
              /\ DOMAIN proc'[p] = Fields
              /\ proc'[p].pc = proc[p].pc /\ proc'[p].mode = proc[p].mode
              /\ proc'[p].program = proc[p].program /\ proc'[p].owned = proc[p].owned
              /\ proc'[p].started = proc[p].started
              /\ proc[p].robbed \/ (proc[p].owned /\ AttachedId = proc[p].program)
                   => proc'[p].robbed
              /\ proc[p] = Off => proc'[p] = Off
<1> DEFINE rob(p) == proc[p].robbed \/ (proc[p].owned /\ AttachedId = proc[p].program)
<1>1. DOMAIN proc' = Pids /\ \A p \in Pids : proc'[p] = [proc[p] EXCEPT !.robbed = rob(p)]
  BY Zenon DEF Administer
<1>2. ASSUME NEW p \in Pids, proc[p] = Off PROVE proc'[p] = Off
  <2>1. rob(p) = FALSE BY <1>2, OffFields, Zenon
  <2>2. Off = [y \in DOMAIN Off |-> Off[y]] BY Zenon DEF Off
  <2>3. [Off EXCEPT !.robbed = Off.robbed] = Off BY <2>2, SameField, Zenon DEF Off
  <2>4. Off.robbed = FALSE BY Zenon DEF Off
  <2> HIDE DEF rob
  <2> QED BY <1>1, <1>2, <2>1, <2>3, <2>4, Zenon
<1>3. ASSUME NEW p \in Pids
      PROVE  /\ DOMAIN proc'[p] = Fields
             /\ proc'[p].pc = proc[p].pc /\ proc'[p].mode = proc[p].mode
             /\ proc'[p].program = proc[p].program /\ proc'[p].owned = proc[p].owned
             /\ proc'[p].started = proc[p].started /\ proc'[p].robbed = rob(p)
  <2> HIDE DEF rob
  <2>1. DOMAIN proc[p] = Fields BY Zenon DEF TypeInv, Fields
  <2> QED BY <1>1, <2>1, Zenon DEF Fields
<1> QED BY <1>1, <1>2, <1>3, Zenon

LEMMA AdministerUndisturbed ==
  ASSUME Undisturbed, Administer
  PROVE  Undisturbed'
<1> USE DEF Undisturbed
<1>1. UNCHANGED <<record, pins, lock>> BY Zenon DEF Administer, disk
<1>2. attached' \in {Nothing} \cup Programs
  BY Zenon DEF Administer, Programs, Fresh
<1>3. TypeInv' BY <1>1, <1>2, Robs, Zenon DEF TypeInv, Fields
<1>4. ASSUME NEW p \in Pids, lock = p PROVE OwnInv(p)'
  <2>1. OwnInv(p) BY <1>4, Zenon
  <2> QED BY <1>1, <2>1, Robs, Zenon DEF OwnInv
<1> QED BY <1>1, <1>3, <1>4, Zenon

LEMMA UndisturbedStep == Undisturbed /\ [LinkNext]_link_vars => Undisturbed'
<1> SUFFICES ASSUME Undisturbed, [LinkNext]_link_vars PROVE Undisturbed'
  BY Zenon
<1>1. CASE Start BY <1>1, ClaimUndisturbed, Zenon DEF Start
<1>2. ASSUME NEW p \in Pids, Continue(p) \/ StopLink(p) \/ Crash(p) PROVE Undisturbed'
  BY <1>2, AttachUndisturbed, StartUndisturbed, EndUndisturbed, Zenon DEF Continue
<1>3. CASE Administer BY <1>3, AdministerUndisturbed, Zenon
<1>4. CASE UNCHANGED link_vars
  BY <1>4, Zenon DEF link_vars, disk, Undisturbed, TypeInv, OwnInv, AttachedId
<1> QED BY <1>1, <1>2, <1>3, <1>4, Zenon DEF LinkNext

LEMMA UndisturbedInit == LinkInit => Undisturbed
BY OffFields, BpfLinkAssumption, Zenon DEF LinkInit, Undisturbed, TypeInv, Fields

(* The record, the pins and the program of a process that is up stay its   *)
(* own whatever other processes try, fail at or leave behind, unless the   *)
(* administrator takes the program off.                                    *)
THEOREM RunningIsUndisturbed == LinkSpec => []RunningUndisturbed
<1>1. Undisturbed => RunningUndisturbed
  <2> SUFFICES ASSUME Undisturbed, NEW p \in Pids, At(p, "up")
               PROVE  /\ record = [program_id |-> proc[p].program, mode |-> proc[p].mode]
                      /\ pins = proc[p].program
                      /\ AttachedId = proc[p].program \/ proc[p].robbed
    BY Zenon DEF RunningUndisturbed
  <2>1. OwnInv(p) BY Holder, Zenon DEF Undisturbed, At
  <2> QED BY <2>1, Zenon DEF OwnInv, At, RecordOf
<1> QED BY <1>1, UndisturbedInit, UndisturbedStep, PTL DEF LinkSpec

-----------------------------------------------------------------------------
(* ForeignOnlyRaced. *)

(* A step of p that takes no identifier from a program of the              *)
(* administrator, and does not compare identifiers.                        *)
LEMMA ForeignKept ==
  ASSUME TypeInv, ForeignInv, NEW p \in Pids, \A q \in Pids \ {p} : proc'[q] = Off,
         attached' = attached \/ attached' = Nothing \/ attached'.by # "admin",
         record' \in {Nothing, record} \/ record'.program_id = proc[p].program,
         proc'[p].program \in {Nothing, proc[p].program} \/ proc'[p].program # AttachedId,
         raced' = raced, foreign' => foreign \/ raced,
         ~raced =>
           /\ proc'[p].pc = "detach_stale" => record' # Nothing /\ AttachedId' = record'.program_id
           /\ proc'[p].pc = "detach" => AttachedId' = proc'[p].program /\ proc'[p].owned
  PROVE  ForeignInv'
<1>1. ASSUME attached' # Nothing, attached'.by = "admin"
      PROVE  /\ record' # Nothing => record'.program_id # attached'.id
             /\ \A q \in Pids : proc'[q].program # attached'.id
  <2>1. attached' = attached /\ attached \in Programs /\ AttachedId = attached.id
    BY <1>1, Zenon DEF TypeInv, AttachedId
  <2>2. attached.id # Nothing BY <2>1, BpfLinkAssumption, Zenon DEF Programs
  <2> QED BY <1>1, <2>1, <2>2, OffFields, Zenon DEF ForeignInv
<1>2. \A q \in Pids \ {p} : proc'[q].pc = "off" BY OffFields, Zenon
<1>3. foreign' => raced' BY Zenon DEF ForeignInv
<1> QED BY <1>1, <1>2, <1>3, Zenon DEF ForeignInv

LEMMA MovedForeign ==
  ASSUME TypeInv, ForeignInv, NEW p \in Pids, ~At(p, "off"), NEW pc, Goto(p, pc) \/ Exit(p),
         pc \notin {"detach_stale", "detach"},
         attached' = attached \/ attached' = Nothing \/ attached'.by # "admin",
         record' \in {Nothing, record}, raced' = raced, foreign' => foreign \/ raced
  PROVE  ForeignInv'
<1>1. \A q \in Pids \ {p} : proc[q] = Off BY Holder, Zenon
<1>2. CASE Goto(p, pc)
  <2>1. Moved(p, pc) BY <1>2, GotoMoves, Zenon
  <2>2. /\ \A q \in Pids \ {p} : proc'[q] = Off
        /\ proc'[p].pc = pc /\ proc'[p].program = proc[p].program
    BY <1>1, <2>1, Zenon DEF Moved
  <2>3. proc'[p].pc # "detach_stale" /\ proc'[p].pc # "detach" BY <2>2, Zenon
  <2>4. record' \in {Nothing, record} \/ record'.program_id = proc[p].program BY Zenon
  <2>5. proc'[p].program \in {Nothing, proc[p].program} \/ proc'[p].program # AttachedId
    BY <2>2, Zenon
  <2> QED BY <2>2, <2>3, <2>4, <2>5, ForeignKept, ZenonT(30)
<1>3. CASE Exit(p)
  <2>1. \A q \in Pids : proc'[q] = Off BY <1>1, <1>3, Zenon DEF Exit, TypeInv
  <2> QED BY <2>1, OffFields, ForeignKept, Zenon
<1> QED BY <1>2, <1>3, Zenon

(* The detach hits no program of the administrator, without a race. *)
LEMMA DetachesOwn ==
  ASSUME TypeInv, ForeignInv, NEW p \in Pids, NEW mode,
         At(p, "detach_stale") \/ At(p, "detach"), Detaches(mode)
  PROVE  attached' \in {Nothing, attached} /\ (foreign' => foreign \/ raced)
<1>1. attached # Nothing /\ attached.by = "admin" => raced
  BY Zenon DEF ForeignInv, At, AttachedId
<1> QED BY <1>1, Zenon DEF Detaches

LEMMA ForeignStep == Undisturbed /\ ForeignInv /\ [LinkNext]_link_vars => ForeignInv'
<1> SUFFICES ASSUME Undisturbed, ForeignInv, [LinkNext]_link_vars PROVE ForeignInv'
  BY Zenon
<1>0. TypeInv BY Zenon DEF Undisturbed
<1>1. ASSUME NEW p \in Pids, NEW mode \in Modes, Claim(p, mode) PROVE ForeignInv'
  <2>1. /\ \A q \in Pids : proc[q] = Off
        /\ UNCHANGED <<attached, record, raced, foreign>>
    BY <1>0, <1>1, BpfLinkAssumption, Zenon DEF Claim, TypeInv, disk, history
  <2>2. /\ \A q \in Pids \ {p} : proc'[q] = Off
        /\ proc'[p].pc = "stale" /\ proc'[p].program = Nothing
    BY <1>0, <1>1, <2>1, Zenon DEF Claim, TypeInv, Off
  <2> QED BY <1>0, <2>1, <2>2, ForeignKept, Zenon
<1>2. ASSUME NEW p \in Pids, Continue(p) \/ StopLink(p) \/ Crash(p) PROVE ForeignInv'
  <2>1. ~At(p, "off")
    BY <1>2, Zenon DEF Continue, ReadOwner, DetachStale, Forget, Inspect, Load, Recheck, Attach,
                Verify, WriteTemp, Rename, StopLink, Drop, Detach, Confirm, Clean, Crash, At
  <2>2. /\ DOMAIN proc = Pids /\ DOMAIN proc[p] = Fields
        /\ \A q \in Pids \ {p} : proc[q] = Off
    BY <1>0, <2>1, Holder, Zenon DEF TypeInv
  <2> DEFINE Quiet == \E pc : /\ Goto(p, pc) \/ Exit(p)
                              /\ pc \notin {"detach_stale", "detach"}
  <2>3. ASSUME Quiet, record' \in {Nothing, record}, raced' = raced, foreign' => foreign \/ raced,
               attached' = attached \/ attached' = Nothing \/ attached'.by # "admin"
        PROVE  ForeignInv'
    <3>1. PICK pc : (Goto(p, pc) \/ Exit(p)) /\ pc \notin {"detach_stale", "detach"} BY <2>3, Zenon
    <3> QED BY <1>0, <2>1, <2>3, <3>1, MovedForeign, Zenon
  <2>4. ASSUME NEW pc \in {"detach_stale", "detach"}, Goto(p, pc),
               UNCHANGED <<attached, record, raced, foreign>>,
               IF pc = "detach_stale" THEN record # Nothing /\ AttachedId = record.program_id
               ELSE AttachedId = proc[p].program /\ proc[p].owned
        PROVE  ForeignInv'
    <3>1. Moved(p, pc) BY <1>0, <2>4, GotoMoves, Zenon
    <3>2. AttachedId' = AttachedId BY <2>4, Zenon DEF AttachedId
    <3>3. /\ \A q \in Pids \ {p} : proc'[q] = Off
          /\ proc'[p].program = proc[p].program /\ proc'[p].owned = proc[p].owned
          /\ proc'[p].pc = pc
      BY <2>2, <3>1, Zenon DEF Moved
    <3>4. /\ proc'[p].pc = "detach_stale" => record' # Nothing /\ AttachedId' = record'.program_id
          /\ proc'[p].pc = "detach" => AttachedId' = proc'[p].program /\ proc'[p].owned
      BY <2>4, <3>2, <3>3, Zenon
    <3> QED BY <1>0, <2>4, <3>3, <3>4, ForeignKept, Zenon
  <2>5. CASE ReadOwner(p)
    BY <2>3, <2>4, <2>5 DEF ReadOwner, Fail, history
  <2>6. CASE DetachStale(p)
    BY <1>0, <2>3, <2>6, DetachesOwn DEF DetachStale, Fail, disk
  <2>7. CASE Forget(p) \/ Inspect(p) \/ Recheck(p) \/ Verify(p) \/ WriteTemp(p) \/ StopLink(p)
    BY <2>3, <2>7 DEF Forget, Inspect, Recheck, Verify, WriteTemp, StopLink, Fail, history, disk
  <2>8. CASE Load(p)
    <3>1. CASE Fail(p) BY <2>3, <2>8, <3>1 DEF Load, Fail, history
    <3>2. ASSUME NEW id \in Fresh,
                 proc' = [proc EXCEPT ![p].program = id, ![p].pc = "recheck"]
          PROVE  ForeignInv'
      <4>1. /\ \A q \in Pids \ {p} : proc'[q] = proc[q]
            /\ proc'[p].pc = "recheck" /\ proc'[p].program = id
        BY <2>2, <3>2, Zenon DEF Fields
      <4>2. id # AttachedId BY Zenon DEF Fresh, InUse
      <4>3. UNCHANGED <<attached, record, raced, foreign>> BY <2>8, Zenon DEF Load, history
      <4> QED BY <1>0, <2>2, <4>1, <4>2, <4>3, ForeignKept, Zenon
    <3> QED BY <2>8, <3>1, <3>2, Zenon DEF Load
  <2>9. CASE Attach(p)
    <3>1. CASE Fail(p) /\ attached' = attached BY <2>3, <2>9, <3>1 DEF Attach, Fail, history
    <3>2. ASSUME attached' = [id |-> proc[p].program, mode |-> proc[p].mode, by |-> "new_proxy"],
                 proc' = [proc EXCEPT ![p].owned = TRUE, ![p].pc = "verify"]
          PROVE  ForeignInv'
      <4>1. /\ \A q \in Pids \ {p} : proc'[q] = proc[q]
            /\ proc'[p].pc = "verify" /\ proc'[p].program = proc[p].program
        BY <2>2, <3>2, Zenon DEF Fields
      <4>2. attached'.by # "admin" BY <3>2, Zenon
      <4>3. UNCHANGED <<record, raced, foreign>> BY <2>9, Zenon DEF Attach, history
      <4> QED BY <1>0, <2>2, <4>1, <4>2, <4>3, ForeignKept, Zenon
    <3> QED BY <2>9, <3>1, <3>2, Zenon DEF Attach
  <2>10. CASE Rename(p)
    <3>1. CASE Fail(p) /\ record' = record BY <2>3, <2>10, <3>1 DEF Rename, Fail, history
    <3>2. ASSUME record' = [program_id |-> proc[p].program, mode |-> proc[p].mode],
                 proc' = [proc EXCEPT ![p].pc = "up", ![p].started = TRUE]
          PROVE  ForeignInv'
      <4>1. /\ \A q \in Pids \ {p} : proc'[q] = proc[q]
            /\ proc'[p].pc = "up" /\ proc'[p].program = proc[p].program
        BY <2>2, <3>2, Zenon DEF Fields
      <4>2. record'.program_id = proc[p].program BY <3>2, Zenon
      <4>3. UNCHANGED <<attached, raced, foreign>> BY <2>10, Zenon DEF Rename, history
      <4> QED BY <1>0, <2>2, <4>1, <4>2, <4>3, ForeignKept, Zenon
    <3> QED BY <2>10, <3>1, <3>2, Zenon DEF Rename
  <2>11. CASE Drop(p) BY <2>3, <2>4, <2>11 DEF Drop, history, disk
  <2>12. CASE Detach(p) BY <1>0, <2>3, <2>12, DetachesOwn DEF Detach, disk
  <2>13. CASE Confirm(p) BY <2>3, <2>13 DEF Confirm, history, disk
  <2>14. CASE Clean(p) BY <2>3, <2>14 DEF Clean, history
  <2>15. CASE Crash(p)
    <3>1. attached' = attached \/ attached'.by = "killed"
      <4>1. ASSUME proc[p].owned, AttachedId = proc[p].program
            PROVE  [attached EXCEPT !.by = "killed"].by = "killed"
        <5>1. OwnInv(p) BY <2>1, Holder, Zenon DEF Undisturbed
        <5>2. attached \in Programs
          BY <1>0, <4>1, <5>1, BpfLinkAssumption, Zenon DEF OwnInv, AttachedId, TypeInv
        <5> QED BY <5>2, Zenon DEF Programs
      <4> QED BY <2>15, <4>1, Zenon DEF Crash
    <3> QED BY <2>3, <2>15, <3>1, Zenon DEF Crash, disk
  <2> QED
    BY <1>2, <2>5, <2>6, <2>7, <2>8, <2>9, <2>10, <2>11, <2>12, <2>13, <2>14, <2>15, Zenon
       DEF Continue
<1>3. CASE Administer
  <2>1. /\ UNCHANGED <<record, foreign>>
        /\ raced' = (raced \/ \E p \in Pids : proc[p].pc \in {"detach_stale", "detach"})
    BY <1>3, Zenon DEF Administer, disk
  <2>2. \A p \in Pids : proc'[p].pc = proc[p].pc /\ proc'[p].program = proc[p].program
    BY <1>0, <1>3, Robs, Zenon
  <2>3. attached' # Nothing => attached'.id \in Fresh BY <1>3, Zenon DEF Administer
  <2>4. ASSUME attached' # Nothing
        PROVE  /\ record' # Nothing => record'.program_id # attached'.id
               /\ \A p \in Pids : proc'[p].program # attached'.id
    BY <2>1, <2>2, <2>3, <2>4, Zenon DEF Fresh, InUse
  <2>5. ~raced' => \A p \in Pids : proc'[p].pc \notin {"detach_stale", "detach"}
    BY <2>1, <2>2, Zenon
  <2>6. foreign' => raced' BY <2>1, Zenon DEF ForeignInv
  <2> QED BY <2>4, <2>5, <2>6, Zenon DEF ForeignInv
<1>4. CASE UNCHANGED link_vars
  BY <1>4, Zenon DEF link_vars, disk, history, ForeignInv, AttachedId
<1> QED BY <1>1, <1>2, <1>3, <1>4, Zenon DEF LinkNext, Start

LEMMA ForeignInit == LinkInit => ForeignInv
BY OffFields, Zenon DEF LinkInit, ForeignInv

(* A program of the administrator is detached only if it was attached      *)
(* between the comparison of identifiers and the command that follows.     *)
THEOREM OnlyRacedDetach == LinkSpec => []ForeignOnlyRaced
<1>1. ForeignInv => ForeignOnlyRaced BY Zenon DEF ForeignInv, ForeignOnlyRaced
<1> QED BY <1>1, UndisturbedInit, UndisturbedStep, ForeignInit, ForeignStep, PTL DEF LinkSpec

-----------------------------------------------------------------------------
(* LeftoverRecorded. *)

LEMMA OursMoved ==
  ASSUME TypeInv, NEW p \in Pids, lock = p, lock' = p, OursInv(p)'
  PROVE  LeftoverInv'
<1>1. lock' # Nothing /\ \A q \in Pids : lock' = q => q = p BY BpfLinkAssumption, Zenon
<1> QED BY <1>1, Zenon DEF LeftoverInv

LEMMA OursExit ==
  ASSUME TypeInv, NEW p \in Pids, Exit(p),
         Ours' => record' = RecordOf(attached.id, attached.mode)'
  PROVE  LeftoverInv'
<1>1. \A q \in Pids : lock' # q BY BpfLinkAssumption, Zenon DEF Exit
<1> QED BY <1>1, Zenon DEF LeftoverInv

(* The program that is detached is the one of new_proxy, if any. *)
LEMMA DetachesOurs ==
  ASSUME NEW mode, Detaches(mode), Ours => attached.mode = mode
  PROVE  ~Ours'
BY Zenon DEF Detaches, Ours

LEMMA OursStart ==
  ASSUME Undisturbed, NEW p \in Pids, lock = p, OursInv(p), ~mayfail,
         ReadOwner(p) \/ DetachStale(p) \/ Forget(p) \/ Inspect(p) \/ Load(p) \/ Recheck(p)
  PROVE  LeftoverInv'
<1>0. TypeInv BY Zenon DEF Undisturbed
<1>1. lock' = p
  BY Zenon DEF ReadOwner, DetachStale, Forget, Inspect, Load, Recheck
<1>2. CASE ~Ours' BY <1>0, <1>1, <1>2, OursMoved, Zenon DEF OursInv
<1>3. CASE ReadOwner(p)
  <2>1. attached' = attached /\ At(p, "stale") BY <1>3, Zenon DEF ReadOwner
  <2>2. CASE ~Ours BY <1>2, <2>1, <2>2, Zenon DEF Ours
  <2>3. CASE Ours
    <3>1. record = RecordOf(attached.id, attached.mode)
      BY <2>1, <2>3, Zenon DEF OursInv, At, Before
    <3>2. attached \in Programs /\ attached # Nothing BY <1>0, <2>3, Zenon DEF Ours, TypeInv
    <3>3. record \in Records /\ record.program_id = attached.id
      BY <3>1, <3>2, Zenon DEF RecordOf, Records, Programs
    <3>4. Goto(p, "detach_stale") /\ record' = record
      BY <1>3, <3>2, <3>3, BpfLinkAssumption, Zenon DEF ReadOwner, AttachedId
    <3>5. Moved(p, "detach_stale") BY <1>0, <3>4, GotoMoves, Zenon
    <3>6. OursInv(p)'
      BY <2>1, <3>1, <3>4, <3>5, Zenon DEF OursInv, Moved, Before, Without, RecordOf
    <3> QED BY <1>0, <1>1, <3>6, OursMoved, Zenon
  <2> QED BY <2>2, <2>3, Zenon
<1>4. CASE DetachStale(p)
  <2>1. Detaches(record.mode) /\ At(p, "detach_stale") BY <1>4, Zenon DEF DetachStale
  <2>2. Ours => attached.mode = record.mode
    <3>1. proc[p].pc \in Before BY <2>1, Zenon DEF At, Before
    <3>2. Ours => record = RecordOf(attached.id, attached.mode) BY <3>1, Zenon DEF OursInv
    <3>3. RecordOf(attached.id, attached.mode).mode = attached.mode BY Zenon DEF RecordOf
    <3> QED BY <3>2, <3>3, Zenon
  <2> QED BY <1>2, <2>1, <2>2, DetachesOurs, Zenon
<1>5. CASE Forget(p) \/ Inspect(p) \/ Load(p) \/ Recheck(p)
  <2>1. attached' = attached /\ proc[p].pc \in Without
    BY <1>5, Zenon DEF Forget, Inspect, Load, Recheck, At, Without
  <2> QED BY <1>2, <2>1, Zenon DEF OursInv, Ours
<1> QED BY <1>3, <1>4, <1>5, Zenon

LEMMA OursUp ==
  ASSUME Undisturbed, NEW p \in Pids, lock = p, OursInv(p), ~mayfail,
         Attach(p) \/ Verify(p) \/ WriteTemp(p) \/ Rename(p) \/ StopLink(p)
  PROVE  LeftoverInv'
<1>0. TypeInv BY Zenon DEF Undisturbed
<1>1. lock' = p BY Zenon DEF Attach, Verify, WriteTemp, Rename, StopLink
<1>2. DOMAIN proc = Pids /\ DOMAIN proc[p] = Fields BY <1>0, Zenon DEF TypeInv, Fields
<1>3. CASE Attach(p)
  <2>1. CASE attached' = attached
    <3>1. ~Ours' BY <1>3, <2>1, Zenon DEF OursInv, Ours, Attach, At, Without
    <3> QED BY <1>0, <1>1, <3>1, OursMoved, Zenon DEF OursInv
  <2>2. ASSUME attached' = [id |-> proc[p].program, mode |-> proc[p].mode, by |-> "new_proxy"],
               proc' = [proc EXCEPT ![p].owned = TRUE, ![p].pc = "verify"]
        PROVE  LeftoverInv'
    <3>1. /\ proc'[p].pc = "verify" /\ proc'[p].owned /\ proc'[p].mode = proc[p].mode
          /\ proc'[p].program = proc[p].program
      BY <1>2, <2>2, Zenon DEF Fields
    <3>2. attached'.id = proc[p].program /\ attached'.mode = proc[p].mode BY <2>2, Zenon
    <3>3. OursInv(p)' BY <3>1, <3>2, Zenon DEF OursInv, Before, Without
    <3> QED BY <1>0, <1>1, <3>3, OursMoved, Zenon
  <2> QED BY <1>3, <2>1, <2>2, Zenon DEF Attach
<1>4. ASSUME proc[p].pc \notin Before, attached' = attached, DOMAIN proc' = Pids,
             NEW pc, proc'[p].pc = pc, pc \notin Before \cup Without,
             proc'[p].mode = proc[p].mode, proc'[p].program = proc[p].program,
             proc'[p].owned = proc[p].owned
      PROVE  LeftoverInv'
  <2>1. OursInv(p)' BY <1>4, Zenon DEF OursInv, Ours
  <2> QED BY <1>0, <1>1, <2>1, OursMoved, Zenon
<1>5. CASE Rename(p)
  <2>1. proc' = [proc EXCEPT ![p].pc = "up", ![p].started = TRUE] /\ At(p, "rename")
        /\ attached' = attached
    BY <1>5, Zenon DEF Rename
  <2>2. /\ DOMAIN proc' = Pids /\ proc'[p].pc = "up" /\ proc'[p].owned = proc[p].owned
        /\ proc'[p].mode = proc[p].mode /\ proc'[p].program = proc[p].program
    BY <1>2, <2>1, Zenon DEF Fields
  <2> QED BY <1>4, <2>1, <2>2, Zenon DEF At, Before, Without
<1>6. CASE Verify(p) \/ WriteTemp(p) \/ StopLink(p)
  <2>1. /\ attached' = attached /\ proc[p].pc \in {"verify", "record", "up"}
        /\ \E pc \in {"drop", "record", "rename"} : Goto(p, pc)
    BY <1>6, Zenon DEF Verify, WriteTemp, StopLink, Fail, At
  <2>2. PICK pc \in {"drop", "record", "rename"} : Goto(p, pc) BY <2>1, Zenon
  <2>3. Moved(p, pc) BY <1>0, <2>2, GotoMoves, Zenon
  <2> QED BY <1>4, <2>1, <2>3, Zenon DEF Moved, Before, Without
<1> QED BY <1>3, <1>5, <1>6, Zenon

LEMMA OursEnd ==
  ASSUME Undisturbed, NEW p \in Pids, lock = p, OursInv(p), ~mayfail,
         Drop(p) \/ Detach(p) \/ Confirm(p) \/ Clean(p) \/ Crash(p)
  PROVE  LeftoverInv'
<1>0. TypeInv BY Zenon DEF Undisturbed
<1>1. CASE Drop(p)
  <2>1. lock' = p /\ attached' = attached /\ At(p, "drop") BY <1>1, Zenon DEF Drop
  <2>2. CASE ~Ours BY <1>0, <2>1, <2>2, OursMoved, Zenon DEF OursInv, Ours
  <2>3. CASE Ours
    <3>1. proc[p].owned /\ AttachedId = proc[p].program
      BY <2>1, <2>3, Zenon DEF OursInv, At, Before, AttachedId, Ours
    <3>2. Moved(p, "detach") BY <1>0, <1>1, <3>1, GotoMoves, Zenon DEF Drop
    <3>3. OursInv(p)' BY <2>1, <3>2, Zenon DEF OursInv, Ours, Moved, At, Before, Without
    <3> QED BY <1>0, <2>1, <3>3, OursMoved, Zenon
  <2> QED BY <2>2, <2>3, Zenon
<1>2. CASE Detach(p)
  <2>1. Detaches(proc[p].mode) /\ At(p, "detach") /\ lock' = p BY <1>2, Zenon DEF Detach
  <2>2. Ours => attached.mode = proc[p].mode BY <2>1, Zenon DEF OursInv, At, Before
  <2>3. ~Ours' BY <2>1, <2>2, DetachesOurs, Zenon
  <2> QED BY <1>0, <2>1, <2>3, OursMoved, Zenon DEF OursInv
<1>3. CASE Confirm(p) \/ Clean(p)
  <2>1. attached' = attached /\ proc[p].pc \in Without
    BY <1>3, Zenon DEF Confirm, Clean, At, Without
  <2>2. ~Ours' BY <2>1, Zenon DEF OursInv, Ours
  <2>3. lock' = p \/ Exit(p) BY <1>3, Zenon DEF Confirm, Clean
  <2> QED BY <1>0, <2>2, <2>3, OursMoved, OursExit, Zenon DEF OursInv
<1>4. CASE Crash(p)
  <2>0. Exit(p) /\ record' = record BY <1>4, Zenon DEF Crash, disk
  <2>1. OwnInv(p) BY Zenon DEF Undisturbed
  <2>2. CASE proc[p].owned /\ AttachedId = proc[p].program /\ ~proc[p].started
    <3>1. attached \in Programs
      BY <1>0, <2>1, <2>2, BpfLinkAssumption, Zenon DEF OwnInv, AttachedId, TypeInv
    <3>2. [attached EXCEPT !.by = "killed"].by = "killed" BY <3>1, Zenon DEF Programs
    <3>3. ~Ours' BY <1>4, <2>2, <3>2, Zenon DEF Crash, Ours
    <3> QED BY <1>0, <2>0, <3>3, OursExit, Zenon
  <2>3. CASE ~(proc[p].owned /\ AttachedId = proc[p].program /\ ~proc[p].started)
    <3>1. attached' = attached BY <1>4, <2>3, Zenon DEF Crash
    <3>2. ASSUME Ours PROVE record = RecordOf(attached.id, attached.mode)
      <4>1. CASE proc[p].pc \in Before BY <3>2, <4>1, Zenon DEF OursInv
      <4>2. CASE proc[p].pc \notin Before
        <5>1. /\ proc[p].owned /\ attached.id = proc[p].program /\ attached.mode = proc[p].mode
              /\ proc[p].pc \notin Without /\ AttachedId = proc[p].program
          BY <3>2, <4>2, Zenon DEF OursInv, AttachedId, Ours
        <5>2. proc[p].started /\ proc[p].pc \in {"up", "drop", "detach"}
          BY <2>1, <2>3, <5>1, Zenon DEF OwnInv, Without
        <5> QED BY <2>1, <5>1, <5>2, Zenon DEF OwnInv
      <4> QED BY <4>1, <4>2, Zenon
    <3>3. Ours' => record' = RecordOf(attached.id, attached.mode)'
      BY <2>0, <3>1, <3>2, Zenon DEF Ours, RecordOf
    <3> QED BY <1>0, <2>0, <3>3, OursExit, Zenon
  <2> QED BY <2>2, <2>3, Zenon
<1> QED BY <1>1, <1>2, <1>3, <1>4, Zenon

LEMMA LeftoverStep == Undisturbed /\ LeftoverInv /\ [LinkNext]_link_vars => LeftoverInv'
<1> SUFFICES ASSUME Undisturbed, LeftoverInv, [LinkNext]_link_vars, ~mayfail PROVE LeftoverInv'
  <2>1. mayfail' = mayfail \/ ~[LinkNext]_link_vars
    BY Zenon DEF LinkNext, Start, Claim, Continue, ReadOwner, DetachStale, Forget, Inspect, Load,
       Recheck,
           Attach, Verify, WriteTemp, Rename, StopLink, Drop, Detach, Confirm, Clean, Crash,
           Administer, link_vars, history
  <2> QED BY <2>1, Zenon DEF LeftoverInv
<1>0. TypeInv BY Zenon DEF Undisturbed
<1>1. ASSUME NEW p \in Pids, NEW mode \in Modes, Claim(p, mode) PROVE LeftoverInv'
  <2>1. lock = Nothing /\ lock' = p /\ UNCHANGED <<attached, record>>
    BY <1>1, Zenon DEF Claim, disk
  <2>2. proc'[p].pc = "stale" BY <1>0, <1>1, Zenon DEF Claim, TypeInv, Off
  <2>3. lock' # Nothing /\ \A q \in Pids : lock' = q => q = p BY <2>1, BpfLinkAssumption, Zenon
  <2>4. OursInv(p)'
    BY <2>1, <2>2, Zenon DEF LeftoverInv, OursInv, Ours, RecordOf, Before, Without
  <2> QED BY <2>3, <2>4, Zenon DEF LeftoverInv
<1>2. ASSUME NEW p \in Pids, Continue(p) \/ StopLink(p) \/ Crash(p) PROVE LeftoverInv'
  <2>1. ~At(p, "off")
    BY <1>2, Zenon DEF Continue, ReadOwner, DetachStale, Forget, Inspect, Load, Recheck, Attach,
                Verify, WriteTemp, Rename, StopLink, Drop, Detach, Confirm, Clean, Crash, At
  <2>2. lock = p /\ OursInv(p) BY <1>0, <2>1, Holder, Zenon DEF LeftoverInv
  <2> QED BY <1>2, <2>2, OursStart, OursUp, OursEnd, Zenon DEF Continue
<1>3. CASE Administer
  <2>1. ~Ours' BY <1>3, Zenon DEF Administer, Ours
  <2> QED BY <2>1, Zenon DEF LeftoverInv, OursInv
<1>4. CASE UNCHANGED link_vars
  BY <1>4, Zenon DEF link_vars, disk, history, LeftoverInv, OursInv, Ours, RecordOf
<1> QED BY <1>1, <1>2, <1>3, <1>4, Zenon DEF LinkNext, Start

LEMMA LeftoverInit == LinkInit => LeftoverInv
BY BpfLinkAssumption, Zenon DEF LinkInit, LeftoverInv, Ours

(* While commands succeed, a program of new_proxy that is on the interface *)
(* between processes is the recorded one, or its process was killed before *)
(* it was recorded.                                                        *)
THEOREM LeftoversAreRecorded == LinkSpec => []LeftoverRecorded
<1>1. LeftoverInv => LeftoverRecorded BY Zenon DEF LeftoverInv, LeftoverRecorded, Ours, RecordOf
<1> QED BY <1>1, UndisturbedInit, UndisturbedStep, LeftoverInit, LeftoverStep, PTL DEF LinkSpec
=============================================================================
