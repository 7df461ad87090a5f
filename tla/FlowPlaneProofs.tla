-------------------------- MODULE FlowPlaneProofs ---------------------------
(***************************************************************************)
(* The Flow plane, for any number of workers, any port range large enough, *)
(* any flows and queries and any division of them among the workers, and   *)
(* any capacity of the channels and of the network.                        *)
(***************************************************************************)
EXTENDS FlowWorkerProofs

(* What the steps do to the channels. *)
Sent(w, m) ==
  \/ m.kind = "packet" /\ m.flow \in Flows
  \/ m.kind = "query" /\ m.query \in Queries
  \/ /\ m.kind = "return" /\ m.packet \in net /\ InTime(m.packet)
     /\ m.packet.key \in DOMAIN directory /\ m.locator = directory[m.packet.key]
     /\ w = m.locator.flow_worker_id

InboxStep ==
  \/ UNCHANGED inbox
  \/ \E w \in Workers : inbox[w] # <<>> /\ inbox' = [inbox EXCEPT ![w] = Tail(inbox[w])]
  \/ \E w \in Workers : \E m : /\ inbox' = [inbox EXCEPT ![w] = Append(inbox[w], m)]
                             /\ Sent(w, m) /\ UNCHANGED workers

LEMMA NextInbox ==
  ASSUME StateInv, [Next]_vars
  PROVE  InboxStep
<1>1. CASE UNCHANGED vars BY <1>1, Zenon DEF vars, InboxStep
<1>2. CASE IoStep
  <2>0. DOMAIN inbox = Workers BY Zenon DEF StateInv, WorkersInv
  <2>1. ASSUME NEW flow \in Flows, NEW flag, IoIntercept(flow, flag) PROVE InboxStep
    <3> DEFINE m == [kind |-> "packet", flow |-> flow, flag |-> flag]
    <3>1. FlowOwner[flow] \in Workers BY FlowPlaneAssumption, Zenon
    <3>2. Sent(FlowOwner[flow], m) BY DEF Sent
    <3>3. Dispatch(FlowOwner[flow], m) /\ UNCHANGED workers BY <2>1, Zenon DEF IoIntercept
    <3> HIDE DEF m
    <3> QED BY <2>0, <3>1, <3>2, <3>3, Zenon DEF Dispatch, InboxStep
  <2>2. ASSUME NEW q \in Queries, IoQuery(q) PROVE InboxStep
    <3> DEFINE m == [kind |-> "query", query |-> q]
    <3>1. DnsOwner[q] \in Workers BY FlowPlaneAssumption, Zenon
    <3>2. Sent(DnsOwner[q], m) BY Zenon DEF Sent
    <3>3. Dispatch(DnsOwner[q], m) /\ UNCHANGED workers BY <2>2, Zenon DEF IoQuery
    <3> HIDE DEF m
    <3> QED BY <2>0, <3>1, <3>2, <3>3, Zenon DEF Dispatch, InboxStep
  <2>3. ASSUME NEW p \in net, NEW io, NEW flag, IoReturn(p, io, flag) PROVE InboxStep
    <3> DEFINE m == [kind |-> "return", packet |-> p, io |-> io, flag |-> flag,
                     locator |-> directory[p.key]]
               w == directory[p.key].flow_worker_id
    <3>1. w \in Workers BY <2>3, Zenon DEF IoReturn, StateInv, DirInv
    <3>2. Sent(w, m) BY <2>3, Zenon DEF Sent, IoReturn
    <3>3. Dispatch(w, m) /\ UNCHANGED workers BY <2>3, Zenon DEF IoReturn
    <3> HIDE DEF m, w
    <3> QED BY <2>0, <3>1, <3>2, <3>3, ZenonT(30) DEF Dispatch, InboxStep
  <2> QED BY <1>2, <2>1, <2>2, <2>3, Zenon DEF IoStep
<1>3. ASSUME NEW w \in Workers, FlowStep(w) PROVE InboxStep
  <2>1. ASSUME NEW kind, Heads(w, kind), Take(w) PROVE InboxStep
    BY <2>1, Zenon DEF Heads, Take, InboxStep
  <2>2. CASE UNCHANGED inbox BY <2>2, Zenon DEF InboxStep
  <2>3. \/ UNCHANGED inbox
        \/ \E kind \in {"packet", "query", "return"} : Heads(w, kind) /\ Take(w)
    BY <1>3, Zenon DEF FlowStep, ServerInner, ClientIntercept, RetireSession, ClientQuery, Return,
                ClientInner, ExpireIdle, ExpireDns, Authenticated, Closed
  <2> QED BY <2>1, <2>2, <2>3, Zenon
<1>4. CASE NetStep BY <1>4, Zenon DEF NetStep, RemoteReply, Lose, InboxStep
<1>5. CASE Tick BY <1>5, Zenon DEF Tick, InboxStep
<1> QED BY <1>1, <1>2, <1>3, <1>4, <1>5, Zenon DEF Next

(* A worker's step changes only its own tables. *)
LEMMA MovesFacts ==
  ASSUME StateInv, NEW w \in Workers, NEW u, NEW gone, NEW new, Moves(w, u, gone, new)
  PROVE  /\ DOMAIN workers' = Workers /\ workers'[w] = u
         /\ \A v \in Workers \ {w} : workers'[v] = workers[v]
         /\ WsInv(w, u) /\ CountInv(u) /\ WorkerEffect(workers[w], u, gone, new, now)
BY Zenon DEF StateInv, WorkersInv, Moves, WorkerStep

LEMMA WorkersStep ==
  ASSUME StateInv, [Next]_vars
  PROVE  WorkersInv'
<1>1. DOMAIN inbox' = Workers
  <2>1. DOMAIN inbox = Workers BY Zenon DEF StateInv, WorkersInv
  <2> QED BY <2>1, NextInbox, Zenon DEF InboxStep
<1>2. CASE Stays BY <1>1, <1>2, Zenon DEF Stays, StateInv, WorkersInv, Idle
<1>3. ASSUME NEW w \in Workers, ~Stays, Progress(w) PROVE WorkersInv'
  <2>1. PICK u, gone, new : Moves(w, u, gone, new) BY <1>3, Zenon DEF Progress
  <2>2. /\ DOMAIN quic_flow' = Workers /\ DOMAIN retiring' = Workers
        /\ \A v \in Workers \ {w} : retiring'[v] = retiring[v]
    BY <1>3, Zenon DEF Progress
  <2>3. retiring'[w] = NoSession \/ retiring'[w] \in DOMAIN u.table.sessions
    BY <2>1, Zenon DEF Moves
  <2>4. /\ DOMAIN workers' = Workers /\ workers'[w] = u
        /\ \A v \in Workers \ {w} : workers'[v] = workers[v]
        /\ WsInv(w, u) /\ CountInv(u)
    BY <2>1, MovesFacts, Zenon
  <2>5. ASSUME NEW v \in Workers
        PROVE  /\ WsInv(v, workers'[v]) /\ CountInv(workers'[v])
               /\ retiring'[v] = NoSession \/ retiring'[v] \in DOMAIN workers'[v].table.sessions
    <3>1. CASE v = w BY <2>3, <2>4, <3>1, Zenon
    <3>2. CASE v # w BY <2>2, <2>4, <3>2, Zenon DEF StateInv, WorkersInv, Idle
    <3> QED BY <3>1, <3>2, Zenon
  <2> QED BY <1>1, <2>2, <2>4, <2>5, Zenon DEF WorkersInv, Idle
<1> QED BY <1>2, <1>3, NextProgress, Zenon

LEMMA SessionsStep ==
  ASSUME StateInv, [Next]_vars
  PROVE  SessionsInv'
<1>1. /\ \A v \in Workers : IsSeq(inbox'[v])
      /\ \A v \in Workers : \A m \in Msgs(inbox'[v]) : m.kind = "packet" => m.flow \in Flows
  <2>1. /\ \A v \in Workers : IsSeq(inbox[v])
        /\ \A v \in Workers : \A m \in Msgs(inbox[v]) : m.kind = "packet" => m.flow \in Flows
        /\ DOMAIN inbox = Workers
    BY Zenon DEF StateInv, WorkersInv, SessionsInv
  <2>2. CASE UNCHANGED inbox BY <2>1, <2>2, Zenon
  <2>3. ASSUME NEW w \in Workers, inbox[w] # <<>>,
               inbox' = [inbox EXCEPT ![w] = Tail(inbox[w])]
        PROVE  <1>1!1 /\ <1>1!2
    BY <2>1, <2>3, HeadTail, Zenon
  <2>4. ASSUME NEW w \in Workers, NEW m, inbox' = [inbox EXCEPT ![w] = Append(inbox[w], m)],
               Sent(w, m)
        PROVE  <1>1!1 /\ <1>1!2
    <3>1. m.kind = "packet" => m.flow \in Flows BY <2>4, Zenon DEF Sent
    <3> QED BY <2>1, <2>4, <3>1, Appended
  <2> QED BY <2>2, <2>3, <2>4, NextInbox, Zenon DEF InboxStep
<1>2. \A v \in Workers : SessionsGood(workers'[v], quic_flow'[v])
  <2>1. \A v \in Workers : SessionsGood(workers[v], quic_flow[v]) BY StateFacts, Zenon
  <2>2. CASE Stays BY <2>1, <2>2, Zenon DEF Stays
  <2>3. ASSUME NEW w \in Workers, ~Stays, Progress(w)
        PROVE  \A v \in Workers : SessionsGood(workers'[v], quic_flow'[v])
    <3>1. PICK u, gone, new : Moves(w, u, gone, new) BY <2>3, Zenon DEF Progress
    <3>2. \A v \in Workers \ {w} : quic_flow'[v] = quic_flow[v] BY <2>3, Zenon DEF Progress
    <3>3. SessionsGood(u, quic_flow'[w]) BY <3>1, Zenon DEF Moves
    <3>4. workers'[w] = u /\ \A v \in Workers \ {w} : workers'[v] = workers[v]
      BY <3>1, MovesFacts, Zenon
    <3> QED BY <2>1, <3>2, <3>3, <3>4, Zenon
  <2> QED BY <2>2, <2>3, NextProgress, Zenon
<1> QED BY <1>1, <1>2, Zenon DEF SessionsInv, SessionsGood

(* The same facts about a directory and workers that are parameters. *)
Bound(all, v) == DOMAIN all[v].table.nat.forward
TupleIn(all, v, id) == BindingKey(all[v].table.nat.forward[id])

Reaches(dir, all) ==
  \A v \in Workers : \A id \in Bound(all, v) :
    TupleIn(all, v, id) \in DOMAIN dir /\ dir[TupleIn(all, v, id)] = Locator(v, id)

Names(dir, all, sil, k, v, id) ==
  /\ dir[k] = Locator(v, id)
  /\ (id \in Bound(all, v) /\ TupleIn(all, v, id) = k) \/ <<v, id>> \in sil

Alive(dir, all, sil) ==
  \A k \in DOMAIN dir : \E v \in Workers : \E id : Names(dir, all, sil, k, v, id)

LEMMA LocatorsDiffer ==
  /\ \A w, id, v, n : Locator(w, id) = Locator(v, n) => w = v /\ id = n
  /\ \A w, id : Locator(w, id).flow_worker_id = w /\ Locator(w, id).session_id = id
BY Zenon DEF Locator

LEMMA DirFacts == DirInv <=> Reaches(directory, workers) /\ Alive(directory, workers, silenced)
<1>1. BindingsReachable <=> Reaches(directory, workers)
  BY Zenon DEF BindingsReachable, Reaches, Bound, TupleIn, TupleOf
<1>2. ASSUME DirInv PROVE Alive(directory, workers, silenced)
  BY <1>2, LocatorsDiffer, Zenon DEF DirInv, DirectoryLive, Alive, Names, Bound, TupleIn, TupleOf
<1>3. ASSUME Alive(directory, workers, silenced)
      PROVE  /\ DirectoryLive
             /\ \A k \in DOMAIN directory :
                  /\ directory[k].flow_worker_id \in Workers
                  /\ directory[k] = Locator(directory[k].flow_worker_id, directory[k].session_id)
  <2>1. ASSUME NEW k \in DOMAIN directory
        PROVE  /\ directory[k].flow_worker_id \in Workers
               /\ directory[k] = Locator(directory[k].flow_worker_id, directory[k].session_id)
               /\ Names(directory, workers, silenced, k, directory[k].flow_worker_id,
                        directory[k].session_id)
    <3>1. PICK v, id : v \in Workers /\ Names(directory, workers, silenced, k, v, id)
      BY <1>3, Zenon DEF Alive
    <3>2. directory[k].flow_worker_id = v /\ directory[k].session_id = id
      BY <3>1, LocatorsDiffer, ZenonT(30) DEF Names
    <3>3. directory[k] = Locator(v, id) BY <3>1, Zenon DEF Names
    <3> QED BY <3>1, <3>2, <3>3, Zenon
  <2> QED BY <2>1, Zenon DEF DirectoryLive, Names, Bound, TupleIn, TupleOf
<1> QED BY <1>1, <1>2, <1>3, Zenon DEF DirInv

(* The bindings after a worker's step. *)
Rebound(all, all2, w, gone, new) ==
  /\ new \cap Bound(all, w) = {} /\ new \subseteq Bound(all2, w)
  /\ \A v \in Workers : \A id \in Bound(all, v) :
       v # w \/ id \notin gone =>
         id \in Bound(all2, v) /\ TupleIn(all2, v, id) = TupleIn(all, v, id)
  /\ \A v \in Workers : \A id \in Bound(all2, v) :
       \/ id \in Bound(all, v) /\ (v # w \/ id \notin gone)
       \/ v = w /\ id \in new

LEMMA MovedBindings ==
  ASSUME StateInv, NEW w \in Workers, NEW u, NEW gone, NEW new, Moves(w, u, gone, new)
  PROVE  Rebound(workers, workers', w, gone, new)
<1>1. /\ workers'[w] = u /\ \A v \in Workers \ {w} : workers'[v] = workers[v]
      /\ WorkerEffect(workers[w], u, gone, new, now)
  BY MovesFacts, Zenon
<1>2. Rebinds(workers[w].table.nat, u.table.nat, gone, new)
  BY <1>1, Zenon DEF WorkerEffect, TableEffect
<1>3. /\ new \cap DOMAIN workers[w].table.nat.forward = {}
      /\ DOMAIN u.table.nat.forward = (DOMAIN workers[w].table.nat.forward \ gone) \cup new
      /\ \A id \in DOMAIN workers[w].table.nat.forward \ gone :
           u.table.nat.forward[id] = workers[w].table.nat.forward[id]
  BY <1>2, Zenon DEF Rebinds
<1> QED BY <1>1, <1>3, Zenon DEF Rebound, Bound, TupleIn

LEMMA RetiredDirectory ==
  ASSUME NEW dir, NEW dir2, NEW all, NEW all2, NEW w \in Workers, NEW gone, NEW sil,
         Reaches(dir, all), Alive(dir, all, sil), Rebound(all, all2, w, gone, {}),
         \A k : k \in DOMAIN dir2 <=>
                 /\ k \in DOMAIN dir
                 /\ ~\E id \in gone : k = TupleIn(all, w, id) /\ dir[k] = Locator(w, id),
         \A k \in DOMAIN dir2 : dir2[k] = dir[k]
  PROVE  Reaches(dir2, all2) /\ Alive(dir2, all2, sil)
<1>1. ASSUME NEW v \in Workers, NEW id \in Bound(all2, v)
      PROVE  TupleIn(all2, v, id) \in DOMAIN dir2 /\ dir2[TupleIn(all2, v, id)] = Locator(v, id)
  <2>1. /\ id \in Bound(all, v) /\ (v # w \/ id \notin gone)
        /\ TupleIn(all2, v, id) = TupleIn(all, v, id)
    BY Zenon DEF Rebound
  <2>2. TupleIn(all, v, id) \in DOMAIN dir /\ dir[TupleIn(all, v, id)] = Locator(v, id)
    BY <2>1, Zenon DEF Reaches
  <2>3. TupleIn(all, v, id) \in DOMAIN dir2 BY <2>1, <2>2, LocatorsDiffer
  <2> QED BY <2>1, <2>2, <2>3, Zenon
<1>2. ASSUME NEW k \in DOMAIN dir2
      PROVE  \E v \in Workers : \E id : Names(dir2, all2, sil, k, v, id)
  <2>1. k \in DOMAIN dir /\ dir2[k] = dir[k] BY Zenon
  <2>2. PICK v, id : v \in Workers /\ Names(dir, all, sil, k, v, id)
    BY <2>1, Zenon DEF Alive
  <2>3. CASE <<v, id>> \in sil BY <2>1, <2>2, <2>3, Zenon DEF Names
  <2>4. CASE id \in Bound(all, v) /\ TupleIn(all, v, id) = k
    <3>1. v # w \/ id \notin gone BY <2>2, <2>4, Zenon DEF Names
    <3>2. id \in Bound(all2, v) /\ TupleIn(all2, v, id) = k BY <2>2, <2>4, <3>1, Zenon DEF Rebound
    <3> QED BY <2>1, <2>2, <3>2, Zenon DEF Names
  <2> QED BY <2>2, <2>3, <2>4, Zenon DEF Names
<1> QED BY <1>1, <1>2, Zenon DEF Reaches, Alive

Keeps(dir, dir2, sil, sil2, w, gone) ==
  /\ DOMAIN dir2 = DOMAIN dir /\ \A k \in DOMAIN dir : dir2[k] = dir[k]
  /\ sil \subseteq sil2 /\ \A id \in gone : <<w, id>> \in sil2

LEMMA KeptDirectory ==
  ASSUME NEW dir, NEW dir2, NEW all, NEW all2, NEW w \in Workers, NEW gone, NEW sil, NEW sil2,
         Reaches(dir, all), Alive(dir, all, sil), Rebound(all, all2, w, gone, {}),
         Keeps(dir, dir2, sil, sil2, w, gone)
  PROVE  Reaches(dir2, all2) /\ Alive(dir2, all2, sil2)
<1>1. Reaches(dir2, all2) BY Zenon DEF Reaches, Rebound, Keeps
<1>2. ASSUME NEW k \in DOMAIN dir2
      PROVE  \E v \in Workers : \E id : Names(dir2, all2, sil2, k, v, id)
  <2>2. PICK v, id : v \in Workers /\ Names(dir, all, sil, k, v, id)
    BY Zenon DEF Alive, Keeps
  <2> QED BY <2>2, Zenon DEF Rebound, Names, Keeps
<1> QED BY <1>1, <1>2, Zenon DEF Alive

LEMMA PublishedDirectory ==
  ASSUME NEW dir, NEW dir2, NEW all, NEW all2, NEW w \in Workers, NEW id, NEW key, NEW sil,
         Reaches(dir, all), Alive(dir, all, sil), Rebound(all, all2, w, {}, {id}),
         key = TupleIn(all2, w, id), key \in DOMAIN dir => dir[key] = Locator(w, id),
         dir2 = Put(dir, key, Locator(w, id))
  PROVE  Reaches(dir2, all2) /\ Alive(dir2, all2, sil)
<1>1. /\ DOMAIN dir2 = DOMAIN dir \cup {key} /\ dir2[key] = Locator(w, id)
      /\ \A k \in DOMAIN dir : k # key => dir2[k] = dir[k]
  BY Zenon DEF Put
<1>2. id \notin Bound(all, w) /\ id \in Bound(all2, w) BY Zenon DEF Rebound
<1>3. ASSUME NEW v \in Workers, NEW n \in Bound(all2, v)
      PROVE  TupleIn(all2, v, n) \in DOMAIN dir2 /\ dir2[TupleIn(all2, v, n)] = Locator(v, n)
  <2>1. CASE v = w /\ n = id BY <1>1, <2>1, Zenon
  <2>2. CASE ~(v = w /\ n = id)
    <3>1. n \in Bound(all, v) /\ TupleIn(all2, v, n) = TupleIn(all, v, n)
      BY <2>2, Zenon DEF Rebound
    <3>2. TupleIn(all, v, n) \in DOMAIN dir /\ dir[TupleIn(all, v, n)] = Locator(v, n)
      BY <3>1, Zenon DEF Reaches
    <3>3. TupleIn(all, v, n) # key BY <2>2, <3>2, LocatorsDiffer, ZenonT(30)
    <3> QED BY <1>1, <3>1, <3>2, <3>3, Zenon
  <2> QED BY <2>1, <2>2, Zenon
<1>4. ASSUME NEW k \in DOMAIN dir2
      PROVE  \E v \in Workers : \E n : Names(dir2, all2, sil, k, v, n)
  <2>1. CASE k = key BY <1>1, <1>2, <2>1, Zenon DEF Names
  <2>2. CASE k # key
    <3>1. k \in DOMAIN dir /\ dir2[k] = dir[k] BY <1>1, <2>2, Zenon
    <3>2. PICK v, n : v \in Workers /\ Names(dir, all, sil, k, v, n)
      BY <3>1, Zenon DEF Alive
    <3> QED BY <3>1, <3>2, Zenon DEF Rebound, Names
  <2> QED BY <2>1, <2>2, Zenon
<1> QED BY <1>3, <1>4, Zenon DEF Reaches, Alive

LEMMA DirectoryStep ==
  ASSUME StateInv, [Next]_vars
  PROVE  DirInv'
<1>1. Reaches(directory, workers) /\ Alive(directory, workers, silenced)
  BY DirFacts, Zenon DEF StateInv
<1>2. SUFFICES Reaches(directory', workers') /\ Alive(directory', workers', silenced')
  <2>1. (DirInv <=> Reaches(directory, workers) /\ Alive(directory, workers, silenced))'
    BY DirFacts, PTL
  <2> QED BY <2>1, Zenon
<1>3. CASE Stays BY <1>1, <1>3, Zenon DEF Stays
<1>4. ASSUME NEW w \in Workers, ~Stays, Progress(w)
      PROVE  Reaches(directory', workers') /\ Alive(directory', workers', silenced')
  <2>1. PICK u, gone, new : Moves(w, u, gone, new) BY <1>4 DEF Progress
  <2>2. Rebound(workers, workers', w, gone, new) BY <2>1, MovedBindings, Zenon
  <2>3. silenced \subseteq silenced' /\ DirStep(w, u, gone, new)
    BY <2>1, Zenon DEF Moves, AnswerStep
  <2>4. workers'[w] = u BY <2>1, MovesFacts, Zenon
  <2>5. CASE /\ new = {} /\ DOMAIN directory' = DOMAIN directory
             /\ \A k \in DOMAIN directory : directory'[k] = directory[k]
             /\ \A id \in gone : <<w, id>> \in silenced'
    <3>1. Keeps(directory, directory', silenced, silenced', w, gone) BY <2>3, <2>5, Zenon DEF Keeps
    <3> QED BY <1>1, <2>2, <2>5, <3>1, KeptDirectory, ZenonT(30)
  <2>6. CASE gone = {} /\ new = {} /\ SameDirectory BY <2>5, <2>6, Zenon DEF SameDirectory
  <2>7. CASE new = {} /\ directory' = directory /\ \A id \in gone : <<w, id>> \in silenced'
    BY <2>5, <2>7, Zenon
  <2>8. CASE new = {} /\ directory' = Retired(w, gone)
    <3>1. /\ \A k : k \in DOMAIN directory' <=>
                 /\ k \in DOMAIN directory
                 /\ ~\E id \in gone : k = TupleIn(workers, w, id) /\ directory[k] = Locator(w, id)
          /\ \A k \in DOMAIN directory' : directory'[k] = directory[k]
      BY <2>8, Zenon DEF Retired, Restrict, TupleIn, TupleOf
    <3>2. Reaches(directory', workers') /\ Alive(directory', workers', silenced)
      BY <1>1, <2>2, <2>8, <3>1, RetiredDirectory, ZenonT(30)
    <3> QED BY <2>3, <3>2, Zenon DEF Alive, Names
  <2>9. CASE /\ gone = {}
             /\ \E id : new = {id} /\ Publishes(w, BindingKey(u.table.nat.forward[id]), id)
    <3>1. PICK id : new = {id} /\ Publishes(w, BindingKey(u.table.nat.forward[id]), id)
      BY <2>9, Zenon
    <3> DEFINE key == TupleIn(workers', w, id)
    <3>2. /\ key \in DOMAIN directory => directory[key] = Locator(w, id)
          /\ directory' = Put(directory, key, Locator(w, id))
      BY <2>4, <3>1, Zenon DEF Publishes, CanPublish, TupleIn
    <3>3. Rebound(workers, workers', w, {}, {id}) BY <2>2, <2>9, <3>1, Zenon
    <3>4. key = TupleIn(workers', w, id) BY Zenon
    <3> HIDE DEF key
    <3>5. Reaches(directory', workers') /\ Alive(directory', workers', silenced)
      BY <1>1, <3>2, <3>3, <3>4, PublishedDirectory, ZenonT(30)
    <3> QED BY <2>3, <3>5, Zenon DEF Alive, Names
  <2> QED BY <2>3, <2>6, <2>7, <2>8, <2>9, Zenon DEF DirStep
<1> QED BY <1>3, <1>4, NextProgress, Zenon

(* The account of worker v: S are its open tokens, k its next one, ans and *)
(* sil the history.                                                        *)
Settled(v, id, S, ans, sil) ==
  IF id \in S \/ <<v, id>> \in sil
  THEN <<v, id>> \notin DOMAIN ans
  ELSE <<v, id>> \in DOMAIN ans /\ ans[<<v, id>>] = 1

Account(v, S, k, ans, sil) ==
  /\ \A n \in 1..(k - 1) : Settled(v, DnsBit + n, S, ans, sil)
  /\ \A id \in S : <<v, id>> \notin sil
  /\ \A id : <<v, id>> \in DOMAIN ans \cup sil => \E n \in 1..(k - 1) : id = DnsBit + n

OfWorkers(ans, sil) ==
  \A t \in DOMAIN ans \cup sil : \E v \in Workers : \E id : t = <<v, id>>

LEMMA AnswerFacts ==
  AnswerInv <=>
    /\ \A v \in Workers :
         Account(v, Tokens(workers[v]), workers[v].dns.next_token, answers, silenced)
    /\ OfWorkers(answers, silenced)
<1>1. AnsweredOnce <=> \A v \in Workers : \A n \in 1..(workers[v].dns.next_token - 1) :
                         Settled(v, DnsBit + n, Tokens(workers[v]), answers, silenced)
  <2>1. \A v, n : DnsBit + n \in Tokens(workers[v]) <=>
                  \E q \in DOMAIN workers[v].dns.by_key :
                    workers[v].dns.by_key[q].token = DnsBit + n
    BY Zenon DEF Tokens
  <2> QED BY <2>1, ZenonT(30) DEF AnsweredOnce, Settled
<1>2. ASSUME AnswerInv
      PROVE  /\ OfWorkers(answers, silenced)
             /\ \A v : \A id : <<v, id>> \in DOMAIN answers \cup silenced =>
                  \E n \in 1..(workers[v].dns.next_token - 1) : id = DnsBit + n
  BY <1>2, Zenon DEF AnswerInv, OfWorkers
<1>3. ASSUME OfWorkers(answers, silenced),
             \A v \in Workers : \A id : <<v, id>> \in DOMAIN answers \cup silenced =>
               \E n \in 1..(workers[v].dns.next_token - 1) : id = DnsBit + n
      PROVE  \A t \in DOMAIN answers \cup silenced :
               \E w \in Workers :
                 \E n \in 1..(workers[w].dns.next_token - 1) : t = <<w, DnsBit + n>>
  BY <1>3 DEF OfWorkers
<1> QED BY <1>1, <1>2, <1>3, Zenon DEF AnswerInv, Account

(* A step of another worker leaves the account alone. *)
LEMMA OtherAccount ==
  ASSUME NEW v, NEW S, NEW k, NEW ans, NEW ans2, NEW sil, NEW sil2, Account(v, S, k, ans, sil),
         \A id : /\ <<v, id>> \in DOMAIN ans2 <=> <<v, id>> \in DOMAIN ans
                 /\ <<v, id>> \in sil2 <=> <<v, id>> \in sil
                 /\ <<v, id>> \in DOMAIN ans /\ ans[<<v, id>>] = 1 => ans2[<<v, id>>] = 1
  PROVE  Account(v, S, k, ans2, sil2)
BY Zenon DEF Account, Settled

AnsweredIn(ans, w, tokens) ==
  [t \in DOMAIN ans \cup ({w} \X tokens) |->
     (IF t \in DOMAIN ans THEN ans[t] ELSE 0) + (IF t \in {w} \X tokens THEN 1 ELSE 0)]

(* The history after answers for these tokens of w. *)
Adds(ans, ans2, w, tokens) ==
  /\ \A v, id : <<v, id>> \in DOMAIN ans2 <=>
                 <<v, id>> \in DOMAIN ans \/ (v = w /\ id \in tokens)
  /\ \A v, id : <<v, id>> \in DOMAIN ans /\ ans[<<v, id>>] = 1 /\ ~(v = w /\ id \in tokens)
                  => ans2[<<v, id>>] = 1
  /\ \A id \in tokens : <<w, id>> \notin DOMAIN ans => ans2[<<w, id>>] = 1
  /\ \A t \in DOMAIN ans2 : t \in DOMAIN ans \/ \E id : t = <<w, id>>

LEMMA AnsweredEntries ==
  ASSUME NEW ans, NEW w, NEW tokens, NEW ans2, ans2 = AnsweredIn(ans, w, tokens)
  PROVE  Adds(ans, ans2, w, tokens)
<1>1. DOMAIN ans2 = DOMAIN ans \cup ({w} \X tokens) BY Zenon DEF AnsweredIn
<1>2. \A v, id : <<v, id>> \in {w} \X tokens <=> v = w /\ id \in tokens BY Zenon
<1>3. \A t \in {w} \X tokens : \E id : t = <<w, id>> OBVIOUS
<1>4. \A t \in DOMAIN ans2 :
        ans2[t] = (IF t \in DOMAIN ans THEN ans[t] ELSE 0) + (IF t \in {w} \X tokens THEN 1 ELSE 0)
  BY Zenon DEF AnsweredIn
<1>5. ASSUME NEW v, NEW id, <<v, id>> \in DOMAIN ans, ans[<<v, id>>] = 1, ~(v = w /\ id \in tokens)
      PROVE  ans2[<<v, id>>] = 1
  BY <1>1, <1>2, <1>4, <1>5
<1>6. ASSUME NEW id \in tokens, <<w, id>> \notin DOMAIN ans PROVE ans2[<<w, id>>] = 1
  BY <1>1, <1>2, <1>4, <1>6
<1> QED BY <1>1, <1>2, <1>3, <1>5, <1>6 DEF Adds

(* How a step changes the account of its worker. *)
Gives(w, S, S2, k, k2, ans, ans2, sil, sil2) ==
  /\ k2 = k + 1 /\ sil2 = sil
  /\ \/ ans2 = ans /\ S2 = S \cup {DnsBit + k}
     \/ Adds(ans, ans2, w, {DnsBit + k}) /\ S2 = S

Stops(w, S, S2, k, k2, ans, ans2, sil, sil2, gone) ==
  /\ k2 = k /\ gone \subseteq S /\ S2 = S \ gone
  /\ \/ Adds(ans, ans2, w, gone) /\ sil2 = sil
     \/ ans2 = ans /\ sil2 = sil \cup {<<w, id>> : id \in gone}

Accounted(w, S, k, ans, sil) ==
  k \in Nat \ {0} /\ S \subseteq (DnsBit + 1)..(DnsBit + k - 1) /\ Account(w, S, k, ans, sil)

LEMMA GivesAccount ==
  ASSUME NEW w, NEW S, NEW S2, NEW k, NEW k2, NEW ans, NEW ans2, NEW sil, NEW sil2,
         Accounted(w, S, k, ans, sil), Gives(w, S, S2, k, k2, ans, ans2, sil, sil2)
  PROVE  Account(w, S2, k2, ans2, sil2)
<1> k \in Nat \ {0} /\ S \subseteq (DnsBit + 1)..(DnsBit + k - 1) /\ Account(w, S, k, ans, sil)
  BY Zenon DEF Accounted
<1>0. DnsBit \in Nat BY DnsAssumption, Zenon
<1> DEFINE new == DnsBit + k
<1>1. <<w, new>> \notin DOMAIN ans /\ <<w, new>> \notin sil /\ new \notin S
  BY <1>0 DEF Account
<1>2. k2 = k + 1 /\ sil2 = sil BY Zenon DEF Gives
<1>3. 1..(k2 - 1) = (1..(k - 1)) \cup {k} BY <1>2
<1>4. \A n \in 1..(k - 1) : DnsBit + n # new BY <1>0
<1>5. CASE ans2 = ans /\ S2 = S \cup {new}
  <2>1. \A n \in 1..(k - 1) : Settled(w, DnsBit + n, S2, ans2, sil2)
    BY <1>2, <1>4, <1>5, Zenon DEF Account, Settled
  <2>2. Settled(w, new, S2, ans2, sil2) BY <1>1, <1>5, Zenon DEF Settled
  <2> QED BY <1>1, <1>2, <1>3, <1>5, <2>1, <2>2, ZenonT(30) DEF Account
<1>6. CASE Adds(ans, ans2, w, {new}) /\ S2 = S
  <2>1. \A n \in 1..(k - 1) : Settled(w, DnsBit + n, S2, ans2, sil2)
    BY <1>2, <1>4, <1>6, Zenon DEF Account, Settled, Adds
  <2>2. Settled(w, new, S2, ans2, sil2) BY <1>1, <1>2, <1>6, Zenon DEF Settled, Adds
  <2>3. \A id : <<w, id>> \in DOMAIN ans2 \cup sil2 => \E n \in 1..(k2 - 1) : id = DnsBit + n
    BY <1>2, <1>3, <1>6, Zenon DEF Account, Adds
  <2> QED BY <1>1, <1>2, <1>3, <1>6, <2>1, <2>2, <2>3, ZenonT(30) DEF Account
<1> QED BY <1>5, <1>6, Zenon DEF Gives

LEMMA StopsAccount ==
  ASSUME NEW w, NEW S, NEW S2, NEW k, NEW k2, NEW ans, NEW ans2, NEW sil, NEW sil2, NEW gone,
         Accounted(w, S, k, ans, sil), Stops(w, S, S2, k, k2, ans, ans2, sil, sil2, gone)
  PROVE  Account(w, S2, k2, ans2, sil2)
<1> k \in Nat \ {0} /\ S \subseteq (DnsBit + 1)..(DnsBit + k - 1) /\ Account(w, S, k, ans, sil)
  BY Zenon DEF Accounted
<1>0. DnsBit \in Nat BY DnsAssumption, Zenon
<1>1. k2 = k /\ gone \subseteq S /\ S2 = S \ gone BY Zenon DEF Stops
<1>2. \A id \in S : id - DnsBit \in 1..(k - 1) /\ id = DnsBit + (id - DnsBit) BY <1>0
<1>3. \A id \in S : <<w, id>> \notin DOMAIN ans /\ <<w, id>> \notin sil
  <2>1. ASSUME NEW id \in S PROVE Settled(w, id, S, ans, sil)
    <3>1. Settled(w, DnsBit + (id - DnsBit), S, ans, sil) BY <1>2, Zenon DEF Account
    <3> QED BY <1>2, <3>1, Zenon
  <2> QED BY <2>1, Zenon DEF Account, Settled
<1>4. CASE Adds(ans, ans2, w, gone) /\ sil2 = sil
  <2>1. ASSUME NEW n \in 1..(k - 1) PROVE Settled(w, DnsBit + n, S2, ans2, sil2)
    <3>1. Settled(w, DnsBit + n, S, ans, sil) BY Zenon DEF Account
    <3> QED BY <1>1, <1>3, <1>4, <3>1, ZenonT(30) DEF Settled, Adds
  <2>2. \A id : <<w, id>> \in DOMAIN ans2 \cup sil2 => \E n \in 1..(k2 - 1) : id = DnsBit + n
    BY <1>1, <1>2, <1>4, ZenonT(30) DEF Account, Adds
  <2> QED BY <1>1, <1>3, <1>4, <2>1, <2>2, ZenonT(30) DEF Account
<1>5. CASE ans2 = ans /\ sil2 = sil \cup {<<w, id>> : id \in gone}
  <2>1. \A id : <<w, id>> \in sil2 <=> <<w, id>> \in sil \/ id \in gone BY <1>5, Zenon
  <2>2. ASSUME NEW n \in 1..(k - 1) PROVE Settled(w, DnsBit + n, S2, ans2, sil2)
    <3>1. Settled(w, DnsBit + n, S, ans, sil) BY Zenon DEF Account
    <3> QED BY <1>1, <1>3, <1>5, <2>1, <3>1, ZenonT(30) DEF Settled
  <2>3. \A id : <<w, id>> \in DOMAIN ans2 \cup sil2 => \E n \in 1..(k2 - 1) : id = DnsBit + n
    BY <1>1, <1>2, <1>5, <2>1, ZenonT(30) DEF Account
  <2> QED BY <1>1, <1>3, <2>1, <2>2, <2>3, ZenonT(30) DEF Account
<1> QED BY <1>4, <1>5, Zenon DEF Stops

LEMMA AnswersStep ==
  ASSUME StateInv, [Next]_vars
  PROVE  AnswerInv'
<1> DEFINE Acc(v)  == Account(v, Tokens(workers[v]), workers[v].dns.next_token, answers, silenced)
           Acc2(v) ==
             Account(v, Tokens(workers'[v]), workers'[v].dns.next_token, answers', silenced')
<1>1. (\A v \in Workers : Acc(v)) /\ OfWorkers(answers, silenced)
  BY AnswerFacts, Zenon DEF StateInv
<1>2. SUFFICES (\A v \in Workers : Acc2(v)) /\ OfWorkers(answers', silenced')
  <2>1. (AnswerInv <=> (\A v \in Workers : Acc(v)) /\ OfWorkers(answers, silenced))'
    BY AnswerFacts, PTL
  <2> QED BY <2>1, Zenon DEF Tokens
<1>3. CASE Stays BY <1>1, <1>3, Zenon DEF Stays, Tokens
<1>4. ASSUME NEW w \in Workers, ~Stays, Progress(w)
      PROVE  (\A v \in Workers : Acc2(v)) /\ OfWorkers(answers', silenced')
  <2>1. PICK u, gone, new : Moves(w, u, gone, new) BY <1>4 DEF Progress
  <2>2. workers'[w] = u /\ \A v \in Workers \ {w} : workers'[v] = workers[v]
    BY <2>1, MovesFacts, Zenon
  <2> DEFINE S == Tokens(workers[w])
             k == workers[w].dns.next_token
  <2>3. k \in Nat \ {0} /\ S \subseteq (DnsBit + 1)..(DnsBit + k - 1)
    BY StateFacts, Zenon DEF CountInv
  <2>4. \/ u.dns = workers[w].dns /\ UNCHANGED <<answers, silenced>>
        \/ Gives(w, S, Tokens(u), k, u.dns.next_token, answers, answers', silenced, silenced')
        \/ Stops(w, S, Tokens(u), k, u.dns.next_token, answers, answers', silenced, silenced', gone)
    <3>1. \A ts : Answered(w, ts) = AnsweredIn(answers, w, ts) BY Zenon DEF Answered, AnsweredIn
    <3>2. \A ts : answers' = Answered(w, ts) => Adds(answers, answers', w, ts)
      BY <3>1, AnsweredEntries, Zenon
    <3>3. Token(workers[w]) = DnsBit + k BY Zenon DEF Token
    <3>4. AnswerStep(w, u, gone) BY <2>1, Zenon DEF Moves
    <3> QED BY <3>2, <3>3, <3>4, Zenon DEF AnswerStep, Gives, Stops
  <2>5. Account(w, S, k, answers, silenced) BY <1>1, ZenonT(30)
  <2>6. Acc2(w)
    <3>1. CASE u.dns = workers[w].dns /\ UNCHANGED <<answers, silenced>>
      BY <2>2, <2>5, <3>1, Zenon DEF Tokens
    <3>2. Account(w, Tokens(u), u.dns.next_token, answers', silenced') => Acc2(w) BY <2>2, Zenon
    <3> HIDE DEF S, k, Acc2
    <3>3. Accounted(w, S, k, answers, silenced) BY <2>3, <2>5, Zenon DEF Accounted
    <3>4. ASSUME Gives(w, S, Tokens(u), k, u.dns.next_token, answers, answers', silenced, silenced')
          PROVE  Acc2(w)
      <4>1. Account(w, Tokens(u), u.dns.next_token, answers', silenced')
        BY <3>3, <3>4, GivesAccount, Zenon
      <4> QED BY <3>2, <4>1, Zenon
    <3>5. ASSUME Stops(w, S, Tokens(u), k, u.dns.next_token, answers, answers', silenced, silenced',
                       gone)
          PROVE  Acc2(w)
      <4>1. Account(w, Tokens(u), u.dns.next_token, answers', silenced')
        BY <3>3, <3>5, StopsAccount, Zenon
      <4> QED BY <3>2, <4>1, Zenon
    <3> QED BY <2>4, <3>1, <3>4, <3>5, Zenon
  <2>7. \E ts : /\ Adds(answers, answers', w, ts) \/ answers' = answers
                /\ silenced' = silenced \/ silenced' = silenced \cup {<<w, id>> : id \in ts}
    <3> HIDE DEF S, k
    <3> QED BY <2>4, Zenon DEF Gives, Stops
  <2>8. PICK ts : /\ Adds(answers, answers', w, ts) \/ answers' = answers
                  /\ silenced' = silenced \/ silenced' = silenced \cup {<<w, id>> : id \in ts}
    BY <2>7, Zenon
  <2>9. OfWorkers(answers', silenced')
    BY <1>1, <2>8 DEF OfWorkers, Adds
  <2>10. ASSUME NEW v \in Workers \ {w} PROVE Acc2(v)
    <3>1. \A id : /\ <<v, id>> \in DOMAIN answers' <=> <<v, id>> \in DOMAIN answers
                  /\ <<v, id>> \in silenced' <=> <<v, id>> \in silenced
                  /\ <<v, id>> \in DOMAIN answers /\ answers[<<v, id>>] = 1
                       => answers'[<<v, id>>] = 1
      BY <2>8 DEF Adds
    <3>2. Account(v, Tokens(workers[v]), workers[v].dns.next_token, answers, silenced)
      BY <1>1, Zenon
    <3>3. Account(v, Tokens(workers[v]), workers[v].dns.next_token, answers', silenced')
      BY <3>1, <3>2, OtherAccount, Zenon
    <3> QED BY <2>2, <3>3, Zenon
  <2> QED BY <2>6, <2>9, <2>10, ZenonT(30)
<1> QED BY <1>3, <1>4, NextProgress, Zenon

LEMMA StateInit == Init => StateInv
<1> SUFFICES ASSUME Init PROVE StateInv BY Zenon
<1>1. ASSUME NEW w \in Workers
      PROVE  /\ WsInv(w, workers[w]) /\ CountInv(workers[w])
             /\ DOMAIN workers[w].table.sessions = {} /\ DOMAIN workers[w].table.nat.forward = {}
             /\ Tokens(workers[w]) = {} /\ workers[w].dns.next_token = 1
  <2> DEFINE t  == NewTable(Share(w))
             ws == workers[w]
  <2>1. ws = [table |-> t, dns |-> NewDns] BY Zenon DEF Init, Share
  <2>2. ws.table = t /\ ws.dns = NewDns /\ DOMAIN ws = {"table", "dns"} BY <2>1
  <2>3. /\ DOMAIN ws.dns = {"next_token", "by_key", "by_reverse", "deadlines"}
        /\ DOMAIN ws.dns.by_key = {} /\ DOMAIN ws.dns.by_reverse = {}
        /\ ws.dns.deadlines = {} /\ ws.dns.next_token = 1
    BY <2>2 DEF NewDns, EmptyMap
  <2>4. /\ DOMAIN ws.table.sessions = {} /\ ws.table.next_session_id = 1
        /\ DOMAIN ws.table.nat.forward = {}
    BY <2>2 DEF NewTable, NewNat, EmptyMap
  <2>5. TableInv(ws.table, Share(w)) BY <2>2, NewTableInv, Zenon
  <2> HIDE DEF ws
  <2>6. Tokens(ws) = {} BY <2>3, Zenon DEF Tokens
  <2>7. DnsConsistent(ws) BY <2>3, <2>4, Zenon DEF DnsConsistent
  <2>8. CountInv(ws)
    <3>1. MaxSessions \in Nat BY FlowPlaneAssumption, Zenon
    <3> QED BY <2>3, <2>4, <2>6, <3>1, SMTT(30) DEF CountInv
  <2>9. WsInv(w, ws) BY <2>2, <2>3, <2>4, <2>5, <2>7, ZenonT(30) DEF WsInv, IsWorker
  <2> QED BY <2>3, <2>4, <2>6, <2>8, <2>9, Zenon DEF ws
<1>2. WorkersInv BY <1>1, Zenon DEF WorkersInv, Init, Idle
<1>3. SessionsInv
  <2>1. \A w \in Workers : inbox[w] = <<>> BY Zenon DEF Init
  <2>2. Msgs(<<>>) = {} /\ IsSeq(<<>>) BY DEF Msgs, IsSeq
  <2> QED BY <1>1, <2>1, <2>2, Zenon DEF SessionsInv
<1>4. DirInv
  BY <1>1, Zenon DEF DirInv, BindingsReachable, DirectoryLive, Init, EmptyMap
<1>5. AnswerInv
  <2>1. DOMAIN answers = {} /\ silenced = {} BY Zenon DEF Init, EmptyMap
  <2>2. \A w \in Workers : 1..(workers[w].dns.next_token - 1) = {} BY <1>1
  <2> QED BY <1>1, <2>1, <2>2, Zenon DEF AnswerInv, AnsweredOnce
<1> QED BY <1>2, <1>3, <1>4, <1>5, ZenonT(30) DEF StateInv

LEMMA StateStep ==
  ASSUME StateInv, [Next]_vars
  PROVE  StateInv'
BY WorkersStep, SessionsStep, DirectoryStep, AnswersStep, Zenon DEF StateInv

LEMMA StateIsInvariant == Spec => []StateInv
<1>1. StateInv /\ [Next]_vars => StateInv' BY StateStep, Zenon
<1> QED BY <1>1, StateInit, PTL DEF Spec

(* The tables of every Flow worker, its sessions, NAT bindings and DNS     *)
(* transactions with all their indexes, agree with each other whatever     *)
(* the IO workers, the tunnel, the resolvers and the expiry passes do.     *)
THEOREM FlowWorkersAreConsistent == Spec => []WorkersConsistent
<1>1. StateInv => WorkersConsistent
  BY Zenon DEF StateInv, WorkersInv, WsInv, TableInv, WorkersConsistent, Share
<1> QED BY <1>1, StateIsInvariant, PTL

(* drain_engine's rebind_quic_flow forgets no session: after any number of *)
(* closed connections every session is on the lane's current QUIC flow.    *)
THEOREM SessionsFollowTheirLane == Spec => []SessionsRebound
<1>1. StateInv => SessionsRebound BY Zenon DEF StateInv, SessionsInv, SessionsRebound
<1> QED BY <1>1, StateIsInvariant, PTL

(* What a Flow worker has bound, the IO workers find in the shared         *)
(* ReverseNatDirectory, under the binding's own locator.                   *)
THEOREM BindingsAreReachable == Spec => []BindingsReachable
<1>1. StateInv => BindingsReachable BY Zenon DEF StateInv, DirInv
<1> QED BY <1>1, StateIsInvariant, PTL

(* The ReverseNatDirectory keeps no entry of a dead binding, except those  *)
(* of remote DNS transactions that ended when their QUIC flow closed.      *)
THEOREM DirectoryIsLive == Spec => []DirectoryLive
<1>1. StateInv => DirectoryLive BY Zenon DEF StateInv, DirInv
<1> QED BY <1>1, StateIsInvariant, PTL

(* The Flow workers send one answer for each DNS query that got a token:   *)
(* none while it is open, never two, none only if the QUIC flow closed.    *)
THEOREM QueriesAreAnsweredOnce == Spec => []AnsweredOnce
<1>1. StateInv => AnsweredOnce BY Zenon DEF StateInv, AnswerInv
<1> QED BY <1>1, StateIsInvariant, PTL

-----------------------------------------------------------------------------
(* Delivery: whom the answers under way and in the channels can reach.     *)

(* x is the flow or the query that binding id of a worker is for. *)
Meant(ws, id, x) ==
  \/ id \in DOMAIN ws.table.sessions /\ ws.table.sessions[id].original = x
  \/ x \in DOMAIN ws.dns.by_key /\ ws.dns.by_key[x].token = id

Holds(ws, p, id) ==
  /\ id \in DOMAIN ws.table.nat.forward /\ BindingKey(ws.table.nat.forward[id]) = p.key
  /\ Meant(ws, id, p.for)

Withheld(ws, p) ==
  /\ p.key \in DOMAIN ws.table.nat.quarantined
  /\ ws.table.nat.quarantined[p.key] \in Nat
  /\ ws.table.nat.quarantined[p.key] >= p.at + ReuseQuarantine[p.key.proto]

(* The tuple of an answer, until its quarantine would be over, belongs to  *)
(* whom it is meant for, or to nobody.                                     *)
Reserved(ws, p, time) ==
  time - p.at < ReuseQuarantine[p.key.proto] =>
    (\E id \in DOMAIN ws.table.nat.forward : Holds(ws, p, id)) \/ Withheld(ws, p)

Timely(p, time) == p.at \in Nat /\ p.at <= time /\ p.key.proto \in Protocols

NetInv ==
  /\ now \in Nat
  /\ \A p \in net :
       /\ Timely(p, now)
       /\ \E w \in Workers : p.key.port \in Share(w) /\ Reserved(workers[w], p, now)

(* The queries are known ones, and their deadlines not too far away. *)
QueryInv ==
  /\ \A w \in Workers : \A m \in Msgs(inbox[w]) : m.kind = "query" => m.query \in Queries
  /\ \A w \in Workers : \A q \in DOMAIN workers[w].dns.by_key :
       /\ q \in Queries
       /\ workers[w].dns.by_key[q].expires_at \in Nat
       /\ workers[w].dns.by_key[q].expires_at <= now + DnsTimeout

(* Transaction tr was opened a quarantine after the answer p was sent. *)
Late(tr, p) == tr.expires_at - DnsTimeout >= p.at + ReuseQuarantine[p.key.proto]

(* Who but the query that an answer is meant for has the tuple of the      *)
(* answer, took it over after the quarantine.                              *)
Succeeded(ws, p) ==
  \A q \in DOMAIN ws.dns.by_key :
    KeyOfTransaction(ws.dns.by_key[q]) = p.key => q = p.for \/ Late(ws.dns.by_key[q], p)

OfFlow(p) == \E flow \in Flows : ReverseKey(flow, p.key.port) = p.key

SuccessionInv ==
  \A p \in net : (p.for \in Queries \/ OfFlow(p)) /\ \A w \in Workers : Succeeded(workers[w], p)

(* Transaction tr of query q may be given the answer p, if they match. *)
Lawful(q, tr, p) == q = p.for \/ (p.for \in Queries /\ Late(tr, p))

(* A return packet in a channel: its session, if it is still there, is the *)
(* one the packet is meant for, and its transaction may be given it; and   *)
(* no later session and no later transaction gets its identifier.          *)
Due(ws, m) ==
  LET id == m.locator.session_id
  IN  /\ id \in Nat
      /\ id < ws.table.next_session_id \/ (id > DnsBit /\ id < DnsBit + ws.dns.next_token)
      /\ id \in DOMAIN ws.table.sessions =>
           ws.table.sessions[id].original = m.packet.for
      /\ \A q \in DOMAIN ws.dns.by_key :
           ws.dns.by_key[q].token = id => Lawful(q, ws.dns.by_key[q], m.packet)

InboxInv ==
  \A w \in Workers : \A m \in Msgs(inbox[w]) : m.kind = "return" => Due(workers[w], m)

DeliveryInv == NetInv /\ QueryInv /\ SuccessionInv /\ InboxInv /\ NoMisdelivery

-----------------------------------------------------------------------------
(* What a step does to the transactions of a worker: it ends some, and     *)
(* opens some of known queries, due after the timeout.                     *)
Dates(d, d2) ==
  \A q \in DOMAIN d2.by_key :
    \/ q \in DOMAIN d.by_key /\ d2.by_key[q] = d.by_key[q]
    \/ q \in Queries /\ d2.by_key[q].expires_at = now + DnsTimeout

AllDates == \A v \in Workers : Dates(workers[v].dns, workers'[v].dns)

LEMMA DatesOfRemove ==
  ASSUME NEW ws, NEW qs, IsWorker(ws)
  PROVE  Dates(ws.dns, RemoveTransactions(ws, qs, now).dns)
<1> DEFINE u  == RemoveTransactions(ws, qs, now)
           bk == Restrict(ws.dns.by_key, DOMAIN ws.dns.by_key \ qs)
           br == Restrict(ws.dns.by_reverse, DOMAIN ws.dns.by_reverse \
                            {KeyOfTransaction(tr) : tr \in {ws.dns.by_key[q] : q \in qs}})
           dl == ws.dns.deadlines \ {<<ws.dns.by_key[q].expires_at, q>> : q \in qs}
<1>1. u.dns = [ws.dns EXCEPT !.by_key = bk, !.by_reverse = br, !.deadlines = dl]
  BY Zenon DEF RemoveTransactions
<1> HIDE DEF bk, br, dl
<1>3. u.dns.by_key = bk BY <1>1, Zenon DEF IsWorker
<1>2. \A q \in DOMAIN bk : q \in DOMAIN ws.dns.by_key /\ bk[q] = ws.dns.by_key[q]
  BY Zenon DEF Restrict, bk
<1> QED BY <1>2, <1>3, Zenon DEF Dates

LEMMA DatesOfOpen ==
  ASSUME NEW w, NEW ws, NEW q \in Queries
  PROVE  Dates(ws.dns, Open(ws, w, q, now).dns) /\ IsWorker(Open(ws, w, q, now))
<1> DEFINE u  == Open(ws, w, q, now)
           t2 == AllocateEphemeral(ws.table, w, Token(ws), SelectedFlow(q), now)
           tr == [token |-> Token(ws), query |-> q, port |-> t2.nat.forward[Token(ws)].port,
                  expires_at |-> now + DnsTimeout]
<1>1. u.dns.by_key = Put(ws.dns.by_key, q, tr) /\ IsWorker(u) BY Zenon DEF Open, IsWorker
<1>2. tr.expires_at = now + DnsTimeout BY Zenon
<1> HIDE DEF tr
<1> QED BY <1>1, <1>2, Zenon DEF Dates, Put

LEMMA DatesOfTable ==
  ASSUME StateInv, NEW w \in Workers, NEW t, workers' = [workers EXCEPT ![w].table = t]
  PROVE  AllDates
<1>1. \A v \in Workers : IsWorker(workers[v]) /\ DOMAIN workers = Workers BY StateFacts, Zenon
<1>2. /\ workers'[w] = [workers[w] EXCEPT !.table = t]
      /\ \A v \in Workers \ {w} : workers'[v] = workers[v]
  BY <1>1, Zenon
<1>3. workers'[w].dns = workers[w].dns
  <2>1. ASSUME NEW u, u = [workers[w] EXCEPT !.table = t] PROVE u.dns = workers[w].dns
    <3>1. IsWorker(workers[w]) BY <1>1, Zenon
    <3> QED BY <2>1, <3>1, Zenon DEF IsWorker
  <2> QED BY <1>2, <2>1, Zenon
<1> QED BY <1>2, <1>3, Zenon DEF AllDates, Dates

LEMMA DatesOfWorker ==
  ASSUME StateInv, NEW w \in Workers, NEW u, workers' = [workers EXCEPT ![w] = u],
         Dates(workers[w].dns, u.dns)
  PROVE  AllDates
<1>1. DOMAIN workers = Workers BY StateFacts, Zenon
<1> QED BY <1>1, Zenon DEF AllDates, Dates

LEMMA DatesOfOpenTransaction ==
  ASSUME StateInv, NEW w \in Workers, NEW q \in Queries, OpenTransaction(w, q)
  PROVE  AllDates
<1> DEFINE ws  == workers[w]
           new == Open(ws, w, q, now)
<1>1. IsWorker(ws) BY StateFacts, Zenon
<1>2. Dates(ws.dns, new.dns) /\ IsWorker(new) BY DatesOfOpen, Zenon
<1>3. Dates(ws.dns, RemoveTransactions(new, {q}, now).dns)
  <2>1. Dates(new.dns, RemoveTransactions(new, {q}, now).dns) BY <1>2, DatesOfRemove, Zenon
  <2> HIDE DEF new
  <2> QED BY <1>2, <2>1, Zenon DEF Dates
<1>4. Dates(ws.dns, OpenFailed(ws, q, now).dns)
  <2>1. OpenFailed(ws, q, now).dns.by_key = ws.dns.by_key BY <1>1, Zenon DEF OpenFailed, IsWorker
  <2> QED BY <2>1, Zenon DEF Dates
<1>5. \E u : workers' = [workers EXCEPT ![w] = u] /\ Dates(ws.dns, u.dns)
  <2> HIDE DEF new
  <2>1. \/ workers' = [workers EXCEPT ![w] = new]
        \/ workers' = [workers EXCEPT ![w] = RemoveTransactions(new, {q}, now)]
        \/ workers' = [workers EXCEPT ![w] = OpenFailed(ws, q, now)]
    BY Zenon DEF OpenTransaction, new
  <2> QED BY <1>2, <1>3, <1>4, <2>1, Zenon
<1> QED BY <1>5, DatesOfWorker, Zenon

LEMMA DatesStep ==
  ASSUME StateInv, QueryInv, [Next]_vars
  PROVE  AllDates
<1>0. CASE UNCHANGED workers BY <1>0, Zenon DEF AllDates, Dates
<1>1. ASSUME NEW w \in Workers, NEW flow, NEW r, OpenSession(w, flow, r) PROVE AllDates
  <2>1. \E t : workers' = [workers EXCEPT ![w].table = t]
    BY <1>1, Zenon DEF OpenSession, PublishSession
  <2> QED BY <2>1, DatesOfTable, Zenon
<1>2. ASSUME NEW w \in Workers, NEW p, DnsResponse(w, p) PROVE AllDates
  <2>1. CASE \E qs : workers' = [workers EXCEPT ![w] = RemoveTransactions(workers[w], qs, now)]
    BY <2>1, StateFacts, DatesOfRemove, DatesOfWorker, ZenonT(30)
  <2> QED BY <1>0, <1>2, <2>1, Zenon DEF DnsResponse
<1>3. ASSUME NEW w \in Workers, NEW p, NEW expected, NEW observed, NEW flag,
             ReverseFor(w, p, expected, observed, flag)
      PROVE  AllDates
  <2>1. UNCHANGED workers \/ \E t : workers' = [workers EXCEPT ![w].table = t]
    BY <1>3, Zenon DEF ReverseFor, Deliver
  <2> QED BY <1>0, <2>1, DatesOfTable, Zenon
<1>4. ASSUME NEW w \in Workers, FlowStep(w) PROVE AllDates
  <2>1. ASSUME NEW flow, NEW flag, ServerInner(w, flow, flag) PROVE AllDates
    BY <1>1, <2>1, Zenon DEF ServerInner
  <2>2. ASSUME NEW dropped, ClientIntercept(w, dropped) PROVE AllDates
    BY <1>0, <1>1, <2>2, Zenon DEF ClientIntercept
  <2>3. CASE RetireSession(w) \/ ExpireIdle(w)
    <3>1. \E t : workers' = [workers EXCEPT ![w].table = t]
      BY <2>3, Zenon DEF RetireSession, ExpireIdle
    <3> QED BY <3>1, DatesOfTable, Zenon
  <2>4. CASE ClientQuery(w)
    <3> DEFINE q == Head(inbox[w]).query
    <3>1. q \in Queries BY <2>4, HeadOfInbox, Zenon DEF ClientQuery, QueryInv
    <3>2. UNCHANGED workers \/ OpenTransaction(w, q) BY <2>4, Zenon DEF ClientQuery
    <3> HIDE DEF q
    <3> QED BY <1>0, <3>1, <3>2, DatesOfOpenTransaction, Zenon
  <2>5. CASE Return(w) BY <1>2, <1>3, <2>5, Zenon DEF Return
  <2>6. ASSUME NEW p, NEW flag, ClientInner(w, p, flag) PROVE AllDates
    BY <1>2, <1>3, <2>6, Zenon DEF ClientInner
  <2>7. CASE ExpireDns(w)
    <3>1. \E qs : workers' = [workers EXCEPT ![w] = RemoveTransactions(workers[w], qs, now)]
      BY <2>7, Zenon DEF ExpireDns
    <3> QED BY <3>1, StateFacts, DatesOfRemove, DatesOfWorker, ZenonT(30)
  <2>8. CASE Authenticated(w) BY <1>0, <2>8, Zenon DEF Authenticated
  <2>9. CASE Closed(w)
    <3> DEFINE kept == RemoveTransactions(workers[w], RemoteQueries(workers[w]), now)
    <3>1. IsWorker(workers[w]) BY StateFacts, Zenon
    <3>2. Dates(workers[w].dns, kept.dns) BY <3>1, DatesOfRemove, Zenon
    <3>3. PICK t : workers' = [workers EXCEPT ![w] = [kept EXCEPT !.table = t]]
      BY <2>9, Zenon DEF Closed
    <3>4. [kept EXCEPT !.table = t].dns = kept.dns BY Zenon DEF RemoveTransactions
    <3> HIDE DEF kept
    <3> QED BY <3>2, <3>3, <3>4, DatesOfWorker, Zenon
  <2> QED BY <1>4, <2>1, <2>2, <2>3, <2>4, <2>5, <2>6, <2>7, <2>8, <2>9, Zenon DEF FlowStep
<1>5. CASE UNCHANGED vars BY <1>0, <1>5, Zenon DEF vars
<1>6. CASE IoStep BY <1>0, <1>6, Zenon DEF IoStep, IoIntercept, IoQuery, IoReturn
<1>7. CASE NetStep BY <1>0, <1>7, Zenon DEF NetStep, RemoteReply, Lose
<1>8. CASE Tick BY <1>0, <1>8, Zenon DEF Tick
<1> QED BY <1>4, <1>5, <1>6, <1>7, <1>8, Zenon DEF Next

LEMMA ReservedStays ==
  ASSUME NEW w, NEW ws, NEW u, NEW gone, NEW new, NEW time \in Nat, NEW p, Timely(p, time),
         WsInv(w, ws), WorkerEffect(ws, u, gone, new, time), Reserved(ws, p, time)
  PROVE  Reserved(u, p, time)
<1> DEFINE nat  == ws.table.nat
           nat2 == u.table.nat
           span == ReuseQuarantine[p.key.proto]
<1>1. p.at \in Nat /\ p.at <= time /\ span \in Nat
  BY QuarantineAssumption, Zenon DEF Timely
<1>2. /\ Rebinds(nat, nat2, gone, new) /\ Quarantines(nat, nat2, gone, time)
      /\ Resumes(ws.table, u.table, gone, new) /\ DnsEffect(ws.dns, u.dns, gone, new)
  BY Zenon DEF WorkerEffect, TableEffect
<1>3. SUFFICES ASSUME time - p.at < span
               PROVE  (\E id : Holds(u, p, id)) \/ Withheld(u, p)
  BY Zenon DEF Reserved, Holds
<1>4. ASSUME NEW id, Holds(ws, p, id), id \notin gone PROVE Holds(u, p, id)
  <2>1. id \in DOMAIN nat2.forward /\ BindingKey(nat2.forward[id]) = p.key
    BY <1>2, <1>4, ZenonT(30) DEF Holds, Rebinds
  <2>2. Meant(u, id, p.for) BY <1>2, <1>4, Zenon DEF Holds, Meant, Resumes, DnsEffect
  <2> QED BY <2>1, <2>2, Zenon DEF Holds
<1>5. ASSUME NEW id, Holds(ws, p, id), id \in gone PROVE Withheld(u, p)
  <2>1. p.key \in DOMAIN nat2.quarantined /\ nat2.quarantined[p.key] = time + span
    BY <1>2, <1>5, Zenon DEF Holds, Quarantines
  <2> QED BY <1>1, <2>1 DEF Withheld
<1>6. ASSUME Withheld(ws, p) PROVE Withheld(u, p)
  <2>1. p.key \in DOMAIN nat.quarantined \ DOMAIN nat.reverse
    BY <1>6, Zenon DEF Withheld, WsInv, TableInv, TableConsistent, NatConsistent, QuarantineDisjoint
  <2>2. nat.quarantined[p.key] > time BY <1>1, <1>3, <1>6 DEF Withheld
  <2>3. p.key \in DOMAIN nat2.quarantined /\ nat2.quarantined[p.key] = nat.quarantined[p.key]
    BY <1>2, <2>1, <2>2, ZenonT(30) DEF Quarantines
  <2> QED BY <1>6, <2>3, ZenonT(30) DEF Withheld
<1> QED BY <1>3, <1>4, <1>5, <1>6, ZenonT(30) DEF Reserved

(* The worker whose share has a port is the only one. *)
LEMMA OneShare ==
  ASSUME NEW v \in Workers, NEW w \in Workers, NEW port \in Share(v), port \in Share(w)
  PROVE  v = w
<1>1. /\ NatPorts.start \in Nat /\ NatPorts.end \in Nat /\ WorkerCount \in Nat \ {0}
      /\ HasPortRange(NatPorts, v, WorkerCount) /\ HasPortRange(NatPorts, w, WorkerCount)
      /\ v \in Nat /\ w \in Nat
  BY FlowPlaneAssumption DEF Workers
<1>2. v # w => Share(v) \cap Share(w) = {} BY <1>1, SharesDisjoint, Zenon DEF Share
<1> QED BY <1>2, Zenon

IsBinding(b, o, n) == b = [original |-> o, port |-> n]

LEMMA BindingFields ==
  ASSUME NEW b, NEW o, NEW n, IsBinding(b, o, n)
  PROVE  b.original = o /\ b.port = n
BY Zenon DEF IsBinding

LEMMA BoundPort ==
  ASSUME NEW w, NEW ws, WsInv(w, ws), NEW id \in DOMAIN ws.table.nat.forward
  PROVE  BindingKey(ws.table.nat.forward[id]).port \in Share(w)
<1>1. ws.table.nat.forward[id].port \in Share(w)
  BY Zenon DEF WsInv, TableInv, TableConsistent, NatConsistent, PortsPartitioned
<1> QED BY <1>1, Zenon DEF BindingKey, ReverseKey

(* A tuple has one holder, and is not in quarantine while it has one. *)
LEMMA OneHolder ==
  ASSUME NEW w, NEW ws, WsInv(w, ws), NEW p, NEW id \in DOMAIN ws.table.nat.forward,
         BindingKey(ws.table.nat.forward[id]) = p.key
  PROVE  ~Withheld(ws, p) /\ \A n : Holds(ws, p, n) => n = id
<1> DEFINE nat == ws.table.nat
<1>1. p.key \in DOMAIN nat.reverse /\ nat.reverse[p.key].session_id = id
  BY ZenonT(30) DEF WsInv, TableInv, TableConsistent, NatConsistent, ReverseMatchesForward
<1>2. ~Withheld(ws, p)
  BY <1>1, Zenon DEF Withheld, WsInv, TableInv, TableConsistent, NatConsistent,
     QuarantineDisjoint
<1>3. ASSUME NEW n, Holds(ws, p, n) PROVE n = id
  BY <1>1, <1>3, ZenonT(30)
     DEF Holds, WsInv, TableInv, TableConsistent, NatConsistent, ReverseMatchesForward
<1> QED BY <1>2, <1>3, Zenon

LEMMA SessionTuple ==
  ASSUME NEW w, NEW ws, WsInv(w, ws), NEW id \in DOMAIN ws.table.sessions, NEW p,
         BindingKey(ws.table.nat.forward[id]) = p.key
  PROVE  /\ id \in DOMAIN ws.table.nat.forward
         /\ ReverseKey(ws.table.sessions[id].original, p.key.port) = p.key
<1> DEFINE o == ws.table.sessions[id].original
           n == ws.table.sessions[id].port
           b == ws.table.nat.forward[id]
<1>1. id \in DOMAIN ws.table.nat.forward /\ IsBinding(b, o, n)
  BY Zenon DEF WsInv, TableInv, TableConsistent, SessionsBound, IsBinding
<1> HIDE DEF o, n, b
<1>2. BindingKey(b) = ReverseKey(o, n) BY <1>1, BindingFields, Zenon DEF BindingKey
<1>3. ReverseKey(o, n).port = n BY Zenon DEF ReverseKey
<1>4. p.key.port = n /\ ReverseKey(o, n) = p.key BY <1>2, <1>3, Zenon DEF b
<1> QED BY <1>1, <1>4, Zenon DEF o

(* The session that holds the tuple of an answer that comes in time is the *)
(* one the answer is meant for.                                            *)
LEMMA HolderIsMeant ==
  ASSUME StateInv, NetInv, NEW p \in net, InTime(p), NEW w \in Workers,
         NEW id \in DOMAIN workers[w].table.sessions, TupleOf(w, id) = p.key
  PROVE  workers[w].table.sessions[id].original = p.for
<1> DEFINE ws == workers[w]
           nat == ws.table.nat
<1>1. WsInv(w, ws) /\ ws.table.sessions[id].original \in Flows
  BY StateFacts, ZenonT(30) DEF SessionsGood
<1>2. BindingKey(nat.forward[id]) = p.key BY Zenon DEF TupleOf
<1>3. /\ id \in DOMAIN nat.forward
      /\ ReverseKey(ws.table.sessions[id].original, p.key.port) = p.key
  <2> HIDE DEF ws
  <2> QED BY <1>1, <1>2, SessionTuple, Zenon DEF ws
<1>4. now - p.at < ReuseQuarantine[p.key.proto] BY <1>1, <1>3, ZenonT(30) DEF InTime
<1>5. p.key.port \in Share(w) BY <1>1, <1>2, <1>3, BoundPort, ZenonT(30)
<1>6. Reserved(ws, p, now)
  <2>1. PICK v \in Workers : p.key.port \in Share(v) /\ Reserved(workers[v], p, now)
    BY Zenon DEF NetInv
  <2>2. v = w BY <1>5, <2>1, OneShare, Zenon
  <2> QED BY <2>1, <2>2, Zenon
<1>7. ~Withheld(ws, p) /\ \A n : Holds(ws, p, n) => n = id BY <1>1, <1>2, <1>3, OneHolder, Zenon
<1>8. Holds(ws, p, id) BY <1>4, <1>6, <1>7, Zenon DEF Reserved
<1>9. id \notin Tokens(ws) BY <1>1, Zenon DEF WsInv
<1> QED BY <1>8, <1>9, Zenon DEF Holds, Meant, Tokens

LEMMA QueryTuple ==
  ASSUME NEW w, NEW ws, WsInv(w, ws), NEW q \in DOMAIN ws.dns.by_key
  PROVE  LET token == ws.dns.by_key[q].token
         IN  /\ token \in DOMAIN ws.table.nat.forward \ DOMAIN ws.table.sessions
             /\ BindingKey(ws.table.nat.forward[token]) = KeyOfTransaction(ws.dns.by_key[q])
<1> DEFINE tr == ws.dns.by_key[q]
           b  == ws.table.nat.forward[tr.token]
<1>1. /\ tr.token \in DOMAIN ws.table.nat.forward /\ tr.query = q
      /\ IsBinding(b, SelectedFlow(q), tr.port)
  BY Zenon DEF WsInv, DnsConsistent, IsBinding
<1>2. tr.token \notin DOMAIN ws.table.sessions BY Zenon DEF WsInv, Tokens
<1> HIDE DEF b, tr
<1>3. BindingKey(b) = KeyOfTransaction(tr)
  BY <1>1, BindingFields, Zenon DEF BindingKey, KeyOfTransaction
<1> QED BY <1>1, <1>2, <1>3, Zenon DEF tr, b

(* The query that has the tuple of an answer that whom it is meant for     *)
(* holds is that one.                                                      *)
LEMMA QueryIsMeant ==
  ASSUME NEW w, NEW ws, WsInv(w, ws), NEW p, NEW q \in DOMAIN ws.dns.by_key,
         KeyOfTransaction(ws.dns.by_key[q]) = p.key
  PROVE  /\ ~Withheld(ws, p) /\ p.key.port \in Share(w)
         /\ \A n : Holds(ws, p, n) => q = p.for
<1> DEFINE token == ws.dns.by_key[q].token
<1>1. /\ token \in DOMAIN ws.table.nat.forward /\ token \notin DOMAIN ws.table.sessions
      /\ BindingKey(ws.table.nat.forward[token]) = p.key
  BY QueryTuple, Zenon
<1>2. ~Withheld(ws, p) /\ \A n : Holds(ws, p, n) => n = token
  <2> HIDE DEF token
  <2> QED BY <1>1, OneHolder, Zenon
<1>3. p.key.port \in Share(w)
  <2> HIDE DEF token
  <2> QED BY <1>1, BoundPort, Zenon
<1>4. ASSUME NEW n, Holds(ws, p, n) PROVE q = p.for
  <2>1. Meant(ws, token, p.for) BY <1>2, <1>4, Zenon DEF Holds
  <2>2. p.for \in DOMAIN ws.dns.by_key /\ ws.dns.by_key[p.for].token = token
    BY <1>1, <2>1, Zenon DEF Meant
  <2> QED BY <2>2, TokenOwner, Zenon
<1> QED BY <1>2, <1>3, <1>4, Zenon

LEMMA DueStays ==
  ASSUME NEW ws, NEW u, NEW gone, NEW new, NEW time, NEW m, Due(ws, m),
         CountInv(ws), CountInv(u), WorkerEffect(ws, u, gone, new, time)
  PROVE  Due(u, m)
<1> DEFINE id == m.locator.session_id
           t  == ws.table
           t2 == u.table
<1>1. Resumes(t, t2, gone, new) /\ DnsEffect(ws.dns, u.dns, gone, new)
  BY Zenon DEF WorkerEffect, TableEffect
<1>2. MaxSessions \in Nat /\ DnsBit \in Nat /\ MaxSessions < DnsBit
  BY FlowPlaneAssumption, DnsAssumption, Zenon
<1>3. /\ t.next_session_id \in 1..(MaxSessions + 1) /\ t2.next_session_id \in 1..(MaxSessions + 1)
      /\ t2.next_session_id \in {t.next_session_id, t.next_session_id + 1}
  BY <1>1, Zenon DEF CountInv, Resumes
<1>4. /\ ws.dns.next_token \in Nat
      /\ u.dns.next_token \in {ws.dns.next_token, ws.dns.next_token + 1}
  BY <1>1 DEF CountInv, DnsEffect
<1>5. /\ id \in Nat
      /\ id < t.next_session_id \/ (id > DnsBit /\ id < DnsBit + ws.dns.next_token)
      /\ id \in DOMAIN t.sessions => t.sessions[id].original = m.packet.for
      /\ \A q \in DOMAIN ws.dns.by_key :
           ws.dns.by_key[q].token = id => Lawful(q, ws.dns.by_key[q], m.packet)
  BY Zenon DEF Due
<1> HIDE DEF id
<1>6. id < t2.next_session_id \/ (id > DnsBit /\ id < DnsBit + u.dns.next_token)
  BY <1>2, <1>3, <1>4, <1>5
<1>7. ASSUME id \in DOMAIN t2.sessions PROVE t2.sessions[id].original = m.packet.for
  <2>1. id \in DOMAIN t.sessions \ gone
    <3>1. ~(id = t.next_session_id /\ t2.next_session_id = id + 1) BY <1>2, <1>3, <1>5
    <3> QED BY <1>1, <1>7, <3>1, ZenonT(30) DEF Resumes
  <2> QED BY <1>1, <1>5, <2>1, Zenon DEF Resumes
<1>8. ASSUME NEW q \in DOMAIN u.dns.by_key, u.dns.by_key[q].token = id
      PROVE  Lawful(q, u.dns.by_key[q], m.packet)
  <2>1. id # DnsBit + ws.dns.next_token BY <1>2, <1>3, <1>4, <1>5
  <2>2. q \in DOMAIN ws.dns.by_key /\ u.dns.by_key[q] = ws.dns.by_key[q]
    BY <1>1, <1>8, <2>1, Zenon DEF DnsEffect
  <2> QED BY <1>5, <1>8, <2>2, Zenon
<1> QED BY <1>5, <1>6, <1>7, <1>8, Zenon DEF Due, id

(* The transaction that has the tuple of an answer that comes in time may  *)
(* be given it.                                                            *)
LEMMA HolderIsLawful ==
  ASSUME NetInv, QueryInv, SuccessionInv, NEW p \in net, InTime(p), NEW w \in Workers,
         NEW q \in DOMAIN workers[w].dns.by_key,
         KeyOfTransaction(workers[w].dns.by_key[q]) = p.key
  PROVE  Lawful(q, workers[w].dns.by_key[q], p)
<1> DEFINE tr == workers[w].dns.by_key[q]
<1>1. (p.for \in Queries \/ OfFlow(p)) /\ (q = p.for \/ Late(tr, p))
  BY Zenon DEF SuccessionInv, Succeeded
<1>2. OfFlow(p) => ~Late(tr, p)
  <2>1. tr.expires_at \in Nat /\ tr.expires_at <= now + DnsTimeout BY Zenon DEF QueryInv
  <2>2. now \in Nat /\ p.at \in Nat /\ ReuseQuarantine[p.key.proto] \in Nat /\ DnsTimeout \in Nat
    BY QuarantineAssumption, DnsAssumption, Zenon DEF NetInv, Timely
  <2>3. OfFlow(p) => now - p.at < ReuseQuarantine[p.key.proto] BY Zenon DEF InTime, OfFlow
  <2> HIDE DEF tr
  <2> QED BY <2>1, <2>2, <2>3 DEF Late
<1> QED BY <1>1, <1>2, Zenon DEF Lawful

(* An IO worker passes on what it found in the directory. *)
LEMMA SentIsDue ==
  ASSUME StateInv, NetInv, QueryInv, SuccessionInv,
         NEW w \in Workers, NEW m, Sent(w, m), m.kind = "return"
  PROVE  Due(workers[w], m)
<1> DEFINE p  == m.packet
           id == m.locator.session_id
           ws == workers[w]
<1>1. /\ p \in net /\ InTime(p) /\ p.key \in DOMAIN directory
      /\ m.locator = directory[p.key] /\ w = m.locator.flow_worker_id
  BY Zenon DEF Sent
<1>2. \/ id \in DOMAIN ws.table.nat.forward /\ TupleOf(w, id) = p.key
      \/ <<w, id>> \in silenced
  BY <1>1, Zenon DEF StateInv, DirInv, DirectoryLive
<1>3. WsInv(w, ws) /\ CountInv(ws) BY StateFacts, Zenon
<1>4. MaxSessions \in Nat /\ DnsBit \in Nat /\ MaxSessions < DnsBit
  BY FlowPlaneAssumption, DnsAssumption, Zenon
<1>5. /\ ws.table.next_session_id \in 1..(MaxSessions + 1) /\ ws.dns.next_token \in Nat \ {0}
      /\ DOMAIN ws.table.sessions \subseteq 1..(ws.table.next_session_id - 1)
      /\ Tokens(ws) \subseteq (DnsBit + 1)..(DnsBit + ws.dns.next_token - 1)
  BY <1>3, Zenon DEF CountInv
<1>6. CASE id \in DOMAIN ws.table.sessions
  <2>1. id \notin Tokens(ws) /\ id \in DOMAIN ws.table.nat.forward
    BY <1>3, <1>6, Holders, ZenonT(30)
  <2>2. id \in Nat /\ id < ws.table.next_session_id /\ id <= MaxSessions BY <1>4, <1>5, <1>6
  <2>3. <<w, id>> \notin silenced
    <3>1. \A v, x : <<v, x>> \in silenced => \E n \in Nat \ {0} : x = DnsBit + n
      BY DEF StateInv, AnswerInv
    <3> HIDE DEF id
    <3> QED BY <1>4, <2>2, <3>1
  <2>4. ws.table.sessions[id].original = p.for
    BY <1>1, <1>2, <1>6, <2>3, HolderIsMeant, ZenonT(30)
  <2>5. \A q \in DOMAIN ws.dns.by_key : ws.dns.by_key[q].token # id BY <2>1, Zenon DEF Tokens
  <2> QED BY <2>2, <2>4, <2>5, Zenon DEF Due
<1>7. CASE id \notin DOMAIN ws.table.sessions
  <2>1. id \in Nat /\ id > DnsBit /\ id < DnsBit + ws.dns.next_token
    <3>1. CASE id \in DOMAIN ws.table.nat.forward
      <4>1. id \in Tokens(ws) BY <1>3, <1>7, <3>1, Holders, Zenon
      <4> HIDE DEF id
      <4> QED BY <1>4, <1>5, <4>1
    <3>2. CASE <<w, id>> \in silenced
      <4>1. \E n \in 1..(ws.dns.next_token - 1) : id = DnsBit + n
        BY <3>2, AnswerFacts, ZenonT(30) DEF StateInv, Account
      <4> HIDE DEF id
      <4> QED BY <1>4, <1>5, <4>1
    <3> QED BY <1>2, <3>1, <3>2, Zenon
  <2>2. ASSUME NEW q \in DOMAIN ws.dns.by_key, ws.dns.by_key[q].token = id
        PROVE  Lawful(q, ws.dns.by_key[q], p)
    <3>1. id \in Tokens(ws) BY <2>2, Zenon DEF Tokens
    <3>2. <<w, id>> \notin silenced BY <3>1, Zenon DEF StateInv, AnswerInv
    <3>3. KeyOfTransaction(ws.dns.by_key[q]) = p.key
      BY <1>2, <1>3, <2>2, <3>2, QueryTuple, Zenon DEF TupleOf
    <3> QED BY <1>1, <3>3, HolderIsLawful, Zenon
  <2> QED BY <1>7, <2>1, <2>2, Zenon DEF Due
<1> QED BY <1>6, <1>7, Zenon

LEMMA InboxStays ==
  ASSUME StateInv, NetInv, QueryInv, SuccessionInv, InboxInv, [Next]_vars
  PROVE  InboxInv'
<1>1. DOMAIN inbox = Workers /\ \A v \in Workers : IsSeq(inbox[v])
  BY Zenon DEF StateInv, WorkersInv, SessionsInv
<1>2. \A v \in Workers : \A m \in Msgs(inbox'[v]) : m.kind = "return" => Due(workers[v], m)
  <2>1. \A v \in Workers : \A m \in Msgs(inbox[v]) : m.kind = "return" => Due(workers[v], m)
    BY Zenon DEF InboxInv
  <2>2. CASE UNCHANGED inbox BY <2>1, <2>2, Zenon
  <2>3. ASSUME NEW w \in Workers, inbox[w] # <<>>, inbox' = [inbox EXCEPT ![w] = Tail(inbox[w])]
        PROVE  <1>2
    BY <1>1, <2>1, <2>3, HeadTail, ZenonT(30)
  <2>4. ASSUME NEW w \in Workers, NEW m, inbox' = [inbox EXCEPT ![w] = Append(inbox[w], m)],
               Sent(w, m)
        PROVE  <1>2
    <3>1. m.kind = "return" => Due(workers[w], m) BY <2>4, SentIsDue, Zenon
    <3> QED BY <1>1, <2>1, <2>4, <3>1, Appended, SMTT(30)
  <2> QED BY <2>2, <2>3, <2>4, NextInbox, ZenonT(30) DEF InboxStep
<1>3. CASE Stays BY <1>2, <1>3, Zenon DEF Stays, InboxInv
<1>4. ASSUME NEW w \in Workers, ~Stays, Progress(w) PROVE InboxInv'
  <2>1. PICK u, gone, new : Moves(w, u, gone, new) BY <1>4, Zenon DEF Progress
  <2>2. /\ workers'[w] = u /\ \A v \in Workers \ {w} : workers'[v] = workers[v]
        /\ CountInv(u) /\ WorkerEffect(workers[w], u, gone, new, now)
    BY <2>1, MovesFacts, Zenon
  <2>3. CountInv(workers[w]) BY StateFacts, Zenon
  <2>4. \A m : Due(workers[w], m) => Due(u, m) BY <2>2, <2>3, DueStays, Zenon
  <2> QED BY <1>2, <2>2, <2>4, Zenon DEF InboxInv
<1> QED BY <1>3, <1>4, NextProgress, Zenon

(* The steps that move time or the network leave the workers alone. *)
Elapses ==
  \/ now' = now + 1 /\ net' = net
  \/ now' = now /\ net' \subseteq net
  \/ /\ now' = now
     /\ \E w \in Workers : \E id \in DOMAIN workers[w].table.nat.forward :
          net' = net \cup {[key |-> TupleOf(w, id), for |-> MeantFor(workers[w], id), at |-> now]}

LEMMA NextElapses ==
  ASSUME [Next]_vars
  PROVE  UNCHANGED <<now, net>> \/ (UNCHANGED workers /\ Elapses)
<1>1. CASE UNCHANGED vars BY <1>1, Zenon DEF vars
<1>2. CASE IoStep BY <1>2, Zenon DEF IoStep, IoIntercept, IoQuery, IoReturn
<1>3. ASSUME NEW w \in Workers, FlowStep(w) PROVE UNCHANGED <<now, net>>
  BY <1>3, ZenonT(30) DEF FlowStep, ServerInner, ClientIntercept, RetireSession, ClientQuery,
     Return,
              ClientInner, ExpireIdle, ExpireDns, Authenticated, Closed
<1>4. CASE NetStep BY <1>4, Zenon DEF NetStep, RemoteReply, Lose, Elapses
<1>5. CASE Tick BY <1>5, Zenon DEF Tick, Elapses
<1> QED BY <1>1, <1>2, <1>3, <1>4, <1>5, ZenonT(30) DEF Next

(* A binding is for the flow or the query that MeantFor finds. *)
LEMMA MeantForIsMeant ==
  ASSUME NEW w, NEW ws, WsInv(w, ws), NEW id \in DOMAIN ws.table.nat.forward
  PROVE  Meant(ws, id, MeantFor(ws, id))
<1>1. CASE id \in DOMAIN ws.table.sessions BY <1>1, Zenon DEF Meant, MeantFor
<1>2. CASE id \notin DOMAIN ws.table.sessions
  <2>1. \E q \in DOMAIN ws.dns.by_key : ws.dns.by_key[q].token = id BY <1>2, Holders, ZenonT(30)
  <2> QED BY <1>2, <2>1, Zenon DEF Meant, MeantFor
<1> QED BY <1>1, <1>2, Zenon

LEMMA BoundProtocol ==
  ASSUME StateInv, NEW w \in Workers, NEW id \in DOMAIN workers[w].table.nat.forward
  PROVE  TupleOf(w, id).proto \in Protocols
<1> DEFINE ws == workers[w]
<1>1. WsInv(w, ws) /\ SessionsGood(ws, quic_flow[w]) BY StateFacts, Zenon
<1>2. ws.table.nat.forward[id].original.proto \in Protocols
  <2>1. CASE id \in DOMAIN ws.table.sessions
    <3>1. ws.table.nat.forward[id] = [original |-> ws.table.sessions[id].original,
                                      port |-> ws.table.sessions[id].port]
      BY <1>1, <2>1, Zenon DEF WsInv, TableInv, TableConsistent, SessionsBound
    <3>2. ws.table.sessions[id].original \in Flows BY <1>1, <2>1, Zenon DEF SessionsGood
    <3>3. IsBinding(ws.table.nat.forward[id], ws.table.sessions[id].original,
                    ws.table.sessions[id].port)
      BY <3>1, Zenon DEF IsBinding
    <3>4. ws.table.nat.forward[id].original = ws.table.sessions[id].original
      BY <3>3, BindingFields, ZenonT(30)
    <3> QED BY <3>2, <3>4, FlowPlaneAssumption, Zenon
  <2>2. CASE id \notin DOMAIN ws.table.sessions
    <3>1. PICK q \in DOMAIN ws.dns.by_key : id = ws.dns.by_key[q].token
      BY <1>1, <2>2, Holders, ZenonT(30)
    <3>2. ws.table.nat.forward[id] = [original |-> SelectedFlow(q), port |-> ws.dns.by_key[q].port]
      BY <1>1, <3>1, Zenon DEF WsInv, DnsConsistent
    <3>3. IsBinding(ws.table.nat.forward[id], SelectedFlow(q), ws.dns.by_key[q].port)
      BY <3>2, Zenon DEF IsBinding
    <3>4. ws.table.nat.forward[id].original = SelectedFlow(q) BY <3>3, BindingFields, Zenon
    <3> QED BY <3>4 DEF SelectedFlow, Protocols
  <2> QED BY <2>1, <2>2, Zenon
<1> QED BY <1>2, Zenon DEF TupleOf, BindingKey, ReverseKey

LEMMA NetStays ==
  ASSUME StateInv, NetInv, [Next]_vars
  PROVE  NetInv'
<1> DEFINE Safe(p, all, time) ==
             /\ Timely(p, time)
             /\ \E v \in Workers : p.key.port \in Share(v) /\ Reserved(all[v], p, time)
<1>1. now \in Nat /\ \A p \in net : Safe(p, workers, now) BY Zenon DEF NetInv
<1>2. SUFFICES now' \in Nat /\ \A p \in net' : Safe(p, workers', now')
  BY Zenon DEF NetInv
<1>3. CASE UNCHANGED <<now, net>>
  <2>1. CASE Stays BY <1>1, <1>3, <2>1, ZenonT(30) DEF Stays
  <2>2. ASSUME NEW w \in Workers, ~Stays, Progress(w), NEW p \in net
        PROVE  Safe(p, workers', now)
    <3>1. PICK u, gone, new : Moves(w, u, gone, new) BY <2>2, Zenon DEF Progress
    <3>2. /\ workers'[w] = u /\ \A v \in Workers \ {w} : workers'[v] = workers[v]
          /\ WorkerEffect(workers[w], u, gone, new, now)
      BY <3>1, MovesFacts, ZenonT(30)
    <3>3. WsInv(w, workers[w]) BY StateFacts, ZenonT(30)
    <3>4. Timely(p, now) BY <1>1, Zenon
    <3>5. PICK v \in Workers : p.key.port \in Share(v) /\ Reserved(workers[v], p, now)
      BY <1>1, Zenon
    <3>6. Reserved(workers'[v], p, now)
      <4>1. CASE v = w BY <1>1, <3>2, <3>3, <3>4, <3>5, <4>1, ReservedStays, ZenonT(30)
      <4>2. CASE v # w BY <3>2, <3>5, <4>2, ZenonT(30)
      <4> QED BY <4>1, <4>2, ZenonT(30)
    <3> QED BY <3>4, <3>5, <3>6, ZenonT(30)
  <2> QED BY <1>1, <1>3, <2>1, <2>2, NextProgress, ZenonT(30)
<1>4. ASSUME UNCHANGED workers, Elapses
      PROVE  now' \in Nat /\ \A p \in net' : Safe(p, workers, now')
  <2>1. CASE now' = now + 1 /\ net' = net
    <3>1. ASSUME NEW p \in net PROVE Safe(p, workers, now + 1)
      <4>1. Safe(p, workers, now) BY <1>1, Zenon
      <4>2. p.at \in Nat /\ p.at <= now /\ ReuseQuarantine[p.key.proto] \in Nat
        BY <4>1, QuarantineAssumption, ZenonT(30) DEF Timely
      <4>3. \A ws : Reserved(ws, p, now) => Reserved(ws, p, now + 1)
        BY <1>1, <4>2 DEF Reserved
      <4>4. Timely(p, now + 1) BY <1>1, <4>1 DEF Timely
      <4> QED BY <4>1, <4>3, <4>4, ZenonT(30)
    <3> QED BY <1>1, <2>1, <3>1
  <2>2. CASE now' = now /\ net' \subseteq net BY <1>1, <2>2, Zenon
  <2>3. ASSUME NEW w \in Workers, NEW id \in DOMAIN workers[w].table.nat.forward, now' = now,
               net' = net \cup {[key |-> TupleOf(w, id), for |-> MeantFor(workers[w], id),
                                 at |-> now]}
        PROVE  now' \in Nat /\ \A p \in net' : Safe(p, workers, now')
    <3> DEFINE p == [key |-> TupleOf(w, id), for |-> MeantFor(workers[w], id), at |-> now]
    <3>1. p.key = TupleOf(w, id) /\ p.for = MeantFor(workers[w], id) /\ p.at = now BY Zenon
    <3>2. net' = net \cup {p} BY <2>3, Zenon
    <3> HIDE DEF p
    <3>3. WsInv(w, workers[w]) BY StateFacts, Zenon
    <3>4. Timely(p, now) BY <1>1, <3>1, BoundProtocol DEF Timely
    <3>5. p.key.port \in Share(w) BY <3>1, <3>3, BoundPort, ZenonT(30) DEF TupleOf
    <3>6. Holds(workers[w], p, id) BY <3>1, <3>3, MeantForIsMeant, ZenonT(30) DEF Holds, TupleOf
    <3>7. Safe(p, workers, now) BY <3>4, <3>5, <3>6, ZenonT(30) DEF Reserved
    <3> QED BY <1>1, <2>3, <3>2, <3>7, ZenonT(30)
  <2> QED BY <1>4, <2>1, <2>2, <2>3, ZenonT(30) DEF Elapses
<1> QED BY <1>3, <1>4, NextElapses, ZenonT(30)

LEMMA QueriesStay ==
  ASSUME StateInv, NetInv, QueryInv, [Next]_vars
  PROVE  QueryInv'
<1>1. DOMAIN inbox = Workers /\ \A v \in Workers : IsSeq(inbox[v])
  BY Zenon DEF StateInv, WorkersInv, SessionsInv
<1>2. \A v \in Workers : \A m \in Msgs(inbox'[v]) : m.kind = "query" => m.query \in Queries
  <2>1. \A v \in Workers : \A m \in Msgs(inbox[v]) : m.kind = "query" => m.query \in Queries
    BY Zenon DEF QueryInv
  <2>2. CASE UNCHANGED inbox BY <2>1, <2>2, Zenon
  <2>3. ASSUME NEW w \in Workers, inbox[w] # <<>>, inbox' = [inbox EXCEPT ![w] = Tail(inbox[w])]
        PROVE  <1>2
    BY <1>1, <2>1, <2>3, HeadTail, ZenonT(30)
  <2>4. ASSUME NEW w \in Workers, NEW m, inbox' = [inbox EXCEPT ![w] = Append(inbox[w], m)],
               Sent(w, m)
        PROVE  <1>2
    <3>1. m.kind = "query" => m.query \in Queries BY <2>4 DEF Sent
    <3> QED BY <1>1, <2>1, <2>4, <3>1, Appended, SMTT(30)
  <2> QED BY <2>2, <2>3, <2>4, NextInbox, ZenonT(30) DEF InboxStep
<1>3. ASSUME NEW w \in Workers, NEW q \in DOMAIN workers'[w].dns.by_key
      PROVE  /\ q \in Queries
             /\ workers'[w].dns.by_key[q].expires_at \in Nat
             /\ workers'[w].dns.by_key[q].expires_at <= now' + DnsTimeout
  <2>1. now \in Nat /\ now' \in Nat /\ now <= now'
    <3>1. now \in Nat /\ (now' = now \/ now' = now + 1) BY NextElapses, Zenon DEF NetInv, Elapses
    <3> QED BY <3>1
  <2>2. DnsTimeout \in Nat BY DnsAssumption, Zenon
  <2>3. Dates(workers[w].dns, workers'[w].dns) BY DatesStep, Zenon DEF AllDates
  <2>4. CASE /\ q \in DOMAIN workers[w].dns.by_key
             /\ workers'[w].dns.by_key[q] = workers[w].dns.by_key[q]
    <3>1. /\ q \in Queries /\ workers[w].dns.by_key[q].expires_at \in Nat
          /\ workers[w].dns.by_key[q].expires_at <= now + DnsTimeout
      BY <2>4, Zenon DEF QueryInv
    <3> QED BY <2>1, <2>2, <2>4, <3>1
  <2>5. CASE q \in Queries /\ workers'[w].dns.by_key[q].expires_at = now + DnsTimeout
    <3>1. now + DnsTimeout \in Nat /\ now + DnsTimeout <= now' + DnsTimeout
      <4>1. \A a, b, c \in Nat : a <= b => a + c \in Nat /\ a + c <= b + c OBVIOUS
      <4> QED BY <2>1, <2>2, <4>1, Zenon
    <3> QED BY <2>5, <3>1, Zenon
  <2> QED BY <1>3, <2>3, <2>4, <2>5, Zenon DEF Dates
<1> QED BY <1>2, <1>3, Zenon DEF QueryInv

(* The answer that a remote end sends is for the holder of its tuple. *)
LEMMA AnswerSucceeded ==
  ASSUME StateInv, QueryInv, NEW w \in Workers, NEW id \in DOMAIN workers[w].table.nat.forward,
         NEW p, p.key = TupleOf(w, id), p.for = MeantFor(workers[w], id)
  PROVE  (p.for \in Queries \/ OfFlow(p)) /\ \A v \in Workers : Succeeded(workers[v], p)
<1>1. \A v \in Workers : WsInv(v, workers[v]) BY StateFacts, Zenon
<1>2. Holds(workers[w], p, id) BY <1>1, MeantForIsMeant, Zenon DEF Holds, TupleOf
<1>3. p.key.port \in Share(w) BY <1>1, BoundPort, ZenonT(30) DEF TupleOf
<1>4. ASSUME NEW v \in Workers, NEW q \in DOMAIN workers[v].dns.by_key,
             KeyOfTransaction(workers[v].dns.by_key[q]) = p.key
      PROVE  q = p.for
  <2>1. p.key.port \in Share(v) /\ \A n : Holds(workers[v], p, n) => q = p.for
    BY <1>1, <1>4, QueryIsMeant, Zenon
  <2>2. v = w BY <1>3, <2>1, OneShare, Zenon
  <2> QED BY <1>2, <2>1, <2>2, Zenon
<1>5. CASE id \in DOMAIN workers[w].table.sessions
  <2> DEFINE ws == workers[w]
  <2>1. ws.table.sessions[id].original \in Flows BY <1>5, StateFacts, Zenon DEF SessionsGood
  <2>2. BindingKey(ws.table.nat.forward[id]) = p.key BY Zenon DEF TupleOf
  <2>3. WsInv(w, ws) BY <1>1, Zenon
  <2>4. id \in DOMAIN ws.table.sessions BY <1>5, Zenon
  <2> HIDE DEF ws
  <2>5. ReverseKey(ws.table.sessions[id].original, p.key.port) = p.key
    BY <2>2, <2>3, <2>4, SessionTuple, Zenon
  <2> QED BY <1>4, <2>1, <2>5, Zenon DEF OfFlow, Succeeded
<1>6. CASE id \notin DOMAIN workers[w].table.sessions
  <2>1. p.for \in DOMAIN workers[w].dns.by_key BY <1>2, <1>6, Zenon DEF Holds, Meant
  <2> QED BY <1>4, <2>1, Zenon DEF QueryInv, Succeeded
<1> QED BY <1>5, <1>6, Zenon

LEMMA SuccessionStays ==
  ASSUME StateInv, StateInv', NetInv, NetInv', QueryInv, SuccessionInv, [Next]_vars
  PROVE  SuccessionInv'
<1>1. \A p \in net : (p.for \in Queries \/ OfFlow(p)) /\ \A v \in Workers : Succeeded(workers[v], p)
  BY Zenon DEF SuccessionInv
<1>2. SUFFICES \A p \in net' : /\ p.for \in Queries \/ OfFlow(p)
                             /\ \A v \in Workers : Succeeded(workers'[v], p)
  BY Zenon DEF SuccessionInv, Succeeded, OfFlow
<1>3. CASE UNCHANGED <<now, net>>
  <2>1. ASSUME NEW p \in net, NEW w \in Workers, NEW q \in DOMAIN workers'[w].dns.by_key,
               KeyOfTransaction(workers'[w].dns.by_key[q]) = p.key
        PROVE  q = p.for \/ Late(workers'[w].dns.by_key[q], p)
    <3>1. CASE /\ q \in DOMAIN workers[w].dns.by_key
               /\ workers'[w].dns.by_key[q] = workers[w].dns.by_key[q]
      BY <1>1, <2>1, <3>1, Zenon DEF Succeeded
    <3>2. CASE workers'[w].dns.by_key[q].expires_at = now + DnsTimeout
      <4>1. now \in Nat /\ p.at \in Nat /\ ReuseQuarantine[p.key.proto] \in Nat /\ DnsTimeout \in Nat
        BY QuarantineAssumption, DnsAssumption, Zenon DEF NetInv, Timely
      <4>2. CASE now - p.at < ReuseQuarantine[p.key.proto]
        <5>1. WsInv(w, workers'[w]) BY Zenon DEF StateInv, WorkersInv
        <5>2. PICK v \in Workers : p.key.port \in Share(v) /\ Reserved(workers'[v], p, now)
          BY <1>3, <2>1, Zenon DEF NetInv
        <5>3. /\ ~Withheld(workers'[w], p) /\ p.key.port \in Share(w)
              /\ \A n : Holds(workers'[w], p, n) => q = p.for
          BY <2>1, <5>1, QueryIsMeant, Zenon
        <5>4. v = w BY <5>2, <5>3, OneShare, Zenon
        <5> QED BY <4>2, <5>2, <5>3, <5>4, Zenon DEF Reserved
      <4>3. CASE ~(now - p.at < ReuseQuarantine[p.key.proto])
        BY <3>2, <4>1, <4>3 DEF Late
      <4> QED BY <4>2, <4>3, Zenon
    <3>3. Dates(workers[w].dns, workers'[w].dns) BY DatesStep, Zenon DEF AllDates
    <3> QED BY <2>1, <3>1, <3>2, <3>3, Zenon DEF Dates
  <2> QED BY <1>1, <1>3, <2>1, Zenon DEF Succeeded
<1>4. ASSUME UNCHANGED workers, Elapses, NEW p \in net'
      PROVE  (p.for \in Queries \/ OfFlow(p)) /\ \A v \in Workers : Succeeded(workers[v], p)
  <2>1. CASE p \in net BY <1>1, <2>1, Zenon
  <2>2. CASE p \notin net
    <3>1. PICK w \in Workers : \E id \in DOMAIN workers[w].table.nat.forward :
            p = [key |-> TupleOf(w, id), for |-> MeantFor(workers[w], id), at |-> now]
      BY <1>4, <2>2, Zenon DEF Elapses
    <3>2. PICK id \in DOMAIN workers[w].table.nat.forward :
            p = [key |-> TupleOf(w, id), for |-> MeantFor(workers[w], id), at |-> now]
      BY <3>1, Zenon
    <3>3. p.key = TupleOf(w, id) /\ p.for = MeantFor(workers[w], id) BY <3>2, Zenon
    <3> QED BY <3>3, AnswerSucceeded, Zenon
  <2> QED BY <2>1, <2>2, Zenon
<1> QED BY <1>3, <1>4, NextElapses, ZenonT(30)

(* A delivery that NoMisdelivery allows. *)
Allowed(m) == m.late /\ {m.for, m.to} \subseteq Queries /\ m.for.ask = m.to.ask
DeliversRight == \A m \in misdelivered' : m \in misdelivered \/ Allowed(m)

LEMMA RightfullyGiven ==
  ASSUME NEW p, NEW tr, NEW q \in Queries, tr.query = q, Lawful(q, tr, p), ResponseMatches(p, q),
         NEW m \in GivenTo(p, tr)
  PROVE  Allowed(m)
<1>1. q # p.for BY Zenon DEF GivenTo, Misdelivery
<1>2. p.for \in Queries /\ Late(tr, p) /\ p.for.ask = q.ask
  BY <1>1, Zenon DEF Lawful, ResponseMatches
<1>3. m = [for |-> p.for, to |-> q, late |-> Late(tr, p)]
  BY Zenon DEF GivenTo, Misdelivery, Late
<1>4. m.for = p.for /\ m.to = q /\ m.late = Late(tr, p) BY <1>3, Zenon
<1> QED BY <1>2, <1>4, Zenon DEF Allowed

(* No step delivers an answer to another than the one it is meant for,     *)
(* unless that one is allowed to be given it.                              *)
LEMMA DeliveredRight ==
  ASSUME StateInv, DeliveryInv, [Next]_vars
  PROVE  DeliversRight
<1>0. ASSUME misdelivered' = misdelivered PROVE DeliversRight BY <1>0, Zenon DEF DeliversRight
<1>1. ASSUME NEW w \in Workers, NEW p, DnsResponse(w, p), p.key \in DOMAIN workers[w].dns.by_reverse,
             \A q \in DOMAIN workers[w].dns.by_key :
               q = workers[w].dns.by_reverse[p.key] => Lawful(q, workers[w].dns.by_key[q], p)
      PROVE  DeliversRight
  <2> DEFINE q  == workers[w].dns.by_reverse[p.key]
             tr == workers[w].dns.by_key[q]
  <2>1. q \in DOMAIN workers[w].dns.by_key /\ tr.query = q
    <3>1. DnsConsistent(workers[w]) BY StateFacts, Zenon DEF WsInv
    <3> QED BY <1>1, <3>1, Zenon DEF DnsConsistent
  <2>2. q \in Queries /\ Lawful(q, tr, p) BY <1>1, <2>1, Zenon DEF DeliveryInv, QueryInv
  <2>3. \/ misdelivered' = misdelivered
        \/ ResponseMatches(p, q) /\ misdelivered' = misdelivered \cup GivenTo(p, tr)
    BY <1>1, Zenon DEF DnsResponse
  <2> HIDE DEF q, tr
  <2>4. ASSUME ResponseMatches(p, q), NEW m \in GivenTo(p, tr) PROVE Allowed(m)
    BY <2>1, <2>2, <2>4, RightfullyGiven, Zenon
  <2> QED BY <2>3, <2>4, Zenon DEF DeliversRight
<1>2. ASSUME NEW w, NEW p, NEW expected, NEW observed, NEW flag,
             ReverseFor(w, p, expected, observed, flag),
             expected \in ReverseLocator(workers[w].table, w, p.key) =>
               workers[w].table.sessions[expected.session_id].original = p.for
      PROVE  DeliversRight
  BY <1>0, <1>2, Zenon DEF ReverseFor, Deliver, Misdelivery
<1>3. ASSUME NEW w \in Workers, Return(w) PROVE DeliversRight
  <2> DEFINE m == Head(inbox[w])
  <2>1. m \in Msgs(inbox[w]) /\ m.kind = "return" BY <1>3, HeadOfInbox, Zenon DEF Return
  <2>2. Due(workers[w], m) BY <2>1, Zenon DEF DeliveryInv, InboxInv
  <2>3. m.locator \in ReverseLocator(workers[w].table, w, m.packet.key) =>
          workers[w].table.sessions[m.locator.session_id].original = m.packet.for
    BY <2>2, Zenon DEF Due, ReverseLocator
  <2>4. \/ /\ DnsResponse(w, m.packet)
           /\ DnsReverseMatches(workers[w], w, m.packet.key, m.locator)
        \/ \E observed : ReverseFor(w, m.packet, m.locator, observed, m.flag)
    BY <1>3, Zenon DEF Return
  <2> HIDE DEF m
  <2>5. CASE /\ DnsResponse(w, m.packet)
             /\ DnsReverseMatches(workers[w], w, m.packet.key, m.locator)
    <3>1. /\ m.packet.key \in DOMAIN workers[w].dns.by_reverse
          /\ \A q \in DOMAIN workers[w].dns.by_key :
               q = workers[w].dns.by_reverse[m.packet.key] =>
                 Lawful(q, workers[w].dns.by_key[q], m.packet)
      BY <2>2, <2>5, Zenon DEF DnsReverseMatches, Due
    <3> QED BY <1>1, <2>5, <3>1, Zenon
  <2> QED BY <1>2, <2>3, <2>4, <2>5, ZenonT(30)
<1>4. ASSUME NEW w \in Workers, NEW p \in net, NEW flag, ClientInner(w, p, flag)
      PROVE  DeliversRight
  <2> DEFINE locator == workers[w].table.nat.reverse[p.key]
  <2>1. \/ DnsResponse(w, p) /\ p.key \in DOMAIN workers[w].dns.by_reverse
        \/ ReverseFor(w, p, locator, {}, flag)
    BY <1>4, Zenon DEF ClientInner
  <2>2. InTime(p) /\ p.key \in DOMAIN workers[w].table.nat.reverse
    BY <1>4, Zenon DEF ClientInner, HasReverse
  <2>3. WsInv(w, workers[w]) BY StateFacts
  <2>4. TupleOf(w, locator.session_id) = p.key
    BY <2>2, <2>3, ZenonT(30)
       DEF TupleOf, WsInv, TableInv, TableConsistent, NatConsistent, ReverseMatchesForward
  <2> HIDE DEF locator
  <2>5. locator \in ReverseLocator(workers[w].table, w, p.key) =>
          locator.session_id \in DOMAIN workers[w].table.sessions
    BY Zenon DEF ReverseLocator
  <2>6. locator \in ReverseLocator(workers[w].table, w, p.key) =>
          workers[w].table.sessions[locator.session_id].original = p.for
    BY <2>2, <2>4, <2>5, HolderIsMeant, Zenon DEF DeliveryInv
  <2>7. CASE DnsResponse(w, p) /\ p.key \in DOMAIN workers[w].dns.by_reverse
    <3>1. ASSUME NEW q \in DOMAIN workers[w].dns.by_key, q = workers[w].dns.by_reverse[p.key]
          PROVE  Lawful(q, workers[w].dns.by_key[q], p)
      <4>1. KeyOfTransaction(workers[w].dns.by_key[q]) = p.key
        BY <2>3, <2>7, <3>1, Zenon DEF WsInv, DnsConsistent
      <4> QED BY <2>2, <4>1, HolderIsLawful, Zenon DEF DeliveryInv
    <3> QED BY <1>1, <2>7, <3>1, Zenon
  <2> QED BY <1>2, <2>1, <2>6, <2>7, ZenonT(30)
<1>5. ASSUME NEW w \in Workers, FlowStep(w) PROVE DeliversRight
  BY <1>0, <1>3, <1>4, <1>5, ZenonT(30) DEF FlowStep, ServerInner, ClientIntercept, RetireSession,
     ClientQuery,
     ExpireIdle, ExpireDns, Authenticated, Closed, history
<1>6. CASE UNCHANGED vars BY <1>0, <1>6, Zenon DEF vars
<1>7. CASE IoStep BY <1>0, <1>7, Zenon DEF IoStep, IoIntercept, IoQuery, IoReturn, history
<1>8. CASE NetStep BY <1>0, <1>8, Zenon DEF NetStep, RemoteReply, Lose, history
<1>9. CASE Tick BY <1>0, <1>9, Zenon DEF Tick, history
<1> QED BY <1>5, <1>6, <1>7, <1>8, <1>9, ZenonT(30) DEF Next

LEMMA DeliveryIsInvariant == Spec => [](StateInv /\ DeliveryInv)
<1>1. Init => DeliveryInv
  <2> SUFFICES ASSUME Init PROVE DeliveryInv BY Zenon
  <2>1. NetInv BY Zenon DEF Init, NetInv
  <2>2. \A w \in Workers : Msgs(inbox[w]) = {}
    <3>1. \A w \in Workers : inbox[w] = <<>> BY DEF Init
    <3>2. Msgs(<<>>) = {} BY DEF Msgs
    <3> QED BY <3>1, <3>2, Zenon
  <2>3. InboxInv BY <2>2, Zenon DEF InboxInv
  <2>4. QueryInv
    <3>1. \A w \in Workers : DOMAIN workers[w].dns.by_key = {}
      BY DEF Init, NewDns, EmptyMap
    <3> QED BY <2>2, <3>1, Zenon DEF QueryInv
  <2>5. SuccessionInv BY Zenon DEF Init, SuccessionInv
  <2>6. NoMisdelivery BY Zenon DEF Init, NoMisdelivery
  <2> QED BY <2>1, <2>3, <2>4, <2>5, <2>6, ZenonT(30) DEF DeliveryInv
<1>2. StateInv /\ DeliveryInv /\ [Next]_vars => StateInv' /\ DeliveryInv'
  <2> SUFFICES ASSUME StateInv, DeliveryInv, [Next]_vars PROVE StateInv' /\ DeliveryInv' BY Zenon
  <2>1. NetInv /\ QueryInv /\ SuccessionInv /\ InboxInv /\ NoMisdelivery BY Zenon DEF DeliveryInv
  <2>2. StateInv' BY StateStep, Zenon
  <2>3. NetInv' /\ QueryInv' /\ InboxInv' BY <2>1, NetStays, QueriesStay, InboxStays, Zenon
  <2>4. SuccessionInv' BY <2>1, <2>2, <2>3, SuccessionStays, Zenon
  <2>5. NoMisdelivery' BY <2>1, DeliveredRight, Zenon DEF NoMisdelivery, DeliversRight, Allowed
  <2> QED BY <2>2, <2>3, <2>4, <2>5, Zenon DEF DeliveryInv
<1> QED BY <1>1, <1>2, StateInit, PTL DEF Spec

(* handle_reverse_for_inner hands a return packet to the session it        *)
(* answers, and to no other, whoever took its NAT tuple over while it was  *)
(* in the network (the quarantine of remove_at) or in a channel (the       *)
(* locator that handle_frame sends with it).  handle_dns_response hands an *)
(* answer to the query it is for, or, when the answer took longer than the *)
(* quarantine, to a later query of its tuple with the same DNS id and      *)
(* question (response_matches_query).                                      *)
THEOREM NothingIsMisdelivered == Spec => []NoMisdelivery
<1>1. StateInv /\ DeliveryInv => NoMisdelivery BY DEF DeliveryInv
<1> QED BY <1>1, DeliveryIsInvariant, PTL

=============================================================================
