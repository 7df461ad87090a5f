------------------------------ MODULE QuicLane ------------------------------
(***************************************************************************)
(* The QUIC lane of one Flow worker: QuicEngine (src/src/quic_engine.rs)   *)
(* with its active and candidate connections and its queue of events, and  *)
(* flow_loop and drain_engine (src/src/xdp_datapath/runtime.rs), which     *)
(* apply the events to the ActiveDcidIndex, to the lane's QuicFlow and to  *)
(* the packets that wait for an authenticated connection.                  *)
(*                                                                         *)
(* Every DCID of a lane hashes to its worker (WorkerConnectionIdGenerator, *)
(* bootstrap_owner), so lanes share the index but no key of it, and one    *)
(* lane stands for all.  quinn-proto is external: a packet or a timer has  *)
(* one of the outcomes that drive_connection can return.                   *)
(***************************************************************************)
EXTENDS DcidIndex, Sequences, FiniteSets

CONSTANTS
  Roles,             \* the roles to check: "client", "server" or both
  Dcids,             \* connection IDs
  None,              \* no connection
  Order,             \* in which the members of each set of connection IDs are visited
  FlowWorkerCount,   \* distance between two flow ids of one lane
  MaxTrackedDcids,   \* MAX_TRACKED_DCIDS, 32 in the code
  PendingCapacity,   \* of pending_inner, 1024 in the code
  MaxConnections,    \* bound: connections made
  MaxEpochs          \* bound: reconnects requested by SIGHUP

(* A connection, as far as the lane is concerned. *)
Connections ==
  [initial : SUBSET Dcids, dcids : SUBSET Dcids, authenticated : BOOLEAN,
   dead : BOOLEAN, dcid_limit_exceeded : BOOLEAN]

(* s has the members of S, each of them once. *)
Lists(s, S) ==
  /\ s \in Seq(S) /\ \A d \in S : \E k \in 1..Len(s) : s[k] = d
  /\ \A j, k \in 1..Len(s) : s[j] = s[k] => j = k

ASSUME LaneAssumption ==
  /\ Roles \subseteq {"client", "server"} /\ None \notin Connections
  /\ \A S \in SUBSET Dcids : Lists(Order[S], S)
  /\ FlowWorkerCount \in Nat \ {0} /\ MaxTrackedDcids \in Nat \ {0}
  /\ PendingCapacity \in Nat /\ MaxConnections \in Nat /\ MaxEpochs \in Nat

VARIABLES
  engine,     \* QuicEngine: role, connection, candidate, published, promotion, events
  index,      \* ActiveDcidIndex
  quic_flow,  \* id of the lane's QuicFlow
  pending,    \* packets in pending_inner
  phase,      \* flow_loop: "top", "handle", "drain", "last" (drain) or "end"
  epochs,     \* reconnects requested so far
  made,       \* connections made so far
  exit,       \* EXIT_REQUESTED
  interrupted \* history: the last candidate to authenticate was lost before
              \* its Replaced event was handled

lane_vars == <<engine, index, quic_flow, pending, phase, epochs, made, exit, interrupted>>

Owner == [flow_worker_id |-> 0, quic_flow_id |-> quic_flow]

-----------------------------------------------------------------------------
(* The engine. *)

(* The DCID of a server connection's first packet is the client's choice:  *)
(* it is tracked but not staged.                                           *)
Connection(initial, dcids) ==
  [initial |-> initial, dcids |-> dcids, authenticated |-> FALSE,
   dead |-> FALSE, dcid_limit_exceeded |-> FALSE]

DcidsOf(c) == IF c = None THEN {} ELSE c.dcids

Emit(e, kind, dcids) ==
  [e EXCEPT !.events = Append(@, [kind |-> kind, dcids |-> dcids])]
EmitEach(e, kind, dcids) ==
  [e EXCEPT !.events = @ \o [k \in 1..Len(Order[dcids]) |->
                               [kind |-> kind, dcids |-> {Order[dcids][k]}]]]

(* track_dcid. *)
Tracked(c, dcid) ==
  IF dcid \in c.dcids THEN c
  ELSE IF Cardinality(c.dcids) >= MaxTrackedDcids THEN [c EXCEPT !.dcid_limit_exceeded = TRUE]
  ELSE [c EXCEPT !.dcids = @ \cup {dcid}]

(* publish_dcid, for each of a set. *)
Publish(e, dcids) ==
  [EmitEach(e, "DcidPublished", dcids \ e.published) EXCEPT !.published = @ \cup dcids]

(* stage_dcids_for_handle, for at most one generated DCID; slot is         *)
(* "connection" or "candidate".                                            *)
Stage(e, slot, dcids) ==
  LET c == IF dcids = {} THEN e[slot] ELSE Tracked(e[slot], CHOOSE d \in dcids : TRUE)
      f == [e EXCEPT ![slot] = c]
  IN  IF c.dcid_limit_exceeded THEN f
      ELSE IF c.authenticated THEN Publish(f, dcids) ELSE EmitEach(f, "DcidStaged", dcids)

(* retire_all_dcids, with Closed after it (close, and drive on a loss). *)
CloseBoth(e) ==
  Emit([EmitEach(e, "DcidRetired", e.published)
          EXCEPT !.published = {}, !.connection = None, !.candidate = None], "Closed", {})

(* Variant: the candidate's staged DCIDs stay in the index. *)
DropCandidateSilently(e) == [e EXCEPT !.candidate = None]

(* The candidate is disposed of, retire_staged_dcids first. *)
DropCandidate(e) ==
  [EmitEach(e, "DcidRetired", DcidsOf(e.candidate) \ e.published) EXCEPT !.candidate = None]

(* promote_candidate. *)
PromoteCandidate(e) ==
  IF e.connection # None
  THEN Emit([e EXCEPT !.promotion = TRUE], "Replaced", e.candidate.dcids)
  ELSE Emit(Publish([e EXCEPT !.connection = e.candidate, !.candidate = None],
                    e.candidate.dcids), "Authenticated", {})

(* resolve_candidate_replacement and commit_candidate_replacement. *)
ResolveReplacement(e, published) ==
  LET f == [e EXCEPT !.promotion = FALSE]
      g == EmitEach([f EXCEPT !.connection = e.candidate, !.candidate = None],
                    "DcidRetired", e.published \ DcidsOf(e.candidate))
  IN  IF ~e.promotion THEN e
      ELSE IF e.candidate = None THEN f
      ELSE IF published
           THEN Emit([g EXCEPT !.published = e.candidate.dcids], "Authenticated", {})
           ELSE DropCandidate(f)

(* What drive_connection reports of one connection. *)
Outcome(auth, lost, dead, dcids) == [auth |-> auth, lost |-> lost, dead |-> dead, dcids |-> dcids]
Quiet == Outcome(FALSE, FALSE, FALSE, {})

Driven(c, o) ==
  IF c = None THEN None
  ELSE [c EXCEPT !.authenticated = @ \/ o.auth, !.dead = @ \/ o.dead]

(* Variant: the loss of the active connection is not noticed. *)
DriveIgnoresLoss(e, oa, oc) ==
  LET a  == [e EXCEPT !.connection = Driven(@, oa), !.candidate = Driven(@, oc)]
      b  == IF a.connection = None THEN a ELSE Stage(a, "connection", oa.dcids)
      c  == IF b.candidate = None THEN b ELSE Stage(b, "candidate", oc.dcids)
      d  == IF oa.auth THEN Emit(Publish(c, c.connection.dcids), "Authenticated", {}) ELSE c
  IN  IF oc.auth THEN PromoteCandidate(d)
      ELSE IF e.candidate # None /\ oc.lost THEN DropCandidate(d) ELSE d

(* drive, with the outcome of the active connection and the candidate's. *)
Drive(e, oa, oc) ==
  LET a  == [e EXCEPT !.connection = Driven(@, oa), !.candidate = Driven(@, oc)]
      b  == IF a.connection = None THEN a ELSE Stage(a, "connection", oa.dcids)
      c  == IF b.candidate = None THEN b ELSE Stage(b, "candidate", oc.dcids)
      active_lost    == e.connection # None /\ (oa.lost \/ e.connection.dcid_limit_exceeded)
      candidate_lost == e.candidate # None /\ (oc.lost \/ e.candidate.dcid_limit_exceeded)
      d  == IF oa.auth THEN Emit(Publish(c, c.connection.dcids), "Authenticated", {}) ELSE c
      f  == IF oc.auth THEN PromoteCandidate(d)
            ELSE IF candidate_lost THEN DropCandidate(d) ELSE d
  IN  IF active_lost /\ ~oc.auth THEN CloseBoth(DropCandidate(f)) ELSE f

(* close: the candidate's staged DCIDs are left to Closed's close_flow. *)
Close(e) == CloseBoth(e)

IsAuthenticated(e) == e.connection # None /\ e.connection.authenticated

-----------------------------------------------------------------------------
(* What can happen to a connection while no packet arrives: the transport  *)
(* times out, or authentication does.                                      *)
Timers(c) ==
  {Quiet} \cup
  (IF c = None \/ c.dead THEN {} ELSE {Outcome(FALSE, TRUE, TRUE, {})}) \cup
  (IF c = None \/ c.authenticated THEN {} ELSE {Outcome(FALSE, TRUE, FALSE, {})})

(* DCIDs the generator may draw: random, so never one that is in use. *)
InUse(e) == DcidsOf(e.connection) \cup DcidsOf(e.candidate) \cup e.published
            \cup (UNION {e.events[k].dcids : k \in DOMAIN e.events})
            \cup DOMAIN index.by_dcid \cup DOMAIN index.staged_by_dcid
Fresh(e) == Dcids \ InUse(e)

(* What a packet can do to the connection it belongs to: nothing here,     *)
(* complete the authentication, end the connection, break the rules of the *)
(* authentication stream or retire a DCID too late, or have DCIDs          *)
(* generated.  A server completes the authentication by a write, which a   *)
(* closed transport refuses; a client by a read.                           *)
Packets(e, c) ==
  IF c = None \/ c.dead THEN {}
  ELSE {Quiet, Outcome(FALSE, TRUE, TRUE, {}), Outcome(FALSE, TRUE, FALSE, {})}
       \cup {Outcome(FALSE, FALSE, FALSE, {d}) : d \in Fresh(e)}
       \cup (IF c.authenticated THEN {}
             ELSE {Outcome(TRUE, FALSE, FALSE, {}), Outcome(TRUE, TRUE, e.role = "client", {})}
                  \cup {Outcome(TRUE, FALSE, FALSE, {d}) : d \in Fresh(e)})

-----------------------------------------------------------------------------
(* client_for_worker: a connection with a first generated DCID, staged.    *)
NewClientEngine(d) ==
  [role |-> "client", connection |-> Connection({}, {d}), candidate |-> None,
   published |-> {}, promotion |-> FALSE,
   events |-> <<[kind |-> "DcidStaged", dcids |-> {d}]>>]

NewServerEngine ==
  [role |-> "server", connection |-> None, candidate |-> None,
   published |-> {}, promotion |-> FALSE, events |-> <<>>]

LaneInit ==
  /\ \/ "client" \in Roles /\ made = 1 /\ \E d \in Dcids : engine = NewClientEngine(d)
     \/ "server" \in Roles /\ made = 0 /\ engine = NewServerEngine
  /\ index = NewIndex /\ quic_flow = 0 /\ pending = 0
  /\ phase = "top" /\ epochs = 0 /\ exit = FALSE /\ interrupted = FALSE

(* flow_loop: the epoch changed; pending_inner is cleared, the engine      *)
(* closed, and a message is handled before the events are.                 *)
Reconnect ==
  /\ phase = "top" /\ ~exit /\ epochs < MaxEpochs
  /\ epochs' = epochs + 1 /\ pending' = 0
  /\ engine' = Close(engine) /\ phase' = "handle"
  /\ UNCHANGED <<index, quic_flow, made, exit, interrupted>>

Receiving == phase = "handle" \/ (phase = "top" /\ ~exit)

(* handle_outer, a packet of a connection that exists. *)
OuterPacket ==
  /\ Receiving
  /\ \/ \E oa \in Packets(engine, engine.connection), oc \in Timers(engine.candidate) :
          engine' = Drive(engine, oa, oc)
     \/ \E oa \in Timers(engine.connection), oc \in Packets(engine, engine.candidate) :
          engine' = Drive(engine, oa, oc)
  /\ phase' = "drain"
  /\ UNCHANGED <<index, quic_flow, pending, epochs, made, exit, interrupted>>

(* Variant: the first connection is active before it authenticates. *)
AcceptAsActive(e, initial, generated) ==
  LET slot == IF e.connection = None THEN "connection" ELSE "candidate"
  IN  IF e[slot] # None THEN e
      ELSE Stage([e EXCEPT ![slot] = Connection({initial}, {initial})], slot, {generated})

(* A new connection becomes the candidate, or is refused as there is one. *)
Accept(e, initial, generated) ==
  IF e.candidate # None THEN e
  ELSE Stage([e EXCEPT !.candidate = Connection({initial}, {initial})], "candidate", {generated})

(* handle_outer, the first packet of a connection. *)
OuterInitial ==
  /\ Receiving /\ engine.role = "server" /\ made < MaxConnections
  /\ \E initial \in Fresh(engine) : \E generated \in Fresh(engine) \ {initial} :
       LET e == Accept(engine, initial, generated)
       IN  \E oa \in Timers(e.connection), oc \in Timers(e.candidate) :
             engine' = Drive(e, oa, oc)
  /\ made' = made + 1 /\ phase' = "drain"
  /\ UNCHANGED <<index, quic_flow, pending, epochs, exit, interrupted>>

(* send_or_queue_inner: sent, and the engine driven; or queued, or dropped. *)
SendInner ==
  /\ Receiving
  /\ IF IsAuthenticated(engine)
     THEN /\ \E oa \in Timers(engine.connection), oc \in Timers(engine.candidate) :
               engine' = Drive(engine, oa, oc)
          /\ UNCHANGED pending
     ELSE pending' = (IF pending < PendingCapacity THEN pending + 1 ELSE pending)
          /\ UNCHANGED engine
  /\ phase' = "drain"
  /\ UNCHANGED <<index, quic_flow, epochs, made, exit, interrupted>>

(* recv_timeout: no message. *)
NoMessage ==
  /\ Receiving /\ phase' = "drain"
  /\ UNCHANGED <<engine, index, quic_flow, pending, epochs, made, exit, interrupted>>

(* flow_loop leaves its loop, and closes the engine once more. *)
Leave ==
  /\ phase = "top" /\ exit
  /\ engine' = Close(engine) /\ phase' = "last"
  /\ UNCHANGED <<index, quic_flow, pending, epochs, made, exit, interrupted>>

-----------------------------------------------------------------------------
(* drain_engine, one event; e is the engine just driven, without it.       *)

Draining == phase \in {"drain", "last"}

OnStaged(e, dcids) ==
  /\ IF Acceptable(index, dcids, Owner)
     THEN index' = StageForFlow(index, CHOOSE d \in dcids : TRUE, Owner) /\ engine' = e
     ELSE engine' = Close(e) /\ UNCHANGED index
  /\ UNCHANGED <<quic_flow, pending, made, interrupted>>

OnPublished(e, dcids) ==
  /\ IF Acceptable(index, dcids, Owner)
     THEN index' = PublishForFlow(index, dcids, Owner) /\ engine' = e
     ELSE engine' = Close(e) /\ UNCHANGED index
  /\ UNCHANGED <<quic_flow, pending, made, interrupted>>

OnRetired(e, dcids) ==
  /\ index' = RetireForFlow(index, CHOOSE d \in dcids : TRUE, Owner)
  /\ engine' = e
  /\ UNCHANGED <<quic_flow, pending, made, interrupted>>

OnReplaced(e, dcids) ==
  LET published == Acceptable(index, dcids, Owner)
  IN  /\ index' = IF published THEN PublishForFlow(index, dcids, Owner) ELSE index
      /\ engine' = ResolveReplacement(e, published)
      /\ pending' = IF published THEN 0 ELSE pending
      /\ interrupted' = (e.promotion /\ e.candidate = None)
      /\ UNCHANGED <<quic_flow, made>>

(* Each packet is sent and the engine driven; at a failure the rest waits. *)
OnAuthenticated(e, oa, oc) ==
  LET f == IF pending > 0 /\ IsAuthenticated(e) THEN Drive(e, oa, oc) ELSE e
  IN  /\ engine' = f
      /\ pending' \in IF ~IsAuthenticated(e) THEN {pending}
                      ELSE IF IsAuthenticated(f) THEN {0} ELSE 0..(pending - 1)
      /\ UNCHANGED <<index, quic_flow, made, interrupted>>

(* The flow is closed; the lane goes on under the next flow id, and a      *)
(* client connects again, which may fail.                                  *)
OnClosed(e) ==
  /\ pending' = 0 /\ interrupted' = FALSE
  /\ index' = CloseFlow(index, quic_flow)
  /\ IF exit THEN engine' = e /\ UNCHANGED <<quic_flow, made>>
     ELSE /\ quic_flow' = quic_flow + FlowWorkerCount
          /\ \/ engine' = e /\ UNCHANGED made
             \/ /\ engine.role = "client" /\ made < MaxConnections /\ made' = made + 1
                /\ \E d \in Fresh(e) : engine' = NewClientEngine(d)

OnEvent(e, event) ==
  \/ event.kind = "DcidStaged" /\ OnStaged(e, event.dcids)
  \/ event.kind = "DcidPublished" /\ OnPublished(e, event.dcids)
  \/ event.kind = "DcidRetired" /\ OnRetired(e, event.dcids)
  \/ event.kind = "Replaced" /\ OnReplaced(e, event.dcids)
  \/ event.kind = "Closed" /\ OnClosed(e)
  \/ /\ event.kind = "Authenticated"
     /\ \E oa \in Timers(e.connection), oc \in Timers(e.candidate) : OnAuthenticated(e, oa, oc)

(* poll: the engine is driven, then the first event is taken. *)
Poll(oa, oc) ==
  LET e == Drive(engine, oa, oc)
  IN  /\ Draining
      /\ e.events # <<>>
      /\ OnEvent([e EXCEPT !.events = Tail(@)], Head(e.events))
      /\ UNCHANGED <<phase, epochs, exit>>

PollStep ==
  \E oa \in Timers(engine.connection), oc \in Timers(engine.candidate) : Poll(oa, oc)

(* poll finds no event. *)
Drained ==
  /\ Draining
  /\ \E oa \in Timers(engine.connection), oc \in Timers(engine.candidate) :
       /\ Drive(engine, oa, oc).events = <<>>
       /\ engine' = Drive(engine, oa, oc)
  /\ phase' = IF phase = "last" THEN "end" ELSE "top"
  /\ UNCHANGED <<index, quic_flow, pending, epochs, made, exit, interrupted>>

RequestExit ==
  /\ ~exit /\ exit' = TRUE
  /\ UNCHANGED <<engine, index, quic_flow, pending, phase, epochs, made, interrupted>>

Handle == OuterPacket \/ OuterInitial \/ SendInner \/ NoMessage
LaneStep == Reconnect \/ Handle \/ Leave \/ PollStep \/ Drained
LaneEnds == phase = "end" /\ UNCHANGED lane_vars
LaneNext == LaneStep \/ RequestExit \/ LaneEnds

LaneSpec == LaneInit /\ [][LaneNext]_lane_vars

-----------------------------------------------------------------------------
(* The lane's entries in the index are of its current flow, at every       *)
(* moment, and the three maps of the index agree.  So no staging and no    *)
(* publication is ever refused as a duplicate, however losses, SIGHUP and  *)
(* new connections interleave with the queue of events.                    *)
IndexOfCurrentFlow ==
  /\ IndexConsistent(index)
  /\ \A d \in DOMAIN index.by_dcid \cup DOMAIN index.staged_by_dcid : Resolve(index, d) = Owner

(* The active entries of the index are the ones the engine believes        *)
(* published, and only a connection that has yet to authenticate has       *)
(* staged entries: those of candidates that failed, timed out or were      *)
(* closed are gone.                                                        *)
IndexMatchesEngine ==
  /\ DOMAIN index.by_dcid = engine.published
  /\ \A d \in DOMAIN index.staged_by_dcid :
       \E c \in {engine.connection, engine.candidate} \ {None} :
         ~c.authenticated /\ d \in c.dcids

(* Every DCID a living connection has generated leads packets to its       *)
(* worker, as active ones if it has authenticated.                         *)
LiveConnectionsRoutable ==
  \A c \in {engine.connection, engine.candidate} \ {None} :
    ~c.dcid_limit_exceeded =>
      IF c.authenticated THEN c.dcids \subseteq DOMAIN index.by_dcid
                         ELSE c.dcids \ c.initial \subseteq DOMAIN index.staged_by_dcid

(* Once drain_engine has applied all events, the shared index is exactly   *)
(* what the engine needs, so that a worker that has stopped leaves nothing *)
(* in it, and no packet waits behind an authenticated connection:          *)
(* pending_inner was sent, or cleared with the connection it waited for.   *)
LaneSettled ==
  engine.events = <<>> =>
    /\ IndexMatchesEngine
    /\ LiveConnectionsRoutable
    /\ IsAuthenticated(engine) => pending = 0

(* A candidate that has not authenticated never displaces the active       *)
(* connection, and none of its DCIDs is active.                            *)
CandidateHarmless ==
  /\ engine.role = "server" /\ engine.connection # None => engine.connection.authenticated
  /\ engine.candidate # None /\ ~engine.candidate.authenticated =>
       engine.candidate.dcids \cap DOMAIN index.by_dcid = {}

(* A dead transport does not stay the active connection, and active        *)
(* entries lead to connections that exist.  The one exception is a         *)
(* candidate lost between its Replaced event and the commit: drive has     *)
(* then overlooked a loss of the active connection in its favour, and      *)
(* DCIDs it published itself stay; the next replacement or close mends     *)
(* both.                                                                   *)
NothingDeadIsActive ==
  engine.events = <<>> /\ ~interrupted =>
    /\ engine.connection # None => ~engine.connection.dead
    /\ DOMAIN index.by_dcid \subseteq DcidsOf(engine.connection) \cup DcidsOf(engine.candidate)
=============================================================================
