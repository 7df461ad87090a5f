--------------------------- MODULE QuicLaneProofs ---------------------------
(***************************************************************************)
(* The QUIC lane of a Flow worker, for any connection IDs and any limits,  *)
(* any order in which sets of connection IDs are visited, and any number   *)
(* of connections, losses and reconnects.                                  *)
(***************************************************************************)
EXTENDS QuicLane, TLAPS

-----------------------------------------------------------------------------
(* The queue of events, and what it will have done to the index once it is *)
(* empty.                                                                  *)
Kinds == {"DcidStaged", "DcidPublished", "DcidRetired", "Replaced", "Authenticated", "Closed"}
Single == {"DcidStaged", "DcidPublished", "DcidRetired"}
Publishing == {"DcidPublished", "Replaced"}
Events == [kind : Kinds, dcids : SUBSET Dcids]

Ends(v, d) == v.kind = "Closed" \/ (v.kind = "DcidRetired" /\ d \in v.dcids)
Publishes(v, d) == v.kind \in Publishing /\ d \in v.dcids
Stages(v, d) == v.kind = "DcidStaged" /\ d \in v.dcids

(* From event k on, d stops being active, or being staged. *)
EndsFrom(q, k, d) == \E j \in k..Len(q) : Ends(q[j], d)
LeavesFrom(q, k, d) == \E j \in k..Len(q) : Ends(q[j], d) \/ Publishes(q[j], d)

ActiveAfter(q, by) ==
  {d \in Dcids :
     \/ d \in by /\ ~EndsFrom(q, 1, d)
     \/ \E k \in 1..Len(q) : Publishes(q[k], d) /\ ~EndsFrom(q, k, d)}

StagedAfter(q, st) ==
  {d \in Dcids :
     \/ d \in st /\ ~LeavesFrom(q, 1, d)
     \/ \E k \in 1..Len(q) : Stages(q[k], d) /\ ~LeavesFrom(q, k, d)}

Announced(q) == {d \in Dcids : \E k \in 1..Len(q) : Publishes(q[k], d)}
Mentioned(q) == {d \in Dcids : \E k \in 1..Len(q) : d \in q[k].dcids}
Has(q, kind) == \E k \in 1..Len(q) : q[k].kind = kind

(* Only new connection IDs are staged, and there is one replacement at a   *)
(* time.                                                                   *)
QueueInv(q, by, st) ==
  /\ q \in Seq(Events) /\ by \subseteq Dcids /\ st \subseteq Dcids /\ by \cap st = {}
  /\ \A k \in 1..Len(q) :
       q[k].kind \in Single => \E d \in Dcids : q[k].dcids = {d}
  /\ \A k \in 1..Len(q), d \in Dcids : Stages(q[k], d) =>
       d \notin by \cup st /\ \A j \in 1..(k - 1) : d \notin q[j].dcids
  /\ \A j, k \in 1..Len(q) : q[j].kind = "Replaced" /\ q[k].kind = "Replaced" => j = k

-----------------------------------------------------------------------------
(* The engine.  w is what it works with: the active and the staged entries *)
(* of the index, the packets that wait and the history.                    *)
World == [by |-> DOMAIN index.by_dcid, st |-> DOMAIN index.staged_by_dcid,
          pending |-> pending, interrupted |-> interrupted]

EngineFields == {"role", "connection", "candidate", "published", "promotion", "events"}
IsRecord(e) == e = [x \in EngineFields |-> e[x]]

IsConnection(c) ==
  c \in Connections /\ (c.dcid_limit_exceeded => Cardinality(c.dcids) >= MaxTrackedDcids)

IsEngine(e, w) ==
  /\ IsRecord(e) /\ e.role \in {"client", "server"} /\ e.promotion \in BOOLEAN
  /\ (e.connection = None \/ IsConnection(e.connection))
  /\ (e.candidate = None \/ IsConnection(e.candidate))
  /\ e.published \subseteq Dcids /\ QueueInv(e.events, w.by, w.st)

(* Connection IDs of a connection that has not authenticated, or of which  *)
(* drive has yet to take note that it has (x).                             *)
Unannounced(c, x) == IF c # None /\ (~c.authenticated \/ x) THEN c.dcids ELSE {}
Generated(c) == IF c # None /\ ~c.authenticated THEN c.dcids \ c.initial ELSE {}
Promised(e) == IF e.promotion THEN DcidsOf(e.candidate) ELSE {}

(* What the index will be, by what the engine has. *)
Routes(e, w, xa, xc) ==
  /\ ActiveAfter(e.events, w.by) = e.published \cup Promised(e)
  /\ StagedAfter(e.events, w.st) \subseteq
       Unannounced(e.connection, xa) \cup Unannounced(e.candidate, xc)
  /\ Generated(e.connection) \cup Generated(e.candidate) \subseteq StagedAfter(e.events, w.st)
  /\ e.connection # None /\ e.connection.authenticated /\ ~xa =>
       e.connection.dcids \subseteq e.published

(* The candidate, and the events that are about it. *)
CandidateInv(e, w, xc) ==
  /\ e.candidate # None => (e.promotion <=> e.candidate.authenticated /\ ~xc)
  /\ e.candidate # None /\ ~e.candidate.authenticated =>
       e.candidate.dcids \cap (w.by \cup e.published \cup Announced(e.events)) = {}
  /\ e.role = "client" => e.candidate = None
  /\ e.role = "server" /\ e.connection # None => e.connection.authenticated
  /\ e.promotion <=> Has(e.events, "Replaced")
  /\ Has(e.events, "Closed") =>
       /\ e.connection = None /\ e.published = {}
       /\ e.candidate = None \/ ~e.candidate.authenticated

(* The transports that are gone, and what they leave. *)
AliveInv(e, w, da, dc) ==
  /\ e.connection # None /\ e.connection.dead => e.promotion \/ w.interrupted \/ da
  /\ e.candidate # None /\ e.candidate.dead => dc
  /\ \/ e.published \subseteq DcidsOf(e.connection) \cup DcidsOf(e.candidate)
     \/ w.interrupted \/ (e.promotion /\ e.candidate = None)

(* The packets that wait. *)
PendingInv(e, w, xa) ==
  IsAuthenticated(e) /\ ~xa => w.pending = 0 \/ Has(e.events, "Authenticated")

(* In the middle of a drive, of which xa, xc, da and dc say what it has yet *)
(* to take note of; and before and after it.                               *)
Mid(e, w, xa, xc, da, dc) ==
  /\ IsEngine(e, w) /\ Routes(e, w, xa, xc) /\ CandidateInv(e, w, xc)
  /\ AliveInv(e, w, da, dc) /\ PendingInv(e, w, xa)

EngineInv(e, w) == Mid(e, w, FALSE, FALSE, FALSE, FALSE)

PhaseInv ==
  /\ phase = "top" => ~engine.promotion /\ ~Has(engine.events, "Closed")
  /\ phase = "handle" =>
       engine.connection = None /\ engine.candidate = None /\ ~engine.promotion

(* The index, all entries of which are the lane's. *)
IndexOf(i, owner) ==
  /\ DOMAIN i = {"by_dcid", "staged_by_dcid", "by_flow"}
  /\ DOMAIN i.by_dcid \subseteq Dcids /\ DOMAIN i.staged_by_dcid \subseteq Dcids
  /\ DOMAIN i.by_dcid \cap DOMAIN i.staged_by_dcid = {}
  /\ \A d \in DOMAIN i.by_dcid : i.by_dcid[d] = owner
  /\ \A d \in DOMAIN i.staged_by_dcid : i.staged_by_dcid[d] = owner
  /\ \A f \in DOMAIN i.by_flow : f = owner.quic_flow_id /\ i.by_flow[f] = DOMAIN i.by_dcid
  /\ owner.quic_flow_id \in DOMAIN i.by_flow <=> DOMAIN i.by_dcid # {}

(* The inductive invariant. *)
LaneInv ==
  /\ EngineInv(engine, World) /\ PhaseInv /\ IndexOf(index, Owner) /\ pending \in Nat
-----------------------------------------------------------------------------
(* Events that are added to the queue: of one kind, and together about the *)
(* connection IDs in T.                                                    *)
Added(q, r, kind, T) ==
  /\ q \in Seq(Events) /\ r \in Seq(Events) /\ Len(q) <= Len(r)
  /\ \A k \in 1..Len(q) : r[k] = q[k]
  /\ \A k \in (Len(q) + 1)..Len(r) : r[k].kind = kind /\ r[k].dcids \subseteq T
  /\ \A k \in (Len(q) + 1)..Len(r) : kind \in Single => \E d \in Dcids : r[k].dcids = {d}
  /\ \A d \in T : \E k \in (Len(q) + 1)..Len(r) : d \in r[k].dcids
  /\ kind \in {"DcidStaged", "Replaced"} => Len(r) <= Len(q) + 1

(* The events of q are the first ones of r. *)
Longer(q, r) ==
  Len(q) \in Nat /\ Len(r) \in Nat /\ Len(q) <= Len(r) /\ \A k \in 1..Len(q) : r[k] = q[k]

LEMMA AddedIsLonger ==
  ASSUME NEW q, NEW r, NEW kind, NEW T, Added(q, r, kind, T)
  PROVE  Longer(q, r)
BY DEF Added, Longer

(* What is added ends the same connection IDs for all events before. *)
LEMMA EndsAdded ==
  ASSUME NEW q, NEW r, NEW d, NEW k \in 1..(Len(q) + 1), Longer(q, r)
  PROVE  /\ EndsFrom(r, k, d) <=> EndsFrom(q, k, d) \/ EndsFrom(r, Len(q) + 1, d)
         /\ LeavesFrom(r, k, d) <=> LeavesFrom(q, k, d) \/ LeavesFrom(r, Len(q) + 1, d)
<1> USE DEF Longer
<1>1. ASSUME NEW j \in k..Len(r)
      PROVE  (j \in k..Len(q) /\ q[j] = r[j]) \/ j \in (Len(q) + 1)..Len(r)
  OBVIOUS
<1>2. ASSUME NEW j \in k..Len(q) PROVE j \in k..Len(r) /\ q[j] = r[j] OBVIOUS
<1>3. ASSUME NEW j \in (Len(q) + 1)..Len(r) PROVE j \in k..Len(r) OBVIOUS
<1>4. EndsFrom(r, k, d) <=> EndsFrom(q, k, d) \/ EndsFrom(r, Len(q) + 1, d)
  BY <1>1, <1>2, <1>3, Zenon DEF EndsFrom
<1>5. LeavesFrom(r, k, d) <=> LeavesFrom(q, k, d) \/ LeavesFrom(r, Len(q) + 1, d)
  BY <1>1, <1>2, <1>3, Zenon DEF LeavesFrom
<1> QED BY <1>4, <1>5, Zenon

(* The events of r, of q and added ones. *)
LEMMA Places ==
  ASSUME NEW q, NEW r, Longer(q, r)
  PROVE  /\ 1 \in 1..(Len(q) + 1) /\ \A k \in 1..Len(q) : k \in 1..(Len(q) + 1)
         /\ \A k \in 1..Len(r) : (k \in 1..Len(q) /\ q[k] = r[k]) \/ k \in (Len(q) + 1)..Len(r)
         /\ \A k \in 1..Len(q) : k \in 1..Len(r) /\ q[k] = r[k]
         /\ \A k \in (Len(q) + 1)..Len(r) : k \in 1..Len(r)
BY DEF Longer

(* The queue after the addition, from the queue before and what is added. *)
LEMMA AfterAdded ==
  ASSUME NEW q, NEW r, NEW by, NEW st, NEW d \in Dcids, Longer(q, r)
  PROVE  LET more == (Len(q) + 1)..Len(r)
         IN  /\ d \in ActiveAfter(r, by) <=>
                  \/ d \in ActiveAfter(q, by) /\ ~EndsFrom(r, Len(q) + 1, d)
                  \/ \E k \in more : Publishes(r[k], d) /\ ~EndsFrom(r, k, d)
             /\ d \in StagedAfter(r, st) <=>
                  \/ d \in StagedAfter(q, st) /\ ~LeavesFrom(r, Len(q) + 1, d)
                  \/ \E k \in more : Stages(r[k], d) /\ ~LeavesFrom(r, k, d)
             /\ d \in Announced(r) <=> d \in Announced(q) \/ \E k \in more : Publishes(r[k], d)
             /\ d \in Mentioned(r) <=> d \in Mentioned(q) \/ \E k \in more : d \in r[k].dcids
<1> DEFINE more == (Len(q) + 1)..Len(r)
<1>1. /\ 1 \in 1..(Len(q) + 1) /\ \A k \in 1..Len(q) : k \in 1..(Len(q) + 1)
      /\ \A k \in 1..Len(r) : (k \in 1..Len(q) /\ q[k] = r[k]) \/ k \in more
      /\ \A k \in 1..Len(q) : k \in 1..Len(r) /\ q[k] = r[k]
      /\ \A k \in more : k \in 1..Len(r)
  BY Places, Zenon
<1>2. ASSUME NEW k \in 1..(Len(q) + 1)
      PROVE  /\ EndsFrom(r, k, d) <=> EndsFrom(q, k, d) \/ EndsFrom(r, Len(q) + 1, d)
             /\ LeavesFrom(r, k, d) <=> LeavesFrom(q, k, d) \/ LeavesFrom(r, Len(q) + 1, d)
  BY EndsAdded, Zenon
<1> HIDE DEF more
<1>3. d \in ActiveAfter(r, by) <=>
        \/ d \in ActiveAfter(q, by) /\ ~EndsFrom(r, Len(q) + 1, d)
        \/ \E k \in more : Publishes(r[k], d) /\ ~EndsFrom(r, k, d)
  <2>1. EndsFrom(r, 1, d) <=> EndsFrom(q, 1, d) \/ EndsFrom(r, Len(q) + 1, d)
    BY <1>1, <1>2, Zenon
  <2>2. (\E k \in 1..Len(r) : Publishes(r[k], d) /\ ~EndsFrom(r, k, d)) <=>
          \/ \E k \in more : Publishes(r[k], d) /\ ~EndsFrom(r, k, d)
          \/ /\ \E k \in 1..Len(q) : Publishes(q[k], d) /\ ~EndsFrom(q, k, d)
             /\ ~EndsFrom(r, Len(q) + 1, d)
    <3>1. ASSUME NEW k \in 1..Len(q)
          PROVE  Publishes(r[k], d) /\ ~EndsFrom(r, k, d) <=>
                 Publishes(q[k], d) /\ ~EndsFrom(q, k, d) /\ ~EndsFrom(r, Len(q) + 1, d)
      BY <1>1, <1>2, Zenon
    <3> QED BY <1>1, <3>1, Zenon
  <2> QED BY <2>1, <2>2, Zenon DEF ActiveAfter
<1>4. d \in StagedAfter(r, st) <=>
        \/ d \in StagedAfter(q, st) /\ ~LeavesFrom(r, Len(q) + 1, d)
        \/ \E k \in more : Stages(r[k], d) /\ ~LeavesFrom(r, k, d)
  <2>1. LeavesFrom(r, 1, d) <=> LeavesFrom(q, 1, d) \/ LeavesFrom(r, Len(q) + 1, d)
    BY <1>1, <1>2, Zenon
  <2>2. (\E k \in 1..Len(r) : Stages(r[k], d) /\ ~LeavesFrom(r, k, d)) <=>
          \/ \E k \in more : Stages(r[k], d) /\ ~LeavesFrom(r, k, d)
          \/ /\ \E k \in 1..Len(q) : Stages(q[k], d) /\ ~LeavesFrom(q, k, d)
             /\ ~LeavesFrom(r, Len(q) + 1, d)
    <3>1. ASSUME NEW k \in 1..Len(q)
          PROVE  Stages(r[k], d) /\ ~LeavesFrom(r, k, d) <=>
                 Stages(q[k], d) /\ ~LeavesFrom(q, k, d) /\ ~LeavesFrom(r, Len(q) + 1, d)
      BY <1>1, <1>2, Zenon
    <3> QED BY <1>1, <3>1, Zenon
  <2> QED BY <2>1, <2>2, Zenon DEF StagedAfter
<1>5. d \in Announced(r) <=> d \in Announced(q) \/ \E k \in more : Publishes(r[k], d)
  BY <1>1, Zenon DEF Announced
<1>6. d \in Mentioned(r) <=> d \in Mentioned(q) \/ \E k \in more : d \in r[k].dcids
  BY <1>1, Zenon DEF Mentioned
<1> QED BY <1>3, <1>4, <1>5, <1>6, Zenon DEF more

(* What the queue will have done, as sets. *)
LEMMA SetsOfDcids ==
  ASSUME NEW q, NEW by, NEW st
  PROVE  /\ ActiveAfter(q, by) \subseteq Dcids /\ StagedAfter(q, st) \subseteq Dcids
         /\ Announced(q) \subseteq Dcids /\ Mentioned(q) \subseteq Dcids
BY Zenon DEF ActiveAfter, StagedAfter, Announced, Mentioned

LEMMA AddedStaged ==
  ASSUME NEW q, NEW r, NEW by, NEW st, NEW T \in SUBSET Dcids, Added(q, r, "DcidStaged", T)
  PROVE  /\ ActiveAfter(r, by) = ActiveAfter(q, by)
         /\ StagedAfter(r, st) = StagedAfter(q, st) \cup T
         /\ Announced(r) = Announced(q)
<1>1. \A d : \A k \in (Len(q) + 1)..Len(r) : ~Ends(r[k], d) /\ ~Publishes(r[k], d)
  BY DEF Added, Ends, Publishes, Publishing
<1>2. \A d : (\E k \in (Len(q) + 1)..Len(r) : Stages(r[k], d)) <=> d \in T
  BY Zenon DEF Added, Stages
<1>3. ASSUME NEW d, NEW k \in (Len(q) + 1)..Len(r) PROVE k..Len(r) \subseteq (Len(q) + 1)..Len(r)
  BY AddedIsLonger DEF Longer
<1>4. ASSUME NEW d
      PROVE  /\ ~EndsFrom(r, Len(q) + 1, d) /\ ~LeavesFrom(r, Len(q) + 1, d)
             /\ \A k \in (Len(q) + 1)..Len(r) : ~LeavesFrom(r, k, d)
  BY <1>1, <1>3, Zenon DEF EndsFrom, LeavesFrom
<1>5. ASSUME NEW d \in Dcids
      PROVE  /\ d \in ActiveAfter(r, by) <=> d \in ActiveAfter(q, by)
             /\ d \in StagedAfter(r, st) <=> d \in StagedAfter(q, st) \cup T
             /\ d \in Announced(r) <=> d \in Announced(q)
  BY <1>1, <1>2, <1>4, AddedIsLonger, AfterAdded, Zenon
<1> QED BY <1>5, SetsOfDcids, Zenon

Publication(q, r, by, st, T) ==
  /\ ActiveAfter(r, by) = ActiveAfter(q, by) \cup T
  /\ StagedAfter(r, st) = StagedAfter(q, st) \ T
  /\ Announced(r) = Announced(q) \cup T

LEMMA AddedPublishing ==
  ASSUME NEW q, NEW r, NEW by, NEW st, NEW T \in SUBSET Dcids, NEW kind \in Publishing,
         Added(q, r, kind, T)
  PROVE  Publication(q, r, by, st, T)
<1>1. \A d : \A k \in (Len(q) + 1)..Len(r) :
        ~Ends(r[k], d) /\ ~Stages(r[k], d) /\ (Publishes(r[k], d) <=> d \in r[k].dcids)
  BY DEF Added, Publishing, Ends, Stages, Publishes, Publishing
<1>2. \A d : (\E k \in (Len(q) + 1)..Len(r) : Publishes(r[k], d)) <=> d \in T
  BY <1>1, Zenon DEF Added
<1>3. ASSUME NEW k \in (Len(q) + 1)..Len(r) PROVE k..Len(r) \subseteq (Len(q) + 1)..Len(r)
  BY AddedIsLonger DEF Longer
<1>4. ASSUME NEW d
      PROVE  /\ ~EndsFrom(r, Len(q) + 1, d) /\ (LeavesFrom(r, Len(q) + 1, d) <=> d \in T)
             /\ \A k \in (Len(q) + 1)..Len(r) : ~EndsFrom(r, k, d)
  BY <1>1, <1>2, <1>3, Zenon DEF EndsFrom, LeavesFrom
<1>5. ASSUME NEW d \in Dcids
      PROVE  /\ d \in ActiveAfter(r, by) <=> d \in ActiveAfter(q, by) \cup T
             /\ d \in StagedAfter(r, st) <=> d \in StagedAfter(q, st) \ T
             /\ d \in Announced(r) <=> d \in Announced(q) \cup T
  BY <1>1, <1>2, <1>4, AddedIsLonger, AfterAdded, Zenon
<1> QED BY <1>5, SetsOfDcids, Zenon DEF Publication

Retirement(q, r, by, st, T) ==
  /\ ActiveAfter(r, by) = ActiveAfter(q, by) \ T
  /\ StagedAfter(r, st) = StagedAfter(q, st) \ T
  /\ Announced(r) = Announced(q)

LEMMA AddedRetired ==
  ASSUME NEW q, NEW r, NEW by, NEW st, NEW T \in SUBSET Dcids, Added(q, r, "DcidRetired", T)
  PROVE  Retirement(q, r, by, st, T)
<1>1. \A d : \A k \in (Len(q) + 1)..Len(r) :
        ~Publishes(r[k], d) /\ ~Stages(r[k], d) /\ (Ends(r[k], d) <=> d \in r[k].dcids)
  BY DEF Added, Ends, Stages, Publishes, Publishing
<1>2. \A d : (\E k \in (Len(q) + 1)..Len(r) : Ends(r[k], d)) <=> d \in T
  BY <1>1, Zenon DEF Added
<1>3. ASSUME NEW d
      PROVE  /\ EndsFrom(r, Len(q) + 1, d) <=> d \in T
             /\ LeavesFrom(r, Len(q) + 1, d) <=> d \in T
  BY <1>1, <1>2, Zenon DEF EndsFrom, LeavesFrom
<1>4. ASSUME NEW d \in Dcids
      PROVE  /\ d \in ActiveAfter(r, by) <=> d \in ActiveAfter(q, by) \ T
             /\ d \in StagedAfter(r, st) <=> d \in StagedAfter(q, st) \ T
             /\ d \in Announced(r) <=> d \in Announced(q)
  BY <1>1, <1>3, AddedIsLonger, AfterAdded, Zenon
<1> QED BY <1>4, SetsOfDcids, Zenon DEF Retirement

LEMMA AddedAuthenticated ==
  ASSUME NEW q, NEW r, NEW by, NEW st, Added(q, r, "Authenticated", {})
  PROVE  /\ ActiveAfter(r, by) = ActiveAfter(q, by) /\ StagedAfter(r, st) = StagedAfter(q, st)
         /\ Announced(r) = Announced(q)
<1>1. \A d : \A k \in (Len(q) + 1)..Len(r) :
        ~Publishes(r[k], d) /\ ~Stages(r[k], d) /\ ~Ends(r[k], d)
  BY DEF Added, Ends, Stages, Publishes, Publishing
<1>2. ASSUME NEW d PROVE ~EndsFrom(r, Len(q) + 1, d) /\ ~LeavesFrom(r, Len(q) + 1, d)
  BY <1>1, Zenon DEF EndsFrom, LeavesFrom
<1>3. ASSUME NEW d \in Dcids
      PROVE  /\ d \in ActiveAfter(r, by) <=> d \in ActiveAfter(q, by)
             /\ d \in StagedAfter(r, st) <=> d \in StagedAfter(q, st)
             /\ d \in Announced(r) <=> d \in Announced(q)
  BY <1>1, <1>2, AddedIsLonger, AfterAdded, Zenon
<1> QED BY <1>3, SetsOfDcids, Zenon

Cleared(r, by, st) == ActiveAfter(r, by) = {} /\ StagedAfter(r, st) = {}

LEMMA AddedClosed ==
  ASSUME NEW q, NEW r, NEW by, NEW st, Added(q, r, "Closed", {}), Len(r) = Len(q) + 1
  PROVE  Cleared(r, by, st)
<1>1. \A d : \A k \in (Len(q) + 1)..Len(r) :
        ~Publishes(r[k], d) /\ ~Stages(r[k], d) /\ Ends(r[k], d)
  BY DEF Added, Ends, Stages, Publishes, Publishing
<1>2. Len(q) + 1 \in (Len(q) + 1)..Len(r) BY AddedIsLonger DEF Longer
<1>3. ASSUME NEW d PROVE EndsFrom(r, Len(q) + 1, d) /\ LeavesFrom(r, Len(q) + 1, d)
  BY <1>1, <1>2, Zenon DEF EndsFrom, LeavesFrom
<1>4. ASSUME NEW d \in Dcids
      PROVE  d \notin ActiveAfter(r, by) /\ d \notin StagedAfter(r, st)
  BY <1>1, <1>3, AddedIsLonger, AfterAdded, Zenon
<1> QED BY <1>4, SetsOfDcids, Zenon DEF Cleared

(* Which kinds of events there are. *)
LEMMA AddedHas ==
  ASSUME NEW q, NEW r, NEW kind, NEW T, Added(q, r, kind, T), NEW x
  PROVE  /\ x # kind => (Has(r, x) <=> Has(q, x)) 
         /\ Has(q, x) => Has(r, x)
         /\ Len(r) = Len(q) + 1 => Has(r, kind)
<1>1. Longer(q, r) BY AddedIsLonger
<1>2. /\ \A k \in 1..Len(r) : (k \in 1..Len(q) /\ q[k] = r[k]) \/ k \in (Len(q) + 1)..Len(r)
      /\ \A k \in 1..Len(q) : k \in 1..Len(r) /\ q[k] = r[k]
      /\ \A k \in (Len(q) + 1)..Len(r) : k \in 1..Len(r)
  BY <1>1, Places, Zenon
<1>3. \A k \in (Len(q) + 1)..Len(r) : r[k].kind = kind BY Zenon DEF Added
<1>4. x # kind => (Has(r, x) <=> Has(q, x)) BY <1>2, <1>3, Zenon DEF Has
<1>5. Has(q, x) => Has(r, x) BY <1>2, Zenon DEF Has
<1>6. Len(r) = Len(q) + 1 => Len(q) + 1 \in (Len(q) + 1)..Len(r) BY <1>1 DEF Longer
<1> QED BY <1>2, <1>3, <1>4, <1>5, <1>6, Zenon DEF Has

(* The queue stays well-formed. *)
LEMMA AddedInv ==
  ASSUME NEW q, NEW r, NEW by, NEW st, NEW T \in SUBSET Dcids, NEW kind, Added(q, r, kind, T),
         QueueInv(q, by, st),
         kind = "DcidStaged" => T \cap (by \cup st \cup Mentioned(q)) = {},
         kind = "Replaced" => ~Has(q, "Replaced")
  PROVE  QueueInv(r, by, st)
<1>1. Longer(q, r) BY AddedIsLonger
<1>2. \A k \in 1..Len(r) : (k \in 1..Len(q) /\ q[k] = r[k]) \/ k \in (Len(q) + 1)..Len(r)
  BY <1>1, Places, Zenon
<1>3. \A k \in 1..Len(q) : \A j \in 1..(k - 1) : j \in 1..Len(q) BY <1>1 DEF Longer
<1>4. r \in Seq(Events) /\ by \subseteq Dcids /\ st \subseteq Dcids /\ by \cap st = {}
  BY Zenon DEF Added, QueueInv
<1>5. ASSUME NEW k \in 1..Len(r), r[k].kind \in Single PROVE \E d \in Dcids : r[k].dcids = {d}
  <2>1. CASE k \in 1..Len(q) /\ q[k] = r[k] BY <1>5, <2>1, Zenon DEF QueueInv
  <2>2. CASE k \in (Len(q) + 1)..Len(r)
    <3>1. r[k].kind = kind BY <2>2, Zenon DEF Added
    <3>2. kind \in Single BY <1>5, <3>1, Zenon
    <3> QED BY <2>2, <3>2, Zenon DEF Added
  <2> QED BY <1>2, <2>1, <2>2, Zenon
<1>6. ASSUME NEW k \in 1..Len(r), NEW d \in Dcids, Stages(r[k], d)
      PROVE  d \notin by \cup st /\ \A j \in 1..(k - 1) : d \notin r[j].dcids
  <2>1. CASE k \in 1..Len(q) /\ q[k] = r[k]
    <3>1. \A j \in 1..(k - 1) : j \in 1..Len(q) /\ r[j] = q[j] BY <1>1, <1>3, <2>1, Zenon DEF Longer
    <3> QED BY <1>6, <2>1, <3>1, Zenon DEF QueueInv
  <2>2. CASE k \in (Len(q) + 1)..Len(r)
    <3>1. kind = "DcidStaged" /\ d \in T BY <1>6, <2>2, Zenon DEF Added, Stages
    <3>2. Len(r) <= Len(q) + 1 BY <3>1, Zenon DEF Added
    <3>3. \A j \in 1..(k - 1) : j \in 1..Len(q) BY <1>1, <2>2, <3>2 DEF Longer
    <3>4. d \notin Mentioned(q) BY <3>1, Zenon
    <3> QED BY <1>1, <3>1, <3>3, <3>4, Zenon DEF Longer, Mentioned
  <2> QED BY <1>2, <2>1, <2>2, Zenon
<1>7. ASSUME NEW j \in 1..Len(r), NEW k \in 1..Len(r), r[j].kind = "Replaced",
             r[k].kind = "Replaced"
      PROVE  j = k
  <2>1. CASE kind = "Replaced"
    <3>1. ASSUME NEW i \in 1..Len(r), r[i].kind = "Replaced" PROVE i \in (Len(q) + 1)..Len(r)
      BY <1>2, <2>1, <3>1, Zenon DEF Has
    <3>2. Len(r) <= Len(q) + 1 BY <2>1, Zenon DEF Added
    <3>3. j \in (Len(q) + 1)..Len(r) /\ k \in (Len(q) + 1)..Len(r) BY <1>7, <3>1, Zenon
    <3> QED BY <1>1, <3>2, <3>3 DEF Longer
  <2>2. CASE kind # "Replaced"
    <3>1. ASSUME NEW i \in 1..Len(r), r[i].kind = "Replaced"
          PROVE  i \in 1..Len(q) /\ q[i].kind = "Replaced"
      BY <1>2, <2>2, <3>1, Zenon DEF Added
    <3> QED BY <1>7, <3>1, Zenon DEF QueueInv
  <2> QED BY <2>1, <2>2, Zenon
<1> QED BY <1>4, <1>5, <1>6, <1>7, Zenon DEF QueueInv

-----------------------------------------------------------------------------
(* The first event of the queue is applied to the index. *)
Applied(v, by, st, by2, st2) ==
  /\ by2 \subseteq Dcids /\ st2 \subseteq Dcids
  /\ \A d \in Dcids : d \in by2 <=> (d \in by /\ ~Ends(v, d)) \/ Publishes(v, d)
  /\ \A d \in Dcids :
       d \in st2 <=> (d \in st /\ ~Ends(v, d) /\ ~Publishes(v, d)) \/ Stages(v, d)

(* p is q without its first event. *)
Behind(q, p) ==
  /\ Len(p) \in Nat /\ Len(q) = Len(p) + 1 /\ 1 \in 1..Len(q)
  /\ \A k \in 1..Len(p) : p[k] = q[k + 1]

LEMMA TailBehind ==
  ASSUME NEW q \in Seq(Events), q # <<>>
  PROVE  Behind(q, Tail(q)) /\ Head(q) = q[1] /\ Tail(q) \in Seq(Events) /\ q[1] \in Events
BY DEF Behind

LEMMA PlacesBehind ==
  ASSUME NEW q, NEW p, Behind(q, p)
  PROVE  /\ \A k \in 1..Len(q) : k = 1 \/ (k - 1 \in 1..Len(p) /\ p[k - 1] = q[k])
         /\ \A k \in 1..Len(p) : k + 1 \in 1..Len(q) /\ q[k + 1] = p[k]
         /\ 1 \in 1..Len(q)
BY DEF Behind

LEMMA EndsBehind ==
  ASSUME NEW q, NEW p, NEW d, Behind(q, p)
  PROVE  /\ EndsFrom(q, 1, d) <=> Ends(q[1], d) \/ EndsFrom(p, 1, d)
         /\ LeavesFrom(q, 1, d) <=> Ends(q[1], d) \/ Publishes(q[1], d) \/ LeavesFrom(p, 1, d)
         /\ \A k \in 1..Len(p) : /\ EndsFrom(q, k + 1, d) <=> EndsFrom(p, k, d)
                                 /\ LeavesFrom(q, k + 1, d) <=> LeavesFrom(p, k, d)
<1>1. /\ \A k \in 1..Len(q) : k = 1 \/ (k - 1 \in 1..Len(p) /\ p[k - 1] = q[k])
      /\ \A k \in 1..Len(p) : k + 1 \in 1..Len(q) /\ q[k + 1] = p[k]
      /\ 1 \in 1..Len(q)
  BY PlacesBehind, Zenon
<1>2. ASSUME NEW k \in 1..Len(p)
      PROVE  /\ \A j \in (k + 1)..Len(q) : j - 1 \in k..Len(p) /\ p[j - 1] = q[j]
             /\ \A j \in k..Len(p) : j + 1 \in (k + 1)..Len(q) /\ q[j + 1] = p[j]
  BY DEF Behind
<1>3. ASSUME NEW k \in 1..Len(p)
      PROVE  /\ EndsFrom(q, k + 1, d) <=> EndsFrom(p, k, d)
             /\ LeavesFrom(q, k + 1, d) <=> LeavesFrom(p, k, d)
  <2>1. /\ \A j \in (k + 1)..Len(q) : j - 1 \in k..Len(p) /\ p[j - 1] = q[j]
        /\ \A j \in k..Len(p) : j + 1 \in (k + 1)..Len(q) /\ q[j + 1] = p[j]
    BY <1>2, Zenon
  <2> QED BY <2>1, Zenon DEF EndsFrom, LeavesFrom
<1>4. EndsFrom(q, 1, d) <=> Ends(q[1], d) \/ EndsFrom(p, 1, d) BY <1>1, Zenon DEF EndsFrom
<1>5. LeavesFrom(q, 1, d) <=> Ends(q[1], d) \/ Publishes(q[1], d) \/ LeavesFrom(p, 1, d)
  BY <1>1, Zenon DEF LeavesFrom
<1> QED BY <1>3, <1>4, <1>5, Zenon

LEMMA AfterApplied ==
  ASSUME NEW q, NEW p, NEW by, NEW st, NEW by2, NEW st2, Behind(q, p),
         Applied(q[1], by, st, by2, st2)
  PROVE  /\ ActiveAfter(p, by2) = ActiveAfter(q, by) /\ StagedAfter(p, st2) = StagedAfter(q, st)
         /\ Announced(p) \subseteq Announced(q) /\ by2 \subseteq by \cup Announced(q)
<1>1. /\ \A k \in 1..Len(q) : k = 1 \/ (k - 1 \in 1..Len(p) /\ p[k - 1] = q[k])
      /\ \A k \in 1..Len(p) : k + 1 \in 1..Len(q) /\ q[k + 1] = p[k]
      /\ 1 \in 1..Len(q)
  BY PlacesBehind, Zenon
<1>2. ASSUME NEW d
      PROVE  /\ EndsFrom(q, 1, d) <=> Ends(q[1], d) \/ EndsFrom(p, 1, d)
             /\ LeavesFrom(q, 1, d) <=> Ends(q[1], d) \/ Publishes(q[1], d) \/ LeavesFrom(p, 1, d)
             /\ \A k \in 1..Len(p) : /\ EndsFrom(q, k + 1, d) <=> EndsFrom(p, k, d)
                                     /\ LeavesFrom(q, k + 1, d) <=> LeavesFrom(p, k, d)
  BY EndsBehind, Zenon
<1>3. ASSUME NEW d
      PROVE  /\ Publishes(q[1], d) => ~Ends(q[1], d)
             /\ Stages(q[1], d) => ~Ends(q[1], d) /\ ~Publishes(q[1], d)
  BY DEF Ends, Publishes, Stages, Publishing
<1>4. ASSUME NEW d \in Dcids
      PROVE  /\ d \in by2 <=> (d \in by /\ ~Ends(q[1], d)) \/ Publishes(q[1], d)
             /\ d \in st2 <=> \/ d \in st /\ ~Ends(q[1], d) /\ ~Publishes(q[1], d)
                              \/ Stages(q[1], d)
  BY Zenon DEF Applied
<1>5. ASSUME NEW d \in Dcids PROVE d \in ActiveAfter(p, by2) <=> d \in ActiveAfter(q, by)
  <2>1. (\E k \in 1..Len(q) : Publishes(q[k], d) /\ ~EndsFrom(q, k, d)) <=>
          \/ Publishes(q[1], d) /\ ~EndsFrom(p, 1, d)
          \/ \E k \in 1..Len(p) : Publishes(p[k], d) /\ ~EndsFrom(p, k, d)
    <3>1. ASSUME NEW k \in 1..Len(p), Publishes(p[k], d), ~EndsFrom(p, k, d)
          PROVE  \E j \in 1..Len(q) : Publishes(q[j], d) /\ ~EndsFrom(q, j, d)
      <4>1. k + 1 \in 1..Len(q) /\ Publishes(q[k + 1], d) /\ ~EndsFrom(q, k + 1, d)
        BY <1>1, <1>2, <3>1, Zenon
      <4> QED BY <4>1, Zenon
    <3>2. ASSUME NEW k \in 1..Len(q), Publishes(q[k], d), ~EndsFrom(q, k, d), k # 1
          PROVE  \E j \in 1..Len(p) : Publishes(p[j], d) /\ ~EndsFrom(p, j, d)
      <4>1. k - 1 \in 1..Len(p) /\ p[k - 1] = q[k] BY <1>1, <3>2, Zenon
      <4>2. (k - 1) + 1 = k OBVIOUS
      <4> QED BY <1>2, <3>2, <4>1, <4>2, Zenon
    <3>3. Publishes(q[1], d) => (EndsFrom(q, 1, d) <=> EndsFrom(p, 1, d)) BY <1>2, <1>3, Zenon
    <3> QED BY <1>1, <3>1, <3>2, <3>3, Zenon
  <2>2. EndsFrom(q, 1, d) <=> Ends(q[1], d) \/ EndsFrom(p, 1, d) BY <1>2, Zenon
  <2> QED BY <1>4, <2>1, <2>2, Zenon DEF ActiveAfter
<1>6. ASSUME NEW d \in Dcids PROVE d \in StagedAfter(p, st2) <=> d \in StagedAfter(q, st)
  <2>1. (\E k \in 1..Len(q) : Stages(q[k], d) /\ ~LeavesFrom(q, k, d)) <=>
          \/ Stages(q[1], d) /\ ~LeavesFrom(p, 1, d)
          \/ \E k \in 1..Len(p) : Stages(p[k], d) /\ ~LeavesFrom(p, k, d)
    <3>1. ASSUME NEW k \in 1..Len(p), Stages(p[k], d), ~LeavesFrom(p, k, d)
          PROVE  \E j \in 1..Len(q) : Stages(q[j], d) /\ ~LeavesFrom(q, j, d)
      <4>1. k + 1 \in 1..Len(q) /\ Stages(q[k + 1], d) /\ ~LeavesFrom(q, k + 1, d)
        BY <1>1, <1>2, <3>1, Zenon
      <4> QED BY <4>1, Zenon
    <3>2. ASSUME NEW k \in 1..Len(q), Stages(q[k], d), ~LeavesFrom(q, k, d), k # 1
          PROVE  \E j \in 1..Len(p) : Stages(p[j], d) /\ ~LeavesFrom(p, j, d)
      <4>1. k - 1 \in 1..Len(p) /\ p[k - 1] = q[k] BY <1>1, <3>2, Zenon
      <4>2. (k - 1) + 1 = k OBVIOUS
      <4> QED BY <1>2, <3>2, <4>1, <4>2, Zenon
    <3>3. Stages(q[1], d) => (LeavesFrom(q, 1, d) <=> LeavesFrom(p, 1, d)) BY <1>2, <1>3, Zenon
    <3> QED BY <1>1, <3>1, <3>2, <3>3, Zenon
  <2>2. LeavesFrom(q, 1, d) <=> Ends(q[1], d) \/ Publishes(q[1], d) \/ LeavesFrom(p, 1, d)
    BY <1>2, Zenon
  <2> QED BY <1>4, <2>1, <2>2, Zenon DEF StagedAfter
<1>7. Announced(p) \subseteq Announced(q) BY <1>1, Zenon DEF Announced
<1>8. by2 \subseteq by \cup Announced(q) BY <1>1, <1>4, Zenon DEF Announced, Applied
<1> QED BY <1>5, <1>6, <1>7, <1>8, SetsOfDcids, Zenon

LEMMA AppliedHas ==
  ASSUME NEW q, NEW p, Behind(q, p), NEW x
  PROVE  /\ Has(p, x) => Has(q, x)
         /\ Has(q, x) /\ x # q[1].kind => Has(p, x)
<1>1. /\ \A k \in 1..Len(q) : k = 1 \/ (k - 1 \in 1..Len(p) /\ p[k - 1] = q[k])
      /\ \A k \in 1..Len(p) : k + 1 \in 1..Len(q) /\ q[k + 1] = p[k]
  BY PlacesBehind, ZenonT(30)
<1> QED BY <1>1, ZenonT(30) DEF Has

LEMMA AppliedInv ==
  ASSUME NEW q, NEW p \in Seq(Events), NEW by, NEW st, NEW by2, NEW st2, Behind(q, p),
         Applied(q[1], by, st, by2, st2), QueueInv(q, by, st)
  PROVE  /\ QueueInv(p, by2, st2)
         /\ q[1].kind = "Replaced" => ~Has(p, "Replaced")
<1>1. /\ \A k \in 1..Len(p) : k + 1 \in 1..Len(q) /\ q[k + 1] = p[k]
      /\ 1 \in 1..Len(q)
  BY PlacesBehind, Zenon
<1>2. ASSUME NEW d \in Dcids
      PROVE  /\ d \in by2 <=> (d \in by /\ ~Ends(q[1], d)) \/ Publishes(q[1], d)
             /\ d \in st2 <=> \/ d \in st /\ ~Ends(q[1], d) /\ ~Publishes(q[1], d)
                              \/ Stages(q[1], d)
  BY Zenon DEF Applied
<1>3. ASSUME NEW d PROVE ~(Publishes(q[1], d) /\ Stages(q[1], d))
  BY DEF Publishes, Stages, Publishing
<1>4. by2 \cap st2 = {}
  <2>1. ASSUME NEW d \in Dcids, Stages(q[1], d) PROVE d \notin by BY <1>1, <2>1, Zenon DEF QueueInv
  <2>2. by \cap st = {} /\ by2 \subseteq Dcids BY Zenon DEF QueueInv, Applied
  <2> QED BY <1>2, <1>3, <2>1, <2>2, Zenon
<1>5. ASSUME NEW k \in 1..Len(p), NEW d \in Dcids, Stages(p[k], d)
      PROVE  d \notin by2 \cup st2 /\ \A j \in 1..(k - 1) : d \notin p[j].dcids
  <2>1. k + 1 \in 1..Len(q) /\ Stages(q[k + 1], d) BY <1>1, <1>5, Zenon
  <2>2. d \notin by \cup st /\ \A j \in 1..((k + 1) - 1) : d \notin q[j].dcids
    BY <2>1, Zenon DEF QueueInv
  <2>3. /\ 1 \in 1..((k + 1) - 1)
        /\ \A j \in 1..(k - 1) : j \in 1..Len(p) /\ j + 1 \in 1..((k + 1) - 1)
    BY <1>5 DEF Behind
  <2>4. ~Publishes(q[1], d) /\ ~Stages(q[1], d) BY <2>2, <2>3, Zenon DEF Publishes, Stages
  <2> QED BY <1>1, <1>2, <2>2, <2>3, <2>4, Zenon
<1>6. ASSUME NEW j \in 1..Len(p), NEW k \in 1..Len(p), p[j].kind = "Replaced",
             p[k].kind = "Replaced"
      PROVE  j = k
  <2>1. j + 1 = k + 1 BY <1>1, <1>6, Zenon DEF QueueInv
  <2> QED BY <2>1
<1>7. ASSUME NEW k \in 1..Len(p), p[k].kind \in Single PROVE \E d \in Dcids : p[k].dcids = {d}
  BY <1>1, <1>7, ZenonT(30) DEF QueueInv
<1>8. ASSUME q[1].kind = "Replaced", Has(p, "Replaced") PROVE FALSE
  <2>1. PICK k \in 1..Len(p) : p[k].kind = "Replaced" BY <1>8, Zenon DEF Has
  <2>2. k + 1 = 1 BY <1>1, <1>8, <2>1, Zenon DEF QueueInv
  <2> QED BY <2>2
<1>9. QueueInv(p, by2, st2) BY <1>4, <1>5, <1>6, <1>7, Zenon DEF QueueInv, Applied
<1> QED BY <1>8, <1>9, Zenon

-----------------------------------------------------------------------------
(* Operations of the engine. *)

(* f is e but for its events. *)
SameBut(e, f) ==
  /\ IsRecord(f)
  /\ f.role = e.role /\ f.connection = e.connection /\ f.candidate = e.candidate
  /\ f.published = e.published /\ f.promotion = e.promotion

LEMMA EmitAdds ==
  ASSUME NEW e, IsRecord(e), e.events \in Seq(Events),
         NEW kind \in Kinds \ Single, NEW T \in SUBSET Dcids
  PROVE  /\ SameBut(e, Emit(e, kind, T))
         /\ Added(e.events, Emit(e, kind, T).events, kind, T)
         /\ Len(Emit(e, kind, T).events) = Len(e.events) + 1
<1> DEFINE q == e.events
           v == [kind |-> kind, dcids |-> T]
           r == Append(q, v)
<1>1. Emit(e, kind, T).events = r /\ SameBut(e, Emit(e, kind, T))
  BY Zenon DEF Emit, SameBut, IsRecord, EngineFields
<1>2. v \in Events /\ v.kind = kind /\ v.dcids = T BY DEF Events
<1>3. /\ r \in Seq(Events) /\ Len(r) = Len(q) + 1 /\ Len(q) \in Nat
      /\ \A k \in 1..Len(q) : r[k] = q[k] /\ r[Len(q) + 1] = v
  <2> HIDE DEF v
  <2> QED BY <1>2
<1>4. Len(q) <= Len(r) /\ Len(r) <= Len(q) + 1 BY <1>3
<1>5. r[Len(q) + 1] = v /\ \A k \in 1..Len(q) : r[k] = q[k]
  <2> HIDE DEF v
  <2> QED BY <1>2
<1>6. /\ \A k \in (Len(q) + 1)..Len(r) : k = Len(q) + 1 /\ r[k] = v
      /\ Len(q) + 1 \in (Len(q) + 1)..Len(r)
  <2> HIDE DEF v
  <2> QED BY <1>3, <1>5
<1> HIDE DEF r, v, q
<1>7. Added(q, r, kind, T) BY <1>2, <1>3, <1>4, <1>5, <1>6, Zenon DEF Added, q
<1> QED BY <1>1, <1>3, <1>7, Zenon DEF q

LEMMA ConcatEvents ==
  ASSUME NEW q \in Seq(Events), NEW t \in Seq(Events)
  PROVE  /\ q \o t \in Seq(Events) /\ Len(q \o t) = Len(q) + Len(t) /\ Len(q) \in Nat
         /\ \A k \in 1..Len(q) : (q \o t)[k] = q[k]
         /\ \A k \in 1..Len(t) : (q \o t)[Len(q) + k] = t[k]
OBVIOUS

LEMMA EmitEachAdds ==
  ASSUME NEW e, IsRecord(e), e.events \in Seq(Events),
         NEW kind \in Single, NEW T \in SUBSET Dcids,
         kind = "DcidStaged" => T = {} \/ \E d : T = {d}
  PROVE  /\ SameBut(e, EmitEach(e, kind, T))
         /\ Added(e.events, EmitEach(e, kind, T).events, kind, T)
<1> DEFINE q == e.events
           o == Order[T]
           t == [k \in 1..Len(o) |-> [kind |-> kind, dcids |-> {o[k]}]]
           r == q \o t
<1>1. EmitEach(e, kind, T).events = r /\ SameBut(e, EmitEach(e, kind, T))
  BY Zenon DEF EmitEach, SameBut, IsRecord, EngineFields
<1>2. o \in Seq(T) /\ (\A d \in T : \E k \in 1..Len(o) : o[k] = d)
      /\ (\A j, k \in 1..Len(o) : o[j] = o[k] => j = k)
  BY LaneAssumption, Zenon DEF Lists
<1>3. Len(o) \in Nat /\ \A k \in 1..Len(o) : o[k] \in T
  <2> HIDE DEF o
  <2> QED BY <1>2
<1>4. kind \in Kinds BY DEF Single, Kinds
<1>5. \A k \in 1..Len(o) : t[k] \in Events /\ t[k].kind = kind /\ t[k].dcids = {o[k]}
  <2> HIDE DEF o
  <2> QED BY <1>3, <1>4 DEF Events
<1>6. t \in Seq(Events) /\ Len(t) = Len(o)
  <2>1. t \in [1..Len(o) -> Events] BY <1>5, Zenon
  <2> HIDE DEF t, o
  <2> QED BY <1>3, <2>1
<1> HIDE DEF t, o
<1>7. /\ r \in Seq(Events) /\ Len(r) = Len(q) + Len(o) /\ Len(q) \in Nat
      /\ \A k \in 1..Len(q) : r[k] = q[k]
      /\ \A k \in 1..Len(o) : r[Len(q) + k] = t[k]
  <2>1. q \in Seq(Events) OBVIOUS
  <2> HIDE DEF q
  <2>2. /\ r \in Seq(Events) /\ Len(r) = Len(q) + Len(t) /\ Len(q) \in Nat
        /\ \A k \in 1..Len(q) : r[k] = q[k]
        /\ \A k \in 1..Len(t) : r[Len(q) + k] = t[k]
    BY <1>6, <2>1, ConcatEvents, Zenon
  <2> HIDE DEF r
  <2> QED BY <1>6, <2>2, Zenon
<1> HIDE DEF r, q
<1>8. /\ Len(q) <= Len(r)
      /\ \A k \in (Len(q) + 1)..Len(r) : k - Len(q) \in 1..Len(o) /\ r[k] = t[k - Len(q)]
      /\ \A k \in 1..Len(o) : Len(q) + k \in (Len(q) + 1)..Len(r)
  BY <1>3, <1>7
<1>9. ASSUME NEW k \in (Len(q) + 1)..Len(r)
      PROVE  /\ r[k].kind = kind /\ r[k].dcids \subseteq T
             /\ \E d \in Dcids : r[k].dcids = {d}
  <2>1. PICK j \in 1..Len(o) : r[k] = t[j] BY <1>8, Zenon
  <2>2. r[k].kind = kind /\ r[k].dcids = {o[j]} BY <1>5, <2>1, Zenon
  <2>3. o[j] \in T /\ o[j] \in Dcids BY <1>3, Zenon
  <2> QED BY <2>2, <2>3, Zenon
<1>10. ASSUME NEW d \in T PROVE \E k \in (Len(q) + 1)..Len(r) : d \in r[k].dcids
  <2>1. PICK k \in 1..Len(o) : o[k] = d BY <1>2, Zenon
  <2>2. d \in r[Len(q) + k].dcids BY <1>5, <1>7, <2>1, Zenon
  <2> QED BY <1>8, <2>2, Zenon
<1>11. kind = "DcidStaged" => Len(r) <= Len(q) + 1
  <2>1. SUFFICES ASSUME kind = "DcidStaged", Len(o) > 1 PROVE FALSE BY <1>3, <1>7
  <2>2. 1 \in 1..Len(o) /\ 2 \in 1..Len(o) /\ 1 # 2 BY <1>3, <2>1
  <2>3. o[1] \in T /\ o[2] \in T /\ o[1] # o[2] BY <1>2, <1>3, <2>2, Zenon
  <2>4. \A x, y \in T : x = y BY <2>1, Zenon
  <2> QED BY <2>3, <2>4, Zenon
<1>12. kind # "Replaced" BY DEF Single
<1>13. Added(q, r, kind, T) BY <1>7, <1>8, <1>9, <1>10, <1>11, <1>12, Zenon DEF Added, q
<1> QED BY <1>1, <1>13, Zenon DEF q, r

(* Nothing to emit. *)
LEMMA EmitNothing ==
  ASSUME NEW e, IsRecord(e), e.events \in Seq(Events), NEW kind \in Single
  PROVE  EmitEach(e, kind, {}) = e
<1> DEFINE o == Order[{}]
           t == [k \in 1..Len(o) |-> [kind |-> kind, dcids |-> {o[k]}]]
<1>1. o \in Seq({}) BY LaneAssumption, Zenon DEF Lists
<1>2. Len(o) = 0 BY <1>1
<1>3. t = <<>> BY <1>2
<1>4. e.events \o t = e.events BY <1>3
<1>5. EmitEach(e, kind, {}) = [e EXCEPT !.events = e.events]
  <2>1. EmitEach(e, kind, {}) = [e EXCEPT !.events = e.events \o t] BY DEF EmitEach
  <2> HIDE DEF t
  <2> QED BY <1>4, <2>1, Zenon
<1> QED BY <1>5 DEF IsRecord, EngineFields

(* A connection that is driven, or that tracks one more connection ID. *)
LEMMA ConnectionIs ==
  ASSUME NEW c, IsConnection(c)
  PROVE  /\ c # None
         /\ DOMAIN c = {"initial", "dcids", "authenticated", "dead", "dcid_limit_exceeded"}
         /\ c.initial \subseteq Dcids /\ c.dcids \subseteq Dcids /\ c.authenticated \in BOOLEAN
         /\ c.dead \in BOOLEAN /\ c.dcid_limit_exceeded \in BOOLEAN
<1>1. c # None BY LaneAssumption, Zenon DEF IsConnection
<1> QED BY <1>1 DEF IsConnection, Connections

DrivenTo(c, o, t) ==
  /\ IsConnection(t) /\ t.initial = c.initial /\ t.dcids = c.dcids
  /\ t.dcid_limit_exceeded = c.dcid_limit_exceeded
  /\ t.authenticated = (c.authenticated \/ o.auth) /\ t.dead = (c.dead \/ o.dead)

LEMMA DrivenIs ==
  ASSUME NEW c, IsConnection(c), NEW o, o.auth \in BOOLEAN, o.dead \in BOOLEAN
  PROVE  DrivenTo(c, o, Driven(c, o))
<1> DEFINE t == [c EXCEPT !.authenticated = @ \/ o.auth, !.dead = @ \/ o.dead]
<1>1. c # None BY ConnectionIs, Zenon
<1>2. /\ t \in Connections /\ t.initial = c.initial /\ t.dcids = c.dcids
      /\ t.dcid_limit_exceeded = c.dcid_limit_exceeded
      /\ t.authenticated = (c.authenticated \/ o.auth) /\ t.dead = (c.dead \/ o.dead)
  BY Zenon DEF IsConnection, Connections
<1>3. Driven(c, o) = t BY <1>1 DEF Driven
<1> HIDE DEF t
<1> QED BY <1>2, <1>3, Zenon DEF IsConnection, DrivenTo

TrackedTo(c, d, t) ==
  /\ IsConnection(t) /\ t.initial = c.initial /\ t.authenticated = c.authenticated
  /\ t.dead = c.dead
  /\ t.dcids = IF t.dcid_limit_exceeded THEN c.dcids ELSE c.dcids \cup {d}

LEMMA TrackedIs ==
  ASSUME NEW c, IsConnection(c), NEW d \in Dcids, d \notin c.dcids
  PROVE  TrackedTo(c, d, Tracked(c, d))
<1> DEFINE t == [c EXCEPT !.dcid_limit_exceeded = TRUE]
           u == [c EXCEPT !.dcids = @ \cup {d}]
<1>1. CASE Cardinality(c.dcids) >= MaxTrackedDcids
  <2>1. /\ t \in Connections /\ t.initial = c.initial /\ t.dcids = c.dcids
        /\ t.dcid_limit_exceeded /\ t.authenticated = c.authenticated /\ t.dead = c.dead
    BY Zenon DEF IsConnection, Connections
  <2>2. Tracked(c, d) = t BY <1>1 DEF Tracked
  <2> HIDE DEF t
  <2> QED BY <1>1, <2>1, <2>2, Zenon DEF IsConnection, TrackedTo
<1>2. CASE ~(Cardinality(c.dcids) >= MaxTrackedDcids)
  <2>1. /\ u \in Connections /\ u.initial = c.initial /\ u.dcids = c.dcids \cup {d}
        /\ u.dcid_limit_exceeded = c.dcid_limit_exceeded
        /\ u.authenticated = c.authenticated /\ u.dead = c.dead
    BY DEF IsConnection, Connections
  <2>2. Tracked(c, d) = u BY <1>2 DEF Tracked
  <2>3. ~c.dcid_limit_exceeded BY <1>2, Zenon DEF IsConnection
  <2> HIDE DEF u
  <2> QED BY <2>1, <2>2, <2>3, Zenon DEF IsConnection, TrackedTo
<1> QED BY <1>1, <1>2, Zenon

(* publish_dcid. *)
Published(e, f, T) ==
  /\ IsRecord(f) /\ f.role = e.role /\ f.connection = e.connection /\ f.candidate = e.candidate
  /\ f.promotion = e.promotion /\ f.published = e.published \cup T
  /\ Added(e.events, f.events, "DcidPublished", T \ e.published)

LEMMA PublishIs ==
  ASSUME NEW e, IsRecord(e), e.events \in Seq(Events), NEW T \in SUBSET Dcids
  PROVE  Published(e, Publish(e, T), T)
<1> DEFINE g == EmitEach(e, "DcidPublished", T \ e.published)
           f == [g EXCEPT !.published = @ \cup T]
<1>1. SameBut(e, g) /\ Added(e.events, g.events, "DcidPublished", T \ e.published)
  <2>1. "DcidPublished" \in Single /\ "DcidPublished" # "DcidStaged" BY DEF Single
  <2> QED BY <2>1, EmitEachAdds, Zenon
<1>2. Publish(e, T) = f BY Zenon DEF Publish
<1> HIDE DEF g
<1>3. /\ IsRecord(f) /\ f.role = g.role /\ f.connection = g.connection
      /\ f.candidate = g.candidate /\ f.promotion = g.promotion
      /\ f.published = g.published \cup T /\ f.events = g.events
  BY <1>1, Zenon DEF SameBut, IsRecord, EngineFields
<1> HIDE DEF f
<1> QED BY <1>1, <1>2, <1>3, Zenon DEF SameBut, Published

(* stage_dcids_for_handle. *)
Staged(e, f, slot, d) ==
  /\ IsRecord(f) /\ TrackedTo(e[slot], d, f[slot])
  /\ \A x \in EngineFields \ {slot, "published", "events"} : f[x] = e[x]
  /\ IF f[slot].dcid_limit_exceeded THEN f.published = e.published /\ f.events = e.events
     ELSE IF f[slot].authenticated
     THEN /\ f.published = e.published \cup {d}
          /\ Added(e.events, f.events, "DcidPublished", {d} \ e.published)
     ELSE /\ f.published = e.published
          /\ Added(e.events, f.events, "DcidStaged", {d})

LEMMA StageIs ==
  ASSUME NEW e, IsRecord(e), e.events \in Seq(Events), NEW slot \in {"connection", "candidate"},
         IsConnection(e[slot]), NEW d \in Dcids, d \notin e[slot].dcids
  PROVE  Staged(e, Stage(e, slot, {d}), slot, d)
<1> DEFINE c == Tracked(e[slot], d)
           g == [e EXCEPT ![slot] = c]
           f == Stage(e, slot, {d})
<1>1. TrackedTo(e[slot], d, c) BY TrackedIs, Zenon
<1>2. {d} # {} /\ (CHOOSE x \in {d} : TRUE) = d OBVIOUS
<1>3. f = IF c.dcid_limit_exceeded THEN g
          ELSE IF c.authenticated THEN Publish(g, {d}) ELSE EmitEach(g, "DcidStaged", {d})
  BY <1>2, Zenon DEF Stage
<1> HIDE DEF c
<1>4. /\ IsRecord(g) /\ g[slot] = c /\ g.published = e.published /\ g.events = e.events
      /\ \A x \in EngineFields \ {slot} : g[x] = e[x]
  BY DEF IsRecord, EngineFields
<1> HIDE DEF f, g
<1>5. CASE c.dcid_limit_exceeded
  <2>1. f = g BY <1>3, <1>5, Zenon
  <2> QED BY <1>1, <1>4, <1>5, <2>1, Zenon DEF Staged, f
<1>6. CASE ~c.dcid_limit_exceeded /\ c.authenticated
  <2>1. f = Publish(g, {d}) BY <1>3, <1>6, Zenon
  <2>2. Published(g, f, {d}) BY <1>4, <2>1, PublishIs, Zenon
  <2>3. f[slot] = g[slot] BY <2>2, Zenon DEF Published
  <2>4. \A x \in EngineFields \ {slot, "published", "events"} : f[x] = g[x]
    BY <2>2, Zenon DEF Published, EngineFields
  <2> QED BY <1>1, <1>4, <1>6, <2>2, <2>3, <2>4, Zenon DEF Staged, Published, f
<1>7. CASE ~c.dcid_limit_exceeded /\ ~c.authenticated
  <2>1. f = EmitEach(g, "DcidStaged", {d}) BY <1>3, <1>7, Zenon
  <2>2. SameBut(g, f) /\ Added(g.events, f.events, "DcidStaged", {d})
    <3>1. "DcidStaged" \in Single BY Zenon DEF Single
    <3> QED BY <1>4, <2>1, <3>1, EmitEachAdds, Zenon
  <2>3. f[slot] = g[slot] BY <2>2, Zenon DEF SameBut
  <2>4. \A x \in EngineFields \ {slot, "published", "events"} : f[x] = g[x]
    BY <2>2, Zenon DEF SameBut, EngineFields
  <2> QED BY <1>1, <1>4, <1>7, <2>2, <2>3, <2>4, Zenon DEF Staged, SameBut, f
<1> QED BY <1>5, <1>6, <1>7, Zenon

LEMMA StageNothing ==
  ASSUME NEW e, IsRecord(e), e.events \in Seq(Events), NEW slot \in {"connection", "candidate"}
  PROVE  Stage(e, slot, {}) = e
<1> DEFINE g == [e EXCEPT ![slot] = e[slot]]
           f == [e EXCEPT !.published = @ \cup {}]
<1>1. g = e /\ f = e BY Zenon DEF IsRecord, EngineFields
<1>2. "DcidPublished" \in Single /\ "DcidStaged" \in Single /\ {} \ e.published = {} BY DEF Single
<1>3. Publish(e, {}) = e BY <1>1, <1>2, EmitNothing, Zenon DEF Publish
<1> QED BY <1>1, <1>2, <1>3, EmitNothing, Zenon DEF Stage

-----------------------------------------------------------------------------
(* The operations keep the invariant. *)

(* No connection ID will be both active and staged. *)
LEMMA ActiveNotStaged ==
  ASSUME NEW q, NEW by, NEW st, QueueInv(q, by, st)
  PROVE  ActiveAfter(q, by) \cap StagedAfter(q, st) = {}
<1>1. SUFFICES ASSUME NEW d \in Dcids, d \in ActiveAfter(q, by), d \in StagedAfter(q, st)
               PROVE  FALSE
  BY SetsOfDcids, Zenon
<1>2. Len(q) \in Nat BY DEF QueueInv
<1>3. ASSUME NEW k \in 1..Len(q), Publishes(q[k], d) PROVE LeavesFrom(q, 1, d)
  BY <1>3, Zenon DEF LeavesFrom
<1>4. ASSUME NEW k \in 1..Len(q), Stages(q[k], d), NEW j \in 1..Len(q), Publishes(q[j], d)
      PROVE  LeavesFrom(q, k, d)
  <2>1. d \in q[j].dcids BY <1>4, Zenon DEF Publishes
  <2>2. j \notin 1..(k - 1) BY <1>4, <2>1, Zenon DEF QueueInv
  <2>3. j \in k..Len(q) BY <1>2, <2>2
  <2> QED BY <1>4, <2>3, Zenon DEF LeavesFrom
<1>5. ASSUME NEW k \in 1..Len(q), Stages(q[k], d) PROVE d \notin by
  BY <1>5, Zenon DEF QueueInv
<1>6. ~(d \in by /\ d \in st) BY Zenon DEF QueueInv
<1> QED BY <1>1, <1>3, <1>4, <1>5, <1>6, Zenon DEF ActiveAfter, StagedAfter

(* The transports report. *)
Reports(e, c, o) ==
  /\ o.auth \in BOOLEAN /\ o.lost \in BOOLEAN /\ o.dead \in BOOLEAN
  /\ c = None => o = Quiet
  /\ c # None /\ o.auth => ~c.authenticated

LEMMA QuietIs == ~Quiet.auth /\ ~Quiet.lost /\ ~Quiet.dead /\ Quiet.dcids = {}
BY Zenon DEF Quiet, Outcome

DrivenBoth(e, oa, oc) ==
  [e EXCEPT !.connection = Driven(@, oa), !.candidate = Driven(@, oc)]

LEMMA DrivenMid ==
  ASSUME NEW e, NEW w, NEW oa, NEW oc, EngineInv(e, w),
         Reports(e, e.connection, oa), Reports(e, e.candidate, oc),
         oc.auth => ~Has(e.events, "Closed")
  PROVE  Mid(DrivenBoth(e, oa, oc), w, oa.auth, oc.auth, oa.dead, oc.dead)
<1> DEFINE f == DrivenBoth(e, oa, oc)
<1>1. /\ IsRecord(f) /\ f.role = e.role /\ f.published = e.published
      /\ f.promotion = e.promotion /\ f.events = e.events
      /\ f.connection = Driven(e.connection, oa) /\ f.candidate = Driven(e.candidate, oc)
  BY Zenon DEF DrivenBoth, EngineInv, Mid, IsEngine, IsRecord, EngineFields
<1>2. /\ e.connection = None => f.connection = None
      /\ e.candidate = None => f.candidate = None
  BY <1>1, Zenon DEF Driven
<1>3. /\ e.connection # None => DrivenTo(e.connection, oa, f.connection)
      /\ e.candidate # None => DrivenTo(e.candidate, oc, f.candidate)
  <2>1. /\ e.connection # None => IsConnection(e.connection)
        /\ e.candidate # None => IsConnection(e.candidate)
    BY Zenon DEF EngineInv, Mid, IsEngine
  <2>2. /\ oa.auth \in BOOLEAN /\ oa.dead \in BOOLEAN /\ oc.auth \in BOOLEAN /\ oc.dead \in BOOLEAN
    BY Zenon DEF Reports
  <2>3. /\ e.connection # None => DrivenTo(e.connection, oa, Driven(e.connection, oa))
        /\ e.candidate # None => DrivenTo(e.candidate, oc, Driven(e.candidate, oc))
    BY <2>1, <2>2, DrivenIs, SMT
  <2> HIDE DEF f
  <2> QED BY <1>1, <2>3, SMT
<1> HIDE DEF f
<1>4. /\ f.connection # None <=> e.connection # None
      /\ f.connection # None => DrivenTo(e.connection, oa, f.connection)
      /\ f.candidate # None <=> e.candidate # None
      /\ f.candidate # None => DrivenTo(e.candidate, oc, f.candidate)
  BY <1>2, <1>3, ConnectionIs, Zenon DEF DrivenTo
<1>5. IsEngine(f, w)
  BY <1>1, <1>4, Zenon DEF EngineInv, Mid, IsEngine, DrivenTo
<1>6. /\ f.connection # None => ~oa.auth \/ ~e.connection.authenticated
      /\ f.candidate # None => ~oc.auth \/ ~e.candidate.authenticated
      /\ f.connection = None => ~oa.auth
      /\ f.candidate = None => ~oc.auth
  BY <1>4, QuietIs, Zenon DEF Reports
<1>7. /\ Unannounced(f.connection, oa.auth) = Unannounced(e.connection, FALSE)
      /\ Unannounced(f.candidate, oc.auth) = Unannounced(e.candidate, FALSE)
      /\ Generated(f.connection) \subseteq Generated(e.connection)
      /\ Generated(f.candidate) \subseteq Generated(e.candidate)
      /\ DcidsOf(f.candidate) = DcidsOf(e.candidate)
      /\ DcidsOf(f.connection) = DcidsOf(e.connection)
  BY <1>4, <1>6, Zenon DEF Unannounced, Generated, DcidsOf, DrivenTo
<1>8. Routes(f, w, oa.auth, oc.auth)
  <2>1. Routes(e, w, FALSE, FALSE) BY Zenon DEF EngineInv, Mid
  <2>2. Promised(f) = Promised(e) BY <1>1, <1>7, Zenon DEF Promised
  <2>3. f.connection # None /\ f.connection.authenticated /\ ~oa.auth =>
          f.connection.dcids \subseteq f.published
    BY <1>1, <1>4, <2>1, Zenon DEF Routes, DrivenTo
  <2> QED BY <1>1, <1>7, <2>1, <2>2, <2>3, Zenon DEF Routes
<1>9. CandidateInv(f, w, oc.auth)
  <2>1. CandidateInv(e, w, FALSE) BY Zenon DEF EngineInv, Mid
  <2> QED BY <1>1, <1>4, <1>6, <2>1, Zenon DEF CandidateInv, DrivenTo
<1>10. AliveInv(f, w, oa.dead, oc.dead)
  <2>1. AliveInv(e, w, FALSE, FALSE) BY Zenon DEF EngineInv, Mid
  <2> QED BY <1>1, <1>4, <1>7, <2>1, Zenon DEF AliveInv, DrivenTo
<1>11. PendingInv(f, w, oa.auth)
  <2>1. PendingInv(e, w, FALSE) BY Zenon DEF EngineInv, Mid
  <2> QED BY <1>1, <1>4, <2>1, Zenon DEF PendingInv, IsAuthenticated, DrivenTo
<1> QED BY <1>5, <1>8, <1>9, <1>10, <1>11, Zenon DEF Mid, f

(* A connection ID that nothing knows of yet. *)
New(e, w, d) ==
  /\ d \in Dcids /\ d \notin DcidsOf(e.connection) /\ d \notin DcidsOf(e.candidate)
  /\ d \notin e.published /\ d \notin Mentioned(e.events) /\ d \notin w.by /\ d \notin w.st

LEMMA NewIs ==
  ASSUME NEW e, NEW w, NEW d, New(e, w, d)
  PROVE  /\ d \notin ActiveAfter(e.events, w.by) /\ d \notin StagedAfter(e.events, w.st)
         /\ d \notin Announced(e.events)
BY Zenon DEF New, ActiveAfter, StagedAfter, Announced, Mentioned, Publishes, Stages

(* The queue of the engine, when an event about a new connection ID joins. *)
Joined(e, f, w) ==
  /\ QueueInv(f.events, w.by, w.st)
  /\ \A x \in {"Replaced", "Closed", "Authenticated"} : Has(f.events, x) <=> Has(e.events, x)

SameQueue(e, f, w) ==
  /\ Joined(e, f, w) /\ f.published = e.published
  /\ ActiveAfter(f.events, w.by) = ActiveAfter(e.events, w.by)
  /\ StagedAfter(f.events, w.st) = StagedAfter(e.events, w.st)
  /\ Announced(f.events) = Announced(e.events)

PublishedQueue(e, f, w, d) ==
  /\ Joined(e, f, w) /\ f.published = e.published \cup {d}
  /\ ActiveAfter(f.events, w.by) = ActiveAfter(e.events, w.by) \cup {d}
  /\ StagedAfter(f.events, w.st) = StagedAfter(e.events, w.st)
  /\ Announced(f.events) = Announced(e.events) \cup {d}

StagedQueue(e, f, w, d) ==
  /\ Joined(e, f, w) /\ f.published = e.published
  /\ ActiveAfter(f.events, w.by) = ActiveAfter(e.events, w.by)
  /\ StagedAfter(f.events, w.st) = StagedAfter(e.events, w.st) \cup {d}
  /\ Announced(f.events) = Announced(e.events)

LEMMA StageQueue ==
  ASSUME NEW e, NEW f, NEW w, NEW slot, NEW d, IsEngine(e, w), New(e, w, d),
         Staged(e, f, slot, d)
  PROVE  /\ f[slot].dcid_limit_exceeded => SameQueue(e, f, w)
         /\ ~f[slot].dcid_limit_exceeded /\ f[slot].authenticated => PublishedQueue(e, f, w, d)
         /\ ~f[slot].dcid_limit_exceeded /\ ~f[slot].authenticated => StagedQueue(e, f, w, d)
<1>1. /\ QueueInv(e.events, w.by, w.st) /\ d \in Dcids /\ d \notin e.published
      /\ d \notin Mentioned(e.events) /\ d \notin w.by /\ d \notin w.st
  BY Zenon DEF IsEngine, New
<1>2. d \notin StagedAfter(e.events, w.st) BY NewIs, Zenon
<1>3. {d} \in SUBSET Dcids /\ {d} \ e.published = {d} BY <1>1, Zenon
<1>4. /\ "DcidPublished" \in Publishing /\ "DcidPublished" # "DcidStaged"
      /\ \A x \in {"Replaced", "Closed", "Authenticated"} : x # "DcidPublished" /\ x # "DcidStaged"
      /\ "DcidPublished" # "Replaced" /\ "DcidStaged" # "Replaced"
  BY Zenon DEF Publishing
<1>5. CASE f[slot].dcid_limit_exceeded
  BY <1>1, <1>5, Zenon DEF Staged, SameQueue, Joined
<1>6. CASE ~f[slot].dcid_limit_exceeded /\ f[slot].authenticated
  <2>1. /\ f.published = e.published \cup {d}
        /\ Added(e.events, f.events, "DcidPublished", {d})
    BY <1>3, <1>6, Zenon DEF Staged
  <2>2. /\ ActiveAfter(f.events, w.by) = ActiveAfter(e.events, w.by) \cup {d}
        /\ StagedAfter(f.events, w.st) = StagedAfter(e.events, w.st) \ {d}
        /\ Announced(f.events) = Announced(e.events) \cup {d}
    <3> DEFINE T == {d}
    <3>1. T \in SUBSET Dcids /\ Added(e.events, f.events, "DcidPublished", T) BY <1>3, <2>1, Zenon
    <3> HIDE DEF T
    <3>2. Publication(e.events, f.events, w.by, w.st, T)
      BY <1>4, <3>1, AddedPublishing, Zenon
    <3> QED BY <3>2, Zenon DEF Publication, T
  <2>3. StagedAfter(e.events, w.st) \ {d} = StagedAfter(e.events, w.st) BY <1>2, Zenon
  <2>4. QueueInv(f.events, w.by, w.st) BY <1>1, <1>3, <1>4, <2>1, AddedInv, Zenon
  <2>5. \A x \in {"Replaced", "Closed", "Authenticated"} : Has(f.events, x) <=> Has(e.events, x)
    BY <1>4, <2>1, AddedHas, Zenon
  <2>6. PublishedQueue(e, f, w, d) BY <2>1, <2>2, <2>3, <2>4, <2>5, Zenon DEF PublishedQueue, Joined
  <2> QED BY <1>6, <2>6, Zenon
<1>7. CASE ~f[slot].dcid_limit_exceeded /\ ~f[slot].authenticated
  <2>1. f.published = e.published /\ Added(e.events, f.events, "DcidStaged", {d})
    BY <1>7, Zenon DEF Staged
  <2>2. /\ ActiveAfter(f.events, w.by) = ActiveAfter(e.events, w.by)
        /\ StagedAfter(f.events, w.st) = StagedAfter(e.events, w.st) \cup {d}
        /\ Announced(f.events) = Announced(e.events)
    BY <1>3, <2>1, AddedStaged, SMT
  <2>3. {d} \cap (w.by \cup w.st \cup Mentioned(e.events)) = {} BY <1>1, Zenon
  <2>4. QueueInv(f.events, w.by, w.st) BY <1>1, <1>3, <1>4, <2>1, <2>3, AddedInv, Zenon
  <2>5. \A x \in {"Replaced", "Closed", "Authenticated"} : Has(f.events, x) <=> Has(e.events, x)
    BY <1>4, <2>1, AddedHas, Zenon
  <2>6. StagedQueue(e, f, w, d) BY <2>1, <2>2, <2>4, <2>5, Zenon DEF StagedQueue, Joined
  <2> QED BY <1>7, <2>6, Zenon
<1> QED BY <1>5, <1>6, <1>7, Zenon

LEMMA StageConnection ==
  ASSUME NEW e, NEW w, NEW xa, NEW xc, NEW da, NEW dc, Mid(e, w, xa, xc, da, dc),
         e.connection # None, NEW d, New(e, w, d)
  PROVE  Mid(Stage(e, "connection", {d}), w, xa, xc, da, dc)
<1> DEFINE f == Stage(e, "connection", {d})
           c == e.connection
           t == f.connection
<1>1. IsEngine(e, w) /\ IsRecord(e) /\ e.events \in Seq(Events) /\ IsConnection(c)
  BY Zenon DEF Mid, IsEngine, QueueInv
<1>2. d \in Dcids /\ d \notin c.dcids /\ d \notin DcidsOf(e.candidate) BY Zenon DEF New, DcidsOf
<1>3. Staged(e, f, "connection", d)
  <2>1. "connection" \in {"connection", "candidate"} BY Zenon
  <2> QED BY <1>1, <1>2, <2>1, StageIs, Zenon
<1> HIDE DEF f
<1>4. /\ IsRecord(f) /\ TrackedTo(c, d, t) /\ f.role = e.role /\ f.promotion = e.promotion
      /\ f.candidate = e.candidate
  BY <1>3, Zenon DEF Staged, EngineFields
<1>5. /\ t.dcid_limit_exceeded => SameQueue(e, f, w)
      /\ ~t.dcid_limit_exceeded /\ t.authenticated => PublishedQueue(e, f, w, d)
      /\ ~t.dcid_limit_exceeded /\ ~t.authenticated => StagedQueue(e, f, w, d)
  BY <1>1, <1>3, StageQueue, Zenon
<1>6. Joined(e, f, w)
  BY <1>5, Zenon DEF SameQueue, PublishedQueue, StagedQueue
<1>7. /\ IsConnection(t) /\ t # None /\ t.authenticated = c.authenticated /\ t.dead = c.dead
      /\ t.initial = c.initial
  BY <1>4, ConnectionIs, Zenon DEF TrackedTo
<1>8. /\ Has(f.events, "Replaced") <=> Has(e.events, "Replaced")
      /\ Has(f.events, "Closed") <=> Has(e.events, "Closed")
      /\ Has(f.events, "Authenticated") <=> Has(e.events, "Authenticated")
  BY <1>6, Zenon DEF Joined
<1>9. /\ e.published \subseteq Dcids /\ f.published \subseteq Dcids
      /\ e.published \subseteq f.published /\ f.published \subseteq e.published \cup {d}
  BY <1>1, <1>2, <1>5, Zenon DEF IsEngine, SameQueue, PublishedQueue, StagedQueue
<1>10. IsEngine(f, w)
  BY <1>1, <1>4, <1>6, <1>7, <1>9, Zenon DEF IsEngine, Joined
<1>11. d \notin w.by /\ d \notin Announced(e.events) BY NewIs, Zenon DEF New
<1>12. CandidateInv(f, w, xc)
  <2>1. CandidateInv(e, w, xc) BY Zenon DEF Mid
  <2>2. Announced(f.events) \subseteq Announced(e.events) \cup {d}
    BY <1>5, Zenon DEF SameQueue, PublishedQueue, StagedQueue
  <2>3. e.candidate # None /\ ~e.candidate.authenticated =>
          e.candidate.dcids \cap (w.by \cup f.published \cup Announced(f.events)) = {}
    BY <1>2, <1>9, <2>1, <2>2, Zenon DEF CandidateInv, DcidsOf
  <2> QED BY <1>4, <1>7, <1>8, <2>1, <2>3, Zenon DEF CandidateInv
<1>13. AliveInv(f, w, da, dc)
  <2>1. AliveInv(e, w, da, dc) BY Zenon DEF Mid
  <2>2. DcidsOf(c) = c.dcids /\ DcidsOf(t) = t.dcids BY <1>7, Zenon DEF DcidsOf
  <2>3. t.dcid_limit_exceeded => f.published = e.published /\ t.dcids = c.dcids
    BY <1>4, <1>5, Zenon DEF TrackedTo, SameQueue
  <2>4. ~t.dcid_limit_exceeded => t.dcids = c.dcids \cup {d}
    BY <1>4, Zenon DEF TrackedTo
  <2>5. e.published \subseteq DcidsOf(c) \cup DcidsOf(e.candidate) =>
        f.published \subseteq DcidsOf(t) \cup DcidsOf(f.candidate)
    BY <1>4, <1>9, <2>2, <2>3, <2>4, Zenon
  <2> QED BY <1>4, <1>7, <2>1, <2>5, Zenon DEF AliveInv
<1>14. PendingInv(f, w, xa)
  <2>1. PendingInv(e, w, xa) BY Zenon DEF Mid
  <2> QED BY <1>4, <1>7, <1>8, <2>1, Zenon DEF PendingInv, IsAuthenticated
<1>15. Routes(f, w, xa, xc)
  <2>1. Routes(e, w, xa, xc) BY Zenon DEF Mid
  <2>2. Promised(f) = Promised(e) BY <1>4, Zenon DEF Promised
  <2>3. CASE t.dcid_limit_exceeded
    <3>1. t.dcids = c.dcids BY <1>4, <2>3, Zenon DEF TrackedTo
    <3>2. Unannounced(t, xa) = Unannounced(c, xa) /\ Generated(t) = Generated(c)
      BY <1>7, <3>1, Zenon DEF Unannounced, Generated
    <3>3. SameQueue(e, f, w) BY <1>5, <2>3, Zenon
    <3> QED BY <1>4, <1>7, <2>1, <2>2, <3>1, <3>2, <3>3, Zenon DEF Routes, SameQueue
  <2>4. CASE ~t.dcid_limit_exceeded /\ t.authenticated
    <3>1. t.dcids = c.dcids \cup {d} BY <1>4, <2>4, Zenon DEF TrackedTo
    <3>2. Unannounced(c, xa) \subseteq Unannounced(t, xa) /\ Generated(t) = Generated(c)
      BY <1>7, <2>4, <3>1, Zenon DEF Unannounced, Generated
    <3>3. PublishedQueue(e, f, w, d) BY <1>5, <2>4, Zenon
    <3>4. ActiveAfter(f.events, w.by) = f.published \cup Promised(f)
      BY <2>1, <2>2, <3>3, Zenon DEF Routes, PublishedQueue
    <3>5. ~xa => t.dcids \subseteq f.published
      BY <1>7, <2>1, <2>4, <3>1, <3>3, Zenon DEF Routes, PublishedQueue
    <3> QED BY <1>4, <1>7, <2>1, <3>2, <3>3, <3>4, <3>5, Zenon DEF Routes, PublishedQueue
  <2>5. CASE ~t.dcid_limit_exceeded /\ ~t.authenticated
    <3>1. t.dcids = c.dcids \cup {d} BY <1>4, <2>5, Zenon DEF TrackedTo
    <3>2. Unannounced(t, xa) = Unannounced(c, xa) \cup {d}
      BY <1>7, <2>5, <3>1, Zenon DEF Unannounced
    <3>3. Generated(t) \subseteq Generated(c) \cup {d}
      BY <1>7, <2>5, <3>1, Zenon DEF Generated
    <3>4. StagedQueue(e, f, w, d) BY <1>5, <2>5, Zenon
    <3> QED BY <1>4, <2>1, <2>2, <2>5, <3>2, <3>3, <3>4, Zenon DEF Routes, StagedQueue
  <2> QED BY <2>3, <2>4, <2>5, Zenon
<1> QED BY <1>10, <1>12, <1>13, <1>14, <1>15, Zenon DEF Mid, f

LEMMA StageCandidate ==
  ASSUME NEW e, NEW w, NEW xa, NEW xc, NEW da, NEW dc, Mid(e, w, xa, xc, da, dc),
         e.candidate # None, NEW d, New(e, w, d)
  PROVE  Mid(Stage(e, "candidate", {d}), w, xa, xc, da, dc)
<1> DEFINE f == Stage(e, "candidate", {d})
           c == e.candidate
           t == f.candidate
<1>1. IsEngine(e, w) /\ IsRecord(e) /\ e.events \in Seq(Events) /\ IsConnection(c)
  BY Zenon DEF Mid, IsEngine, QueueInv
<1>2. d \in Dcids /\ d \notin c.dcids /\ d \notin DcidsOf(e.connection) BY Zenon DEF New, DcidsOf
<1>3. Staged(e, f, "candidate", d)
  <2>1. "candidate" \in {"connection", "candidate"} BY Zenon
  <2> QED BY <1>1, <1>2, <2>1, StageIs, Zenon
<1> HIDE DEF f
<1>4. /\ IsRecord(f) /\ TrackedTo(c, d, t) /\ f.role = e.role /\ f.promotion = e.promotion
      /\ f.connection = e.connection
  BY <1>3, Zenon DEF Staged, EngineFields
<1>5. /\ t.dcid_limit_exceeded => SameQueue(e, f, w)
      /\ ~t.dcid_limit_exceeded /\ t.authenticated => PublishedQueue(e, f, w, d)
      /\ ~t.dcid_limit_exceeded /\ ~t.authenticated => StagedQueue(e, f, w, d)
  BY <1>1, <1>3, StageQueue, Zenon
<1>6. Joined(e, f, w)
  BY <1>5, Zenon DEF SameQueue, PublishedQueue, StagedQueue
<1>7. /\ IsConnection(t) /\ t # None /\ t.authenticated = c.authenticated /\ t.dead = c.dead
      /\ t.initial = c.initial
  BY <1>4, ConnectionIs, Zenon DEF TrackedTo
<1>8. /\ Has(f.events, "Replaced") <=> Has(e.events, "Replaced")
      /\ Has(f.events, "Closed") <=> Has(e.events, "Closed")
      /\ Has(f.events, "Authenticated") <=> Has(e.events, "Authenticated")
  BY <1>6, Zenon DEF Joined
<1>9. /\ e.published \subseteq Dcids /\ f.published \subseteq Dcids
      /\ e.published \subseteq f.published /\ f.published \subseteq e.published \cup {d}
  BY <1>1, <1>2, <1>5, Zenon DEF IsEngine, SameQueue, PublishedQueue, StagedQueue
<1>10. IsEngine(f, w)
  BY <1>1, <1>4, <1>6, <1>7, <1>9, Zenon DEF IsEngine, Joined
<1>11. d \notin w.by /\ d \notin e.published /\ d \notin Announced(e.events)
  BY NewIs, Zenon DEF New
<1>12. CandidateInv(f, w, xc)
  <2>1. CandidateInv(e, w, xc) BY Zenon DEF Mid
  <2>2. ~t.authenticated => f.published = e.published /\ Announced(f.events) = Announced(e.events)
    BY <1>5, Zenon DEF SameQueue, StagedQueue
  <2>3. t.dcids \subseteq c.dcids \cup {d} BY <1>4, Zenon DEF TrackedTo
  <2>4. ~c.authenticated => c.dcids \cap (w.by \cup e.published \cup Announced(e.events)) = {}
    BY <2>1, Zenon DEF CandidateInv
  <2>5. ~t.authenticated => t.dcids \cap (w.by \cup f.published \cup Announced(f.events)) = {}
    BY <1>2, <1>7, <1>11, <2>2, <2>3, <2>4, Zenon
  <2>6. /\ t # None => (f.promotion <=> t.authenticated /\ ~xc)
        /\ f.role = "client" => t = None
        /\ f.role = "server" /\ f.connection # None => f.connection.authenticated
        /\ f.promotion <=> Has(f.events, "Replaced")
    BY <1>4, <1>7, <1>8, <2>1, Zenon DEF CandidateInv
  <2>7. Has(f.events, "Closed") => f.connection = None /\ f.published = {} /\ ~t.authenticated
    BY <1>4, <1>7, <1>8, <2>1, <2>2, Zenon DEF CandidateInv
  <2> QED BY <2>5, <2>6, <2>7, Zenon DEF CandidateInv
<1>13. AliveInv(f, w, da, dc)
  <2>1. AliveInv(e, w, da, dc) BY Zenon DEF Mid
  <2>2. DcidsOf(c) = c.dcids /\ DcidsOf(t) = t.dcids BY <1>7, Zenon DEF DcidsOf
  <2>3. t.dcid_limit_exceeded => f.published = e.published /\ t.dcids = c.dcids
    BY <1>4, <1>5, Zenon DEF TrackedTo, SameQueue
  <2>4. ~t.dcid_limit_exceeded => t.dcids = c.dcids \cup {d}
    BY <1>4, Zenon DEF TrackedTo
  <2>5. e.published \subseteq DcidsOf(e.connection) \cup DcidsOf(c) =>
        f.published \subseteq DcidsOf(f.connection) \cup DcidsOf(t)
    BY <1>4, <1>9, <2>2, <2>3, <2>4, Zenon
  <2> QED BY <1>4, <1>7, <2>1, <2>5, Zenon DEF AliveInv
<1>14. PendingInv(f, w, xa)
  <2>1. PendingInv(e, w, xa) BY Zenon DEF Mid
  <2> QED BY <1>4, <1>7, <1>8, <2>1, Zenon DEF PendingInv, IsAuthenticated
<1>15. Routes(f, w, xa, xc)
  <2>1. Routes(e, w, xa, xc) BY Zenon DEF Mid
  <2>2. f.promotion => t.authenticated BY <1>7, <1>12, Zenon DEF CandidateInv
  <2>3. CASE t.dcid_limit_exceeded
    <3>1. t.dcids = c.dcids BY <1>4, <2>3, Zenon DEF TrackedTo
    <3>2. Unannounced(t, xc) = Unannounced(c, xc) /\ Generated(t) = Generated(c)
      BY <1>7, <3>1, Zenon DEF Unannounced, Generated
    <3>3. SameQueue(e, f, w) BY <1>5, <2>3, Zenon
    <3>4. Promised(f) = Promised(e) BY <1>4, <1>7, <3>1, Zenon DEF Promised, DcidsOf
    <3> QED BY <1>4, <2>1, <3>2, <3>3, <3>4, Zenon DEF Routes, SameQueue
  <2>4. CASE ~t.dcid_limit_exceeded /\ t.authenticated
    <3>1. t.dcids = c.dcids \cup {d} BY <1>4, <2>4, Zenon DEF TrackedTo
    <3>2. Unannounced(c, xc) \subseteq Unannounced(t, xc) /\ Generated(t) = Generated(c)
      BY <1>7, <2>4, <3>1, Zenon DEF Unannounced, Generated
    <3>3. PublishedQueue(e, f, w, d) BY <1>5, <2>4, Zenon
    <3>4. Promised(f) \cup {d} = Promised(e) \cup {d}
      BY <1>4, <1>7, <3>1, Zenon DEF Promised, DcidsOf
    <3>5. ActiveAfter(f.events, w.by) = f.published \cup Promised(f)
      BY <2>1, <3>3, <3>4, Zenon DEF Routes, PublishedQueue
    <3> QED BY <1>4, <2>1, <3>2, <3>3, <3>5, Zenon DEF Routes, PublishedQueue
  <2>5. CASE ~t.dcid_limit_exceeded /\ ~t.authenticated
    <3>1. t.dcids = c.dcids \cup {d} BY <1>4, <2>5, Zenon DEF TrackedTo
    <3>2. Unannounced(t, xc) = Unannounced(c, xc) \cup {d}
      BY <1>7, <2>5, <3>1, Zenon DEF Unannounced
    <3>3. Generated(t) \subseteq Generated(c) \cup {d}
      BY <1>7, <2>5, <3>1, Zenon DEF Generated
    <3>4. StagedQueue(e, f, w, d) BY <1>5, <2>5, Zenon
    <3>5. Promised(f) = Promised(e) BY <1>4, <2>2, <2>5, Zenon DEF Promised
    <3> QED BY <1>4, <2>1, <3>2, <3>3, <3>4, <3>5, Zenon DEF Routes, StagedQueue
  <2> QED BY <2>3, <2>4, <2>5, Zenon
<1> QED BY <1>10, <1>12, <1>13, <1>14, <1>15, Zenon DEF Mid, f

(* publish_dcid for all connection IDs of a connection that authenticated. *)
Announce(e, T) == Emit(Publish(e, T), "Authenticated", {})

AnnouncedTo(e, f, w, T) ==
  /\ IsRecord(f) /\ f.role = e.role /\ f.connection = e.connection /\ f.candidate = e.candidate
  /\ f.promotion = e.promotion /\ f.published = e.published \cup T
  /\ QueueInv(f.events, w.by, w.st)
  /\ ActiveAfter(f.events, w.by) = ActiveAfter(e.events, w.by) \cup T
  /\ StagedAfter(f.events, w.st) = StagedAfter(e.events, w.st) \ T
  /\ Has(f.events, "Authenticated")
  /\ Has(f.events, "Replaced") <=> Has(e.events, "Replaced")
  /\ Has(f.events, "Closed") <=> Has(e.events, "Closed")

LEMMA AnnounceIs ==
  ASSUME NEW e, NEW w, NEW T \in SUBSET Dcids, IsRecord(e), QueueInv(e.events, w.by, w.st),
         e.published \subseteq ActiveAfter(e.events, w.by)
  PROVE  AnnouncedTo(e, Announce(e, T), w, T)
<1> DEFINE g == Publish(e, T)
           f == Emit(g, "Authenticated", {})
           U == T \ e.published
<1>1. e.events \in Seq(Events) /\ U \in SUBSET Dcids BY Zenon DEF QueueInv
<1>2. Published(e, g, T) BY <1>1, PublishIs, Zenon
<1> HIDE DEF g
<1>3. IsRecord(g) /\ Added(e.events, g.events, "DcidPublished", U) /\ g.events \in Seq(Events)
  BY <1>2, Zenon DEF Published, Added
<1>4. /\ "DcidPublished" \in Publishing /\ "DcidPublished" # "DcidStaged"
      /\ "DcidPublished" # "Replaced" /\ "Replaced" # "DcidPublished" /\ "Closed" # "DcidPublished"
      /\ "Authenticated" \in Kinds \ Single /\ {} \in SUBSET Dcids /\ "Authenticated" # "DcidStaged"
      /\ "Authenticated" # "Replaced" /\ "Replaced" # "Authenticated" /\ "Closed" # "Authenticated"
  BY Zenon DEF Publishing, Kinds, Single
<1>5. /\ SameBut(g, f) /\ Added(g.events, f.events, "Authenticated", {})
      /\ Len(f.events) = Len(g.events) + 1
  BY <1>3, <1>4, EmitAdds, SMT
<1> HIDE DEF f, U
<1>6. Publication(e.events, g.events, w.by, w.st, U)
  BY <1>1, <1>3, <1>4, AddedPublishing, Zenon
<1>7. /\ ActiveAfter(f.events, w.by) = ActiveAfter(g.events, w.by)
      /\ StagedAfter(f.events, w.st) = StagedAfter(g.events, w.st)
  BY <1>5, AddedAuthenticated, SMT
<1>8. QueueInv(g.events, w.by, w.st) BY <1>1, <1>3, <1>4, AddedInv, SMT
<1>9. QueueInv(f.events, w.by, w.st) BY <1>4, <1>5, <1>8, AddedInv, SMT
<1>10. /\ Has(g.events, "Replaced") <=> Has(e.events, "Replaced")
       /\ Has(g.events, "Closed") <=> Has(e.events, "Closed")
  BY <1>3, <1>4, AddedHas, Zenon
<1>11. /\ Has(f.events, "Replaced") <=> Has(g.events, "Replaced")
       /\ Has(f.events, "Closed") <=> Has(g.events, "Closed")
       /\ Has(f.events, "Authenticated")
  BY <1>4, <1>5, AddedHas, Zenon
<1>12. ActiveAfter(e.events, w.by) \cap StagedAfter(e.events, w.st) = {}
  BY ActiveNotStaged, Zenon
<1>13. ActiveAfter(f.events, w.by) = ActiveAfter(e.events, w.by) \cup T
  BY <1>6, <1>7, Zenon DEF Publication, U
<1>14. StagedAfter(f.events, w.st) = StagedAfter(e.events, w.st) \ T
  BY <1>6, <1>7, <1>12, Zenon DEF Publication, U
<1>15. /\ IsRecord(f) /\ f.role = e.role /\ f.connection = e.connection
       /\ f.candidate = e.candidate /\ f.promotion = e.promotion
       /\ f.published = e.published \cup T
  BY <1>2, <1>5, Zenon DEF Published, SameBut
<1> QED BY <1>9, <1>10, <1>11, <1>13, <1>14, <1>15, Zenon DEF AnnouncedTo, Announce, f, g

(* The active connection, a client's, has authenticated. *)
LEMMA AnnounceConnection ==
  ASSUME NEW e, NEW w, NEW xc, NEW da, NEW dc, Mid(e, w, TRUE, xc, da, dc),
         e.role = "client", e.connection # None, e.connection.authenticated
  PROVE  Mid(Announce(e, e.connection.dcids), w, FALSE, xc, da, dc)
<1> DEFINE c == e.connection
           T == c.dcids
           f == Announce(e, T)
<1>1. IsEngine(e, w) /\ Routes(e, w, TRUE, xc) /\ CandidateInv(e, w, xc) /\ AliveInv(e, w, da, dc)
  BY Zenon DEF Mid
<1>2. IsRecord(e) /\ QueueInv(e.events, w.by, w.st) /\ IsConnection(c)
      /\ e.published \subseteq Dcids
  BY <1>1, Zenon DEF IsEngine
<1>3. T \in SUBSET Dcids BY <1>2, ConnectionIs, Zenon
<1>4. e.candidate = None BY <1>1, Zenon DEF CandidateInv
<1>5. Promised(e) = {} BY <1>4, Zenon DEF Promised, DcidsOf
<1>6. ActiveAfter(e.events, w.by) = e.published BY <1>1, <1>5, Zenon DEF Routes
<1>7. AnnouncedTo(e, f, w, T) BY <1>2, <1>3, <1>6, AnnounceIs, Zenon
<1> HIDE DEF f
<1>8. IsEngine(f, w) BY <1>1, <1>2, <1>3, <1>7, Zenon DEF IsEngine, AnnouncedTo
<1>9. Routes(f, w, FALSE, xc)
  <2>1. StagedAfter(e.events, w.st) \subseteq T
    BY <1>1, <1>4, Zenon DEF Routes, Unannounced
  <2>2. StagedAfter(f.events, w.st) = {} BY <1>7, <2>1, Zenon DEF AnnouncedTo
  <2>3. ActiveAfter(f.events, w.by) = f.published BY <1>6, <1>7, Zenon DEF AnnouncedTo
  <2>4. Promised(f) = {} BY <1>4, <1>7, Zenon DEF Promised, DcidsOf, AnnouncedTo
  <2>5. Generated(f.connection) = {} /\ Generated(f.candidate) = {}
    BY <1>4, <1>7, Zenon DEF Generated, AnnouncedTo
  <2>6. f.connection.dcids \subseteq f.published BY <1>7, Zenon DEF AnnouncedTo
  <2> QED BY <2>2, <2>3, <2>4, <2>5, <2>6, Zenon DEF Routes
<1>10. CandidateInv(f, w, xc) BY <1>1, <1>4, <1>7, Zenon DEF CandidateInv, AnnouncedTo
<1>11. AliveInv(f, w, da, dc)
  <2>1. DcidsOf(f.connection) = T BY <1>7, Zenon DEF DcidsOf, AnnouncedTo
  <2>2. DcidsOf(e.connection) = T BY Zenon DEF DcidsOf
  <2> QED BY <1>1, <1>7, <2>1, <2>2, Zenon DEF AliveInv, AnnouncedTo
<1>12. PendingInv(f, w, FALSE) BY <1>7, Zenon DEF PendingInv, AnnouncedTo
<1> QED BY <1>8, <1>9, <1>10, <1>11, <1>12, Zenon DEF Mid, f

(* promote_candidate, while there is an active connection. *)
LEMMA PromoteAsReplacement ==
  ASSUME NEW e, NEW w, NEW da, Mid(e, w, FALSE, TRUE, da, FALSE), e.role = "server",
         e.connection # None, e.candidate # None, e.candidate.authenticated
  PROVE  EngineInv(PromoteCandidate(e), w)
<1> DEFINE c == e.candidate
           T == c.dcids
           g == [e EXCEPT !.promotion = TRUE]
           f == Emit(g, "Replaced", T)
<1>1. /\ IsEngine(e, w) /\ Routes(e, w, FALSE, TRUE) /\ CandidateInv(e, w, TRUE)
      /\ AliveInv(e, w, da, FALSE) /\ PendingInv(e, w, FALSE)
  BY Zenon DEF Mid
<1>2. IsRecord(e) /\ QueueInv(e.events, w.by, w.st) /\ IsConnection(c) /\ e.events \in Seq(Events)
  BY <1>1, Zenon DEF IsEngine, QueueInv
<1>3. T \in SUBSET Dcids BY <1>2, ConnectionIs, Zenon
<1>4. ~e.promotion /\ ~Has(e.events, "Replaced") /\ ~Has(e.events, "Closed")
  BY <1>1, Zenon DEF CandidateInv
<1>5. /\ IsRecord(g) /\ g.role = e.role /\ g.connection = e.connection /\ g.candidate = c
      /\ g.promotion = TRUE /\ g.published = e.published /\ g.events = e.events
  BY <1>2, Zenon DEF IsRecord, EngineFields
<1>6. PromoteCandidate(e) = f BY Zenon DEF PromoteCandidate
<1> HIDE DEF g
<1>7. /\ "Replaced" \in Publishing /\ "Replaced" # "DcidStaged" /\ "Replaced" \in Kinds \ Single
      /\ "Closed" # "Replaced" /\ "Authenticated" # "Replaced"
  BY DEF Publishing, Kinds, Single
<1>8. /\ SameBut(g, f) /\ Added(e.events, f.events, "Replaced", T)
      /\ Len(f.events) = Len(e.events) + 1
  <2>1. g.events \in Seq(Events) BY <1>2, <1>5, Zenon
  <2>2. /\ SameBut(g, f) /\ Added(g.events, f.events, "Replaced", T)
        /\ Len(f.events) = Len(g.events) + 1
    BY <1>3, <1>5, <1>7, <2>1, EmitAdds, Zenon
  <2> QED BY <1>5, <2>2, Zenon
<1> HIDE DEF f, T
<1>9. Publication(e.events, f.events, w.by, w.st, T)
  BY <1>3, <1>7, <1>8, AddedPublishing, Zenon
<1>10. QueueInv(f.events, w.by, w.st) BY <1>2, <1>3, <1>4, <1>7, <1>8, AddedInv, SMT
<1>11. /\ Has(f.events, "Closed") <=> Has(e.events, "Closed")
       /\ Has(f.events, "Authenticated") <=> Has(e.events, "Authenticated")
       /\ Has(f.events, "Replaced")
  BY <1>7, <1>8, AddedHas, Zenon
<1>12. /\ IsRecord(f) /\ f.role = e.role /\ f.connection = e.connection /\ f.candidate = c
       /\ f.promotion = TRUE /\ f.published = e.published
  BY <1>5, <1>8, Zenon DEF SameBut
<1>13. IsEngine(f, w) BY <1>1, <1>10, <1>12, Zenon DEF IsEngine
<1>14. Routes(f, w, FALSE, FALSE)
  <2>1. Promised(e) = {} /\ Promised(f) = T BY <1>4, <1>12, Zenon DEF Promised, DcidsOf, T
  <2>2. ActiveAfter(f.events, w.by) = f.published \cup Promised(f)
    BY <1>1, <1>9, <1>12, <2>1, Zenon DEF Routes, Publication
  <2>3. Unannounced(c, TRUE) = T BY Zenon DEF Unannounced, T
  <2>4. StagedAfter(f.events, w.st) \subseteq Unannounced(f.connection, FALSE)
    BY <1>1, <1>9, <1>12, <2>3, Zenon DEF Routes, Publication
  <2>5. Generated(f.connection) = {} /\ Generated(f.candidate) = {}
    BY <1>1, <1>12, Zenon DEF Generated, CandidateInv
  <2>6. f.connection.dcids \subseteq f.published
    BY <1>1, <1>12, Zenon DEF Routes, CandidateInv
  <2> QED BY <2>2, <2>4, <2>5, <2>6, Zenon DEF Routes
<1>15. CandidateInv(f, w, FALSE) BY <1>1, <1>4, <1>11, <1>12, Zenon DEF CandidateInv
<1>16. AliveInv(f, w, FALSE, FALSE) BY <1>1, <1>4, <1>12, Zenon DEF AliveInv
<1>17. PendingInv(f, w, FALSE) BY <1>1, <1>11, <1>12, Zenon DEF PendingInv, IsAuthenticated
<1> QED BY <1>6, <1>13, <1>14, <1>15, <1>16, <1>17, Zenon DEF EngineInv, Mid

(* promote_candidate, with no active connection. *)
LEMMA PromoteAsFirst ==
  ASSUME NEW e, NEW w, NEW da, Mid(e, w, FALSE, TRUE, da, FALSE), e.role = "server",
         e.connection = None, e.candidate # None, e.candidate.authenticated
  PROVE  EngineInv(PromoteCandidate(e), w)
<1> DEFINE c == e.candidate
           T == c.dcids
           g == [e EXCEPT !.connection = e.candidate, !.candidate = None]
           f == Announce(g, T)
<1>1. /\ IsEngine(e, w) /\ Routes(e, w, FALSE, TRUE) /\ CandidateInv(e, w, TRUE)
      /\ AliveInv(e, w, da, FALSE)
  BY Zenon DEF Mid
<1>2. IsRecord(e) /\ QueueInv(e.events, w.by, w.st) /\ IsConnection(c)
      /\ e.published \subseteq Dcids
  BY <1>1, Zenon DEF IsEngine
<1>3. T \in SUBSET Dcids BY <1>2, ConnectionIs, Zenon
<1>4. ~e.promotion /\ ~Has(e.events, "Replaced") /\ ~Has(e.events, "Closed")
  BY <1>1, Zenon DEF CandidateInv
<1>5. /\ IsRecord(g) /\ g.role = e.role /\ g.connection = c /\ g.candidate = None
      /\ g.promotion = e.promotion /\ g.published = e.published /\ g.events = e.events
  BY <1>2, Zenon DEF IsRecord, EngineFields
<1>6. PromoteCandidate(e) = f BY Zenon DEF PromoteCandidate, Announce
<1> HIDE DEF g
<1>7. Promised(e) = {} BY <1>4, Zenon DEF Promised
<1>8. ActiveAfter(e.events, w.by) = e.published BY <1>1, <1>7, Zenon DEF Routes
<1>9. AnnouncedTo(g, f, w, T)
  <2>1. QueueInv(g.events, w.by, w.st) /\ g.published \subseteq ActiveAfter(g.events, w.by)
    BY <1>2, <1>5, <1>8, Zenon
  <2> QED BY <1>3, <1>5, <2>1, AnnounceIs, Zenon
<1> HIDE DEF f
<1>10. /\ IsRecord(f) /\ f.role = e.role /\ f.connection = c /\ f.candidate = None
       /\ f.promotion = e.promotion /\ f.published = e.published \cup T
       /\ QueueInv(f.events, w.by, w.st) /\ Has(f.events, "Authenticated")
       /\ ~Has(f.events, "Replaced") /\ ~Has(f.events, "Closed")
       /\ StagedAfter(f.events, w.st) = StagedAfter(e.events, w.st) \ T
       /\ ActiveAfter(f.events, w.by) = e.published \cup T
  BY <1>4, <1>5, <1>8, <1>9, Zenon DEF AnnouncedTo
<1>11. IsEngine(f, w) BY <1>1, <1>2, <1>3, <1>10, Zenon DEF IsEngine
<1>12. Routes(f, w, FALSE, FALSE)
  <2>1. StagedAfter(e.events, w.st) \subseteq T BY <1>1, Zenon DEF Routes, Unannounced
  <2>2. StagedAfter(f.events, w.st) = {} BY <1>10, <2>1, Zenon
  <2>3. Promised(f) = {} BY <1>4, <1>10, Zenon DEF Promised
  <2>4. Generated(f.connection) = {} /\ Generated(f.candidate) = {}
    BY <1>10, Zenon DEF Generated
  <2> QED BY <1>10, <2>2, <2>3, <2>4, Zenon DEF Routes
<1>13. CandidateInv(f, w, FALSE) BY <1>4, <1>10, Zenon DEF CandidateInv
<1>14. AliveInv(f, w, FALSE, FALSE)
  <2>1. DcidsOf(e.connection) = {} /\ DcidsOf(c) = T BY Zenon DEF DcidsOf
  <2>2. e.published \subseteq T \/ w.interrupted BY <1>1, <1>4, <2>1, Zenon DEF AliveInv
  <2>3. f.published \subseteq DcidsOf(f.connection) \/ w.interrupted
    BY <1>10, <2>1, <2>2, Zenon
  <2> QED BY <1>1, <1>10, <2>3, Zenon DEF AliveInv
<1>15. PendingInv(f, w, FALSE) BY <1>10, Zenon DEF PendingInv
<1> QED BY <1>6, <1>11, <1>12, <1>13, <1>14, <1>15, Zenon DEF EngineInv, Mid

(* DcidRetired, for each of a set. *)
RetiredTo(e, g, w, T) ==
  /\ SameBut(e, g) /\ g.events \in Seq(Events) /\ QueueInv(g.events, w.by, w.st)
  /\ ActiveAfter(g.events, w.by) = ActiveAfter(e.events, w.by) \ T
  /\ StagedAfter(g.events, w.st) = StagedAfter(e.events, w.st) \ T
  /\ Announced(g.events) = Announced(e.events)
  /\ Has(g.events, "Replaced") <=> Has(e.events, "Replaced")
  /\ Has(g.events, "Closed") <=> Has(e.events, "Closed")
  /\ Has(g.events, "Authenticated") <=> Has(e.events, "Authenticated")

LEMMA RetireEach ==
  ASSUME NEW e, NEW w, NEW T \in SUBSET Dcids, IsRecord(e), QueueInv(e.events, w.by, w.st)
  PROVE  RetiredTo(e, EmitEach(e, "DcidRetired", T), w, T)
<1> DEFINE g == EmitEach(e, "DcidRetired", T)
<1>1. e.events \in Seq(Events) BY Zenon DEF QueueInv
<1>2. /\ "DcidRetired" \in Single /\ "DcidRetired" # "DcidStaged" /\ "DcidRetired" # "Replaced"
      /\ "Replaced" # "DcidRetired" /\ "Closed" # "DcidRetired" /\ "Authenticated" # "DcidRetired"
  BY Zenon DEF Single
<1>3. SameBut(e, g) /\ Added(e.events, g.events, "DcidRetired", T)
  BY <1>1, <1>2, EmitEachAdds, Zenon
<1> HIDE DEF g
<1>4. Retirement(e.events, g.events, w.by, w.st, T) BY <1>3, AddedRetired, Zenon
<1>5. QueueInv(g.events, w.by, w.st) BY <1>2, <1>3, AddedInv, SMT
<1>6. /\ Has(g.events, "Replaced") <=> Has(e.events, "Replaced")
      /\ Has(g.events, "Closed") <=> Has(e.events, "Closed")
      /\ Has(g.events, "Authenticated") <=> Has(e.events, "Authenticated")
  BY <1>2, <1>3, AddedHas, Zenon
<1>7. g.events \in Seq(Events) BY <1>3, Zenon DEF Added
<1> QED BY <1>3, <1>4, <1>5, <1>6, <1>7, Zenon DEF RetiredTo, Retirement, g

(* The candidate is disposed of. *)
LEMMA CandidateDropped ==
  ASSUME NEW e, NEW w, NEW xa, NEW da, NEW dc, Mid(e, w, xa, FALSE, da, dc)
  PROVE  Mid(DropCandidate(e), w, xa, FALSE, da, FALSE)
<1> DEFINE c == e.candidate
           T == DcidsOf(c) \ e.published
           g == EmitEach(e, "DcidRetired", T)
           f == [g EXCEPT !.candidate = None]
<1>1. /\ IsEngine(e, w) /\ Routes(e, w, xa, FALSE) /\ CandidateInv(e, w, FALSE)
      /\ AliveInv(e, w, da, dc) /\ PendingInv(e, w, xa)
  BY Zenon DEF Mid
<1>2. IsRecord(e) /\ QueueInv(e.events, w.by, w.st) BY <1>1, Zenon DEF IsEngine
<1>3. T \in SUBSET Dcids
  <2>1. c = None \/ IsConnection(c) BY <1>1, Zenon DEF IsEngine
  <2> QED BY <2>1, ConnectionIs, Zenon DEF DcidsOf
<1>4. RetiredTo(e, g, w, T) BY <1>2, <1>3, RetireEach, Zenon
<1>5. DropCandidate(e) = f BY Zenon DEF DropCandidate
<1> HIDE DEF g
<1>6. /\ IsRecord(f) /\ f.role = g.role /\ f.connection = g.connection /\ f.candidate = None
      /\ f.promotion = g.promotion /\ f.published = g.published /\ f.events = g.events
  BY <1>4, Zenon DEF RetiredTo, SameBut, IsRecord, EngineFields
<1> HIDE DEF f
<1>7. /\ f.role = e.role /\ f.connection = e.connection /\ f.candidate = None
      /\ f.promotion = e.promotion /\ f.published = e.published
      /\ QueueInv(f.events, w.by, w.st)
      /\ ActiveAfter(f.events, w.by) = ActiveAfter(e.events, w.by) \ T
      /\ StagedAfter(f.events, w.st) = StagedAfter(e.events, w.st) \ T
      /\ Has(f.events, "Replaced") <=> Has(e.events, "Replaced")
      /\ Has(f.events, "Closed") <=> Has(e.events, "Closed")
      /\ Has(f.events, "Authenticated") <=> Has(e.events, "Authenticated")
  BY <1>4, <1>6, Zenon DEF RetiredTo, SameBut
<1>8. IsEngine(f, w) BY <1>1, <1>6, <1>7, Zenon DEF IsEngine
<1>9. ActiveAfter(e.events, w.by) \cap StagedAfter(e.events, w.st) = {}
  BY <1>2, ActiveNotStaged, Zenon
<1>10. Routes(f, w, xa, FALSE)
  <2>1. Promised(f) = {} BY <1>7, Zenon DEF Promised, DcidsOf
  <2>2. Promised(e) \subseteq DcidsOf(c) BY Zenon DEF Promised
  <2>3. ActiveAfter(f.events, w.by) = f.published \cup Promised(f)
    BY <1>1, <1>7, <2>1, <2>2, Zenon DEF Routes
  <2>4. Unannounced(c, FALSE) \subseteq DcidsOf(c) BY Zenon DEF Unannounced, DcidsOf
  <2>5. e.published \subseteq ActiveAfter(e.events, w.by) BY <1>1, Zenon DEF Routes
  <2>6. StagedAfter(f.events, w.st) \subseteq Unannounced(e.connection, xa)
    BY <1>1, <1>7, <1>9, <2>4, <2>5, Zenon DEF Routes
  <2>7. Generated(e.connection) \subseteq StagedAfter(f.events, w.st)
    <3>1. CASE e.connection # None /\ ~e.connection.authenticated
      <4>1. DcidsOf(c) = {} BY <1>1, <3>1, Zenon DEF CandidateInv, IsEngine, DcidsOf
      <4> QED BY <1>1, <1>7, <4>1, Zenon DEF Routes
    <3>2. CASE ~(e.connection # None /\ ~e.connection.authenticated)
      BY <3>2, Zenon DEF Generated
    <3> QED BY <3>1, <3>2, Zenon
  <2>8. Unannounced(None, FALSE) = {} /\ Generated(None) = {} BY Zenon DEF Unannounced, Generated
  <2>9. e.connection # None /\ e.connection.authenticated /\ ~xa =>
          e.connection.dcids \subseteq e.published
    BY <1>1, Zenon DEF Routes
  <2> QED BY <1>7, <2>3, <2>6, <2>7, <2>8, <2>9, Zenon DEF Routes
<1>11. CandidateInv(f, w, FALSE) BY <1>1, <1>7, Zenon DEF CandidateInv
<1>12. AliveInv(f, w, da, FALSE)
  <2>1. CASE c = None
    <3>1. DcidsOf(c) = {} BY <2>1, Zenon DEF DcidsOf
    <3> QED BY <1>1, <1>7, <2>1, <3>1, Zenon DEF AliveInv
  <2>2. CASE c # None /\ ~c.authenticated
    <3>1. DcidsOf(c) \cap e.published = {} BY <1>1, <2>2, Zenon DEF CandidateInv, DcidsOf
    <3>2. ~e.promotion BY <1>1, <2>2, Zenon DEF CandidateInv
    <3>3. e.published \subseteq DcidsOf(e.connection) \/ w.interrupted
      BY <1>1, <3>1, <3>2, Zenon DEF AliveInv
    <3> QED BY <1>1, <1>7, <3>3, Zenon DEF AliveInv
  <2>3. CASE c # None /\ c.authenticated
    <3>1. e.promotion BY <1>1, <2>3, Zenon DEF CandidateInv
    <3> QED BY <1>1, <1>7, <3>1, Zenon DEF AliveInv
  <2> QED BY <2>1, <2>2, <2>3, Zenon
<1>13. PendingInv(f, w, xa) BY <1>1, <1>7, Zenon DEF PendingInv, IsAuthenticated
<1> QED BY <1>5, <1>8, <1>10, <1>11, <1>12, <1>13, Zenon DEF Mid

(* The lane's connections are closed. *)
LEMMA BothClosed ==
  ASSUME NEW e, NEW w, IsEngine(e, w), e.promotion <=> Has(e.events, "Replaced")
  PROVE  /\ EngineInv(CloseBoth(e), w)
         /\ CloseBoth(e).connection = None /\ CloseBoth(e).candidate = None
         /\ CloseBoth(e).promotion = e.promotion
<1> DEFINE g == EmitEach(e, "DcidRetired", e.published)
           h == [g EXCEPT !.published = {}, !.connection = None, !.candidate = None]
           f == Emit(h, "Closed", {})
<1>1. IsRecord(e) /\ QueueInv(e.events, w.by, w.st) /\ e.published \in SUBSET Dcids
  BY Zenon DEF IsEngine
<1>2. RetiredTo(e, g, w, e.published) BY <1>1, RetireEach, Zenon
<1>3. CloseBoth(e) = f BY Zenon DEF CloseBoth
<1> HIDE DEF g
<1>4. /\ IsRecord(h) /\ h.role = g.role /\ h.connection = None /\ h.candidate = None
      /\ h.promotion = g.promotion /\ h.published = {} /\ h.events = g.events
  BY <1>2, Zenon DEF RetiredTo, SameBut, IsRecord, EngineFields
<1> HIDE DEF h
<1>5. /\ "Closed" \in Kinds \ Single /\ {} \in SUBSET Dcids /\ "Closed" # "DcidStaged"
      /\ "Closed" # "Replaced" /\ "Replaced" # "Closed"
  BY DEF Kinds, Single
<1>6. h.events \in Seq(Events) /\ QueueInv(h.events, w.by, w.st) BY <1>2, <1>4, Zenon DEF RetiredTo
<1>7. /\ SameBut(h, f) /\ Added(h.events, f.events, "Closed", {})
      /\ Len(f.events) = Len(h.events) + 1
  BY <1>4, <1>5, <1>6, EmitAdds, SMT
<1> HIDE DEF f
<1>8. ActiveAfter(f.events, w.by) = {} /\ StagedAfter(f.events, w.st) = {}
  <2>1. Cleared(f.events, w.by, w.st) BY <1>7, AddedClosed, SMT
  <2> QED BY <2>1, Zenon DEF Cleared
<1>9. QueueInv(f.events, w.by, w.st) BY <1>5, <1>6, <1>7, AddedInv, SMT
<1>10. Has(f.events, "Replaced") <=> Has(h.events, "Replaced") BY <1>5, <1>7, AddedHas, Zenon
<1>11. /\ IsRecord(f) /\ f.role = e.role /\ f.connection = None /\ f.candidate = None
       /\ f.promotion = e.promotion /\ f.published = {}
       /\ Has(f.events, "Replaced") <=> Has(e.events, "Replaced")
  BY <1>2, <1>4, <1>7, <1>10, Zenon DEF RetiredTo, SameBut
<1>12. IsEngine(f, w) BY <1>9, <1>11, Zenon DEF IsEngine
<1>13. Routes(f, w, FALSE, FALSE)
  <2>1. Promised(f) = {} /\ Generated(None) = {} BY <1>11, Zenon DEF Promised, DcidsOf, Generated
  <2> QED BY <1>8, <1>11, <2>1, Zenon DEF Routes
<1>14. CandidateInv(f, w, FALSE) BY <1>11, Zenon DEF CandidateInv
<1>15. AliveInv(f, w, FALSE, FALSE) BY <1>11, Zenon DEF AliveInv
<1>16. PendingInv(f, w, FALSE) BY <1>11, Zenon DEF PendingInv, IsAuthenticated
<1> QED BY <1>3, <1>11, <1>12, <1>13, <1>14, <1>15, <1>16, Zenon DEF EngineInv, Mid

(* What staging leaves alone. *)
Kept(c, t) == (t = None <=> c = None) /\ (c # None => t.authenticated = c.authenticated)

LEMMA StageKeeps ==
  ASSUME NEW e, NEW w, IsEngine(e, w), NEW slot \in {"connection", "candidate"}, e[slot] # None,
         NEW d, New(e, w, d)
  PROVE  LET f == Stage(e, slot, {d})
         IN  f.role = e.role /\ Kept(e.connection, f.connection) /\ Kept(e.candidate, f.candidate)
<1> DEFINE f == Stage(e, slot, {d})
<1>1. IsRecord(e) /\ e.events \in Seq(Events) /\ IsConnection(e[slot])
  BY Zenon DEF IsEngine, QueueInv
<1>2. d \in Dcids /\ d \notin e[slot].dcids BY Zenon DEF New, DcidsOf
<1>3. Staged(e, f, slot, d) BY <1>1, <1>2, StageIs, Zenon
<1> HIDE DEF f
<1>4. /\ f.role = e.role /\ TrackedTo(e[slot], d, f[slot])
      /\ slot = "connection" => f.candidate = e.candidate
      /\ slot = "candidate" => f.connection = e.connection
  BY <1>3, Zenon DEF Staged, EngineFields
<1>5. Kept(e[slot], f[slot]) BY <1>4, ConnectionIs, Zenon DEF TrackedTo, Kept
<1>6. Kept(e.connection, e.connection) /\ Kept(e.candidate, e.candidate) BY Zenon DEF Kept
<1>7. Kept(e.connection, f.connection) /\ Kept(e.candidate, f.candidate) BY <1>4, <1>5, <1>6, Zenon
<1> QED BY <1>4, <1>7, Zenon DEF f

(* At most one connection has had a connection ID generated. *)
OneNew(e, w, oa, oc) ==
  \/ oa.dcids = {} /\ oc.dcids = {}
  \/ oa.dcids = {} /\ e.candidate # None /\ \E d : New(e, w, d) /\ oc.dcids = {d}
  \/ oc.dcids = {} /\ e.connection # None /\ \E d : New(e, w, d) /\ oa.dcids = {d}

StageBoth(a, oa, oc) ==
  LET b == IF a.connection = None THEN a ELSE Stage(a, "connection", oa.dcids)
  IN  IF b.candidate = None THEN b ELSE Stage(b, "candidate", oc.dcids)

LEMMA StageBothMid ==
  ASSUME NEW a, NEW w, NEW xa, NEW xc, NEW da, NEW dc, Mid(a, w, xa, xc, da, dc),
         NEW oa, NEW oc, OneNew(a, w, oa, oc)
  PROVE  LET c == StageBoth(a, oa, oc)
         IN  /\ Mid(c, w, xa, xc, da, dc) /\ c.role = a.role
             /\ Kept(a.connection, c.connection) /\ Kept(a.candidate, c.candidate)
<1> DEFINE b == IF a.connection = None THEN a ELSE Stage(a, "connection", oa.dcids)
           c == IF b.candidate = None THEN b ELSE Stage(b, "candidate", oc.dcids)
           Good(x) == /\ Mid(x, w, xa, xc, da, dc) /\ x.role = a.role
                      /\ Kept(a.connection, x.connection) /\ Kept(a.candidate, x.candidate)
<1>1. ASSUME NEW x, Good(x) PROVE IsRecord(x) /\ x.events \in Seq(Events) /\ IsEngine(x, w)
  BY <1>1, Zenon DEF Mid, IsEngine, QueueInv
<1>2. Good(a) BY Zenon DEF Kept
<1>3. "connection" \in {"connection", "candidate"} /\ "candidate" \in {"connection", "candidate"}
  BY Zenon
<1> HIDE DEF Good
<1>4. CASE oa.dcids = {} /\ oc.dcids = {}
  <2>1. b = a BY <1>1, <1>2, <1>3, <1>4, StageNothing, Zenon
  <2>2. c = a BY <1>1, <1>2, <1>3, <1>4, <2>1, StageNothing, Zenon
  <2> QED BY <1>2, <2>2, Zenon DEF StageBoth, Good
<1>5. CASE oa.dcids = {} /\ a.candidate # None /\ \E d : New(a, w, d) /\ oc.dcids = {d}
  <2>1. b = a BY <1>1, <1>2, <1>3, <1>5, StageNothing, Zenon
  <2>2. PICK d : New(a, w, d) /\ oc.dcids = {d} BY <1>5, Zenon
  <2>3. c = Stage(a, "candidate", {d}) BY <1>5, <2>1, <2>2, Zenon
  <2>4. Mid(Stage(a, "candidate", {d}), w, xa, xc, da, dc) BY <1>5, <2>2, StageCandidate, Zenon
  <2>5. Good(Stage(a, "candidate", {d}))
    BY <1>1, <1>2, <1>3, <1>5, <2>2, <2>4, StageKeeps, Zenon DEF Good
  <2> QED BY <2>3, <2>5, Zenon DEF StageBoth, Good
<1>6. CASE oc.dcids = {} /\ a.connection # None /\ \E d : New(a, w, d) /\ oa.dcids = {d}
  <2>1. PICK d : New(a, w, d) /\ oa.dcids = {d} BY <1>6, Zenon
  <2>2. b = Stage(a, "connection", {d}) BY <1>6, <2>1, Zenon
  <2>3. Mid(Stage(a, "connection", {d}), w, xa, xc, da, dc) BY <1>6, <2>1, StageConnection, Zenon
  <2>4. Good(b)
    BY <1>1, <1>2, <1>3, <1>6, <2>1, <2>2, <2>3, StageKeeps DEF Good
  <2> HIDE DEF b
  <2>5. c = b BY <1>1, <1>3, <1>6, <2>4, StageNothing, Zenon
  <2> QED BY <2>4, <2>5, Zenon DEF StageBoth, Good, b
<1> QED BY <1>4, <1>5, <1>6, Zenon DEF OneNew

(* What the transports may report: the death of one is a loss, and a       *)
(* candidate authenticates only while it lives and no Closed waits.        *)
Fit(e, w, oa, oc) ==
  /\ Reports(e, e.connection, oa) /\ Reports(e, e.candidate, oc) /\ OneNew(e, w, oa, oc)
  /\ oa.dead => oa.lost
  /\ oc.dead => oc.lost
  /\ oc.auth => ~oc.dead /\ ~Has(e.events, "Closed")

LEMMA DriveKeeps ==
  ASSUME NEW e, NEW w, NEW oa, NEW oc, EngineInv(e, w), Fit(e, w, oa, oc)
  PROVE  EngineInv(Drive(e, oa, oc), w)
<1> DEFINE a == DrivenBoth(e, oa, oc)
           c == StageBoth(a, oa, oc)
           active_lost    == e.connection # None /\ (oa.lost \/ e.connection.dcid_limit_exceeded)
           candidate_lost == e.candidate # None /\ (oc.lost \/ e.candidate.dcid_limit_exceeded)
           d == IF oa.auth THEN Announce(c, c.connection.dcids) ELSE c
           f == IF oc.auth THEN PromoteCandidate(d)
                ELSE IF candidate_lost THEN DropCandidate(d) ELSE d
<1>1. Drive(e, oa, oc) = IF active_lost /\ ~oc.auth THEN CloseBoth(DropCandidate(f)) ELSE f
  BY Zenon DEF Drive, DrivenBoth, StageBoth, Announce
<1>2. /\ IsEngine(e, w) /\ CandidateInv(e, w, FALSE) /\ AliveInv(e, w, FALSE, FALSE)
      /\ Reports(e, e.connection, oa) /\ Reports(e, e.candidate, oc)
  BY Zenon DEF EngineInv, Mid, Fit
<1>3. /\ oa.auth \in BOOLEAN /\ oa.dead \in BOOLEAN /\ oc.auth \in BOOLEAN /\ oc.dead \in BOOLEAN
      /\ e.connection = None => ~oa.auth /\ ~oa.dead /\ ~oa.lost
      /\ e.candidate = None => ~oc.auth /\ ~oc.dead /\ ~oc.lost
  BY <1>2, QuietIs, Zenon DEF Reports
<1>4. Mid(a, w, oa.auth, oc.auth, oa.dead, oc.dead)
  BY <1>2, DrivenMid, Zenon DEF Fit
<1>5. /\ a.role = e.role /\ a.published = e.published /\ a.events = e.events
      /\ a.connection = Driven(e.connection, oa) /\ a.candidate = Driven(e.candidate, oc)
  BY <1>2, Zenon DEF DrivenBoth, IsEngine, IsRecord, EngineFields
<1> HIDE DEF a
<1>6. /\ e.connection # None => DrivenTo(e.connection, oa, a.connection)
      /\ e.candidate # None => DrivenTo(e.candidate, oc, a.candidate)
      /\ e.connection = None => a.connection = None
      /\ e.candidate = None => a.candidate = None
  <2>1. /\ e.connection # None => IsConnection(e.connection)
        /\ e.candidate # None => IsConnection(e.candidate)
    BY <1>2, Zenon DEF IsEngine
  <2>2. /\ e.connection # None => DrivenTo(e.connection, oa, Driven(e.connection, oa))
        /\ e.candidate # None => DrivenTo(e.candidate, oc, Driven(e.candidate, oc))
    BY <1>3, <2>1, DrivenIs, SMT
  <2>3. Driven(None, oa) = None /\ Driven(None, oc) = None BY Zenon DEF Driven
  <2> QED BY <1>5, <2>2, <2>3, Zenon
<1>7. /\ a.connection = None <=> e.connection = None
      /\ a.candidate = None <=> e.candidate = None
      /\ DcidsOf(a.connection) = DcidsOf(e.connection)
      /\ DcidsOf(a.candidate) = DcidsOf(e.candidate)
      /\ oa.auth => a.connection.authenticated
      /\ oc.auth => a.candidate.authenticated
  <2>1. /\ a.connection = None <=> e.connection = None
        /\ a.candidate = None <=> e.candidate = None
    BY <1>6, ConnectionIs, Zenon DEF DrivenTo
  <2> QED BY <1>3, <1>6, <2>1, Zenon DEF DrivenTo, DcidsOf
<1>8. OneNew(a, w, oa, oc)
  <2>1. \A x : New(e, w, x) => New(a, w, x) BY <1>5, <1>7, Zenon DEF New
  <2> QED BY <1>7, <2>1, Zenon DEF OneNew, Fit
<1>9. /\ Mid(c, w, oa.auth, oc.auth, oa.dead, oc.dead) /\ c.role = e.role
      /\ Kept(a.connection, c.connection) /\ Kept(a.candidate, c.candidate)
  BY <1>4, <1>5, <1>8, StageBothMid, SMT
<1> HIDE DEF c
<1>10. /\ oa.auth => e.role = "client" /\ e.candidate = None
       /\ oc.auth => e.role = "server" /\ e.candidate # None
  BY <1>2, <1>3, Zenon DEF IsEngine, CandidateInv, Reports
<1>11. /\ ~oc.auth => Mid(f, w, FALSE, FALSE, oa.dead, FALSE)
       /\ oc.auth => EngineInv(f, w)
  <2>1. CASE oa.auth
    <3>1. oa.auth = TRUE /\ oc.auth = FALSE /\ oc.dead = FALSE BY <1>3, <1>10, <2>1, Zenon
    <3>2. Mid(c, w, TRUE, FALSE, oa.dead, FALSE) BY <1>9, <3>1, Zenon
    <3>3. c.role = "client" /\ c.connection # None /\ c.connection.authenticated
      BY <1>3, <1>7, <1>9, <1>10, <2>1, Zenon DEF Kept
    <3>4. Mid(Announce(c, c.connection.dcids), w, FALSE, FALSE, oa.dead, FALSE)
      BY <3>2, <3>3, AnnounceConnection, Zenon
    <3>5. f = Announce(c, c.connection.dcids) BY <1>10, <2>1, <3>1, Zenon
    <3> QED BY <3>1, <3>4, <3>5, Zenon
  <2>2. CASE ~oa.auth /\ oc.auth
    <3>1. oa.auth = FALSE /\ oc.auth = TRUE /\ oc.dead = FALSE BY <1>3, <2>2, Zenon DEF Fit
    <3>2. Mid(c, w, FALSE, TRUE, oa.dead, FALSE) BY <1>9, <3>1, Zenon
    <3>3. c.role = "server" /\ c.candidate # None /\ c.candidate.authenticated
      BY <1>7, <1>9, <1>10, <2>2, Zenon DEF Kept
    <3>4. EngineInv(PromoteCandidate(c), w)
      BY <3>2, <3>3, PromoteAsReplacement, PromoteAsFirst, Zenon
    <3>5. f = PromoteCandidate(c) BY <3>1, Zenon
    <3> QED BY <3>1, <3>4, <3>5, Zenon
  <2>3. CASE ~oa.auth /\ ~oc.auth
    <3>1. oa.auth = FALSE /\ oc.auth = FALSE BY <1>3, <2>3, Zenon
    <3>2. Mid(c, w, FALSE, FALSE, oa.dead, oc.dead) BY <1>9, <3>1, Zenon
    <3>3. Mid(DropCandidate(c), w, FALSE, FALSE, oa.dead, FALSE) BY <3>2, CandidateDropped, Zenon
    <3>4. CASE candidate_lost
      <4>1. f = DropCandidate(c) BY <3>1, <3>4, Zenon
      <4> QED BY <3>1, <3>3, <4>1, Zenon
    <3>5. CASE ~candidate_lost
      <4>1. oc.dead = FALSE BY <1>3, <3>5, Zenon DEF Fit
      <4>2. f = c BY <3>1, <3>5, Zenon
      <4> QED BY <3>1, <3>2, <4>1, <4>2, Zenon
    <3> QED BY <3>4, <3>5, Zenon
  <2> QED BY <2>1, <2>2, <2>3, Zenon
<1> HIDE DEF f
<1>12. CASE active_lost /\ ~oc.auth
  <2> DEFINE h == DropCandidate(f)
  <2>1. Mid(h, w, FALSE, FALSE, oa.dead, FALSE) BY <1>11, <1>12, CandidateDropped, Zenon
  <2> HIDE DEF h
  <2>2. IsEngine(h, w) /\ (h.promotion <=> Has(h.events, "Replaced"))
    BY <2>1, Zenon DEF Mid, CandidateInv
  <2>3. EngineInv(CloseBoth(h), w) BY <2>2, BothClosed, Zenon
  <2>4. Drive(e, oa, oc) = CloseBoth(h) BY <1>1, <1>12, Zenon DEF h
  <2> QED BY <2>3, <2>4, Zenon
<1>13. CASE ~active_lost /\ ~oc.auth
  <2>1. oa.dead = FALSE BY <1>3, <1>13, Zenon DEF Fit
  <2>2. Drive(e, oa, oc) = f BY <1>1, <1>13, Zenon
  <2> QED BY <1>11, <1>13, <2>1, <2>2, Zenon DEF EngineInv
<1>14. CASE oc.auth
  <2>1. Drive(e, oa, oc) = f BY <1>1, <1>14, Zenon
  <2> QED BY <1>11, <1>14, <2>1, Zenon
<1> QED BY <1>12, <1>13, <1>14, Zenon

-----------------------------------------------------------------------------
(* poll takes the first event, and it is applied. *)
Pop(e) == [e EXCEPT !.events = Tail(@)]

Popped(e, p, kind, w, w2) ==
  /\ IsRecord(p) /\ p.role = e.role /\ p.connection = e.connection /\ p.candidate = e.candidate
  /\ p.promotion = e.promotion /\ p.published = e.published
  /\ QueueInv(p.events, w2.by, w2.st)
  /\ ActiveAfter(p.events, w2.by) = ActiveAfter(e.events, w.by)
  /\ StagedAfter(p.events, w2.st) = StagedAfter(e.events, w.st)
  /\ Announced(p.events) \subseteq Announced(e.events)
  /\ w2.by \subseteq w.by \cup Announced(e.events)
  /\ \A x : Has(p.events, x) => Has(e.events, x)
  /\ \A x : Has(e.events, x) /\ x # kind => Has(p.events, x)
  /\ kind = "Replaced" => ~Has(p.events, "Replaced")
  /\ Has(e.events, kind)

LEMMA PopIs ==
  ASSUME NEW e, NEW w, NEW w2, IsEngine(e, w), e.events # <<>>,
         Applied(Head(e.events), w.by, w.st, w2.by, w2.st)
  PROVE  Popped(e, Pop(e), Head(e.events).kind, w, w2)
<1> DEFINE q == e.events
           t == Tail(q)
           p == Pop(e)
           v == q[1]
<1>1. IsRecord(e) /\ QueueInv(q, w.by, w.st) /\ q \in Seq(Events) BY Zenon DEF IsEngine, QueueInv
<1>2. Behind(q, t) /\ Head(q) = v /\ t \in Seq(Events) BY <1>1, TailBehind, Zenon
<1>3. /\ IsRecord(p) /\ p.role = e.role /\ p.connection = e.connection /\ p.candidate = e.candidate
      /\ p.promotion = e.promotion /\ p.published = e.published /\ p.events = t
  BY <1>1, Zenon DEF Pop, IsRecord, EngineFields
<1> HIDE DEF p, t, q
<1>4. Applied(v, w.by, w.st, w2.by, w2.st) BY <1>2, Zenon DEF q
<1>5. /\ ActiveAfter(t, w2.by) = ActiveAfter(q, w.by) /\ StagedAfter(t, w2.st) = StagedAfter(q, w.st)
      /\ Announced(t) \subseteq Announced(q) /\ w2.by \subseteq w.by \cup Announced(q)
  BY <1>2, <1>4, AfterApplied, Zenon
<1>6. QueueInv(t, w2.by, w2.st) /\ (v.kind = "Replaced" => ~Has(t, "Replaced"))
  BY <1>1, <1>2, <1>4, AppliedInv, Zenon
<1>7. ASSUME NEW x
      PROVE  (Has(t, x) => Has(q, x)) /\ (Has(q, x) /\ x # v.kind => Has(t, x))
  BY <1>2, AppliedHas, Zenon
<1>8. Has(q, v.kind)
  <2>1. 1 \in 1..Len(q) BY <1>2, Zenon DEF Behind
  <2> QED BY <2>1, Zenon DEF Has
<1>9. Popped(e, p, v.kind, w, w2) BY <1>3, <1>5, <1>6, <1>7, <1>8, Zenon DEF Popped, q
<1> QED BY <1>2, <1>9, Zenon DEF p, q

(* All events but Replaced: the engine has nothing to add. *)
LEMMA PoppedKeeps ==
  ASSUME NEW e, NEW p, NEW w, NEW w2, NEW kind, EngineInv(e, w), Popped(e, p, kind, w, w2),
         kind # "Replaced",
         w2.pending = 0 \/ (w2.pending = w.pending /\ kind # "Authenticated"),
         w2.interrupted = w.interrupted \/ kind = "Closed"
  PROVE  EngineInv(p, w2)
<1>1. /\ IsEngine(e, w) /\ Routes(e, w, FALSE, FALSE) /\ CandidateInv(e, w, FALSE)
      /\ AliveInv(e, w, FALSE, FALSE) /\ PendingInv(e, w, FALSE)
  BY Zenon DEF EngineInv, Mid
<1>2. IsEngine(p, w2) BY <1>1, Zenon DEF IsEngine, Popped
<1>3. Promised(p) = Promised(e) BY Zenon DEF Promised, Popped
<1>4. Routes(p, w2, FALSE, FALSE) BY <1>1, <1>3, Zenon DEF Routes, Popped
<1>5. CandidateInv(p, w2, FALSE)
  <2>1. Has(p.events, "Replaced") <=> Has(e.events, "Replaced") BY Zenon DEF Popped
  <2>2. Has(p.events, "Closed") => Has(e.events, "Closed") BY Zenon DEF Popped
  <2>3. /\ p.role = e.role /\ p.connection = e.connection /\ p.candidate = e.candidate
        /\ p.promotion = e.promotion /\ p.published = e.published
        /\ w2.by \cup p.published \cup Announced(p.events) \subseteq
             w.by \cup e.published \cup Announced(e.events)
    BY Zenon DEF Popped
  <2>4. e.candidate # None /\ ~e.candidate.authenticated =>
          e.candidate.dcids \cap (w2.by \cup p.published \cup Announced(p.events)) = {}
    BY <1>1, <2>3, Zenon DEF CandidateInv
  <2> QED BY <1>1, <2>1, <2>2, <2>3, <2>4, Zenon DEF CandidateInv
<1>6. AliveInv(p, w2, FALSE, FALSE)
  <2>1. CASE kind = "Closed"
    <3>1. e.connection = None /\ e.published = {} BY <1>1, <2>1, Zenon DEF CandidateInv, Popped
    <3> QED BY <1>1, <3>1, Zenon DEF AliveInv, Popped
  <2>2. CASE w2.interrupted = w.interrupted BY <1>1, <2>2, Zenon DEF AliveInv, Popped
  <2> QED BY <2>1, <2>2, Zenon
<1>7. PendingInv(p, w2, FALSE)
  <2>1. kind # "Authenticated" /\ Has(e.events, "Authenticated") => Has(p.events, "Authenticated")
    BY Zenon DEF Popped
  <2> QED BY <1>1, <2>1, Zenon DEF PendingInv, IsAuthenticated, Popped
<1> QED BY <1>2, <1>4, <1>5, <1>6, <1>7, Zenon DEF EngineInv, Mid

(* Replaced: the replacement is committed, unless the candidate is gone. *)
LEMMA ReplacementLost ==
  ASSUME NEW e, NEW p, NEW w, NEW w2, EngineInv(e, w), Popped(e, p, "Replaced", w, w2),
         p.candidate = None, w2.pending = 0, w2.interrupted
  PROVE  EngineInv(ResolveReplacement(p, TRUE), w2)
<1> DEFINE f == [p EXCEPT !.promotion = FALSE]
<1>1. /\ IsEngine(e, w) /\ Routes(e, w, FALSE, FALSE) /\ CandidateInv(e, w, FALSE)
  BY Zenon DEF EngineInv, Mid
<1>2. p.promotion BY <1>1, Zenon DEF CandidateInv, Popped
<1>3. ResolveReplacement(p, TRUE) = f BY <1>2, Zenon DEF ResolveReplacement
<1>4. /\ IsRecord(f) /\ f.role = p.role /\ f.connection = p.connection /\ f.candidate = p.candidate
      /\ f.promotion = FALSE /\ f.published = p.published /\ f.events = p.events
  BY Zenon DEF Popped, IsRecord, EngineFields
<1> HIDE DEF f
<1>5. IsEngine(f, w2) BY <1>1, <1>4, Zenon DEF IsEngine, Popped
<1>6. Promised(f) = {} /\ Promised(e) = {} BY <1>4, Zenon DEF Promised, DcidsOf, Popped
<1>7. Routes(f, w2, FALSE, FALSE) BY <1>1, <1>4, <1>6, Zenon DEF Routes, Popped
<1>8. CandidateInv(f, w2, FALSE)
  <2>1. ~Has(f.events, "Replaced") BY <1>4, Zenon DEF Popped
  <2>2. Has(f.events, "Closed") => Has(e.events, "Closed") BY <1>4, Zenon DEF Popped
  <2> QED BY <1>1, <1>4, <2>1, <2>2, Zenon DEF CandidateInv, Popped
<1>9. AliveInv(f, w2, FALSE, FALSE) BY <1>4, Zenon DEF AliveInv
<1>10. PendingInv(f, w2, FALSE) BY Zenon DEF PendingInv
<1> QED BY <1>3, <1>5, <1>7, <1>8, <1>9, <1>10, Zenon DEF EngineInv, Mid

LEMMA ReplacementCommitted ==
  ASSUME NEW e, NEW p, NEW w, NEW w2, EngineInv(e, w), Popped(e, p, "Replaced", w, w2),
         p.candidate # None
  PROVE  EngineInv(ResolveReplacement(p, TRUE), w2)
<1> DEFINE c == p.candidate
           T == c.dcids
           U == p.published \ DcidsOf(c)
           f == [p EXCEPT !.promotion = FALSE]
           m == [f EXCEPT !.connection = p.candidate, !.candidate = None]
           g == EmitEach(m, "DcidRetired", U)
           h == [g EXCEPT !.published = c.dcids]
           r == Emit(h, "Authenticated", {})
<1>1. /\ IsEngine(e, w) /\ Routes(e, w, FALSE, FALSE) /\ CandidateInv(e, w, FALSE)
      /\ AliveInv(e, w, FALSE, FALSE)
  BY Zenon DEF EngineInv, Mid
<1>2. /\ IsRecord(p) /\ p.role = e.role /\ p.connection = e.connection /\ p.candidate = e.candidate
      /\ p.promotion = e.promotion /\ p.published = e.published
      /\ QueueInv(p.events, w2.by, w2.st)
  BY Zenon DEF Popped
<1>3. /\ p.promotion /\ c.authenticated /\ p.role # "client"
      /\ ~Has(p.events, "Replaced") /\ ~Has(p.events, "Closed")
  BY <1>1, <1>2, Zenon DEF CandidateInv, Popped
<1>4. ResolveReplacement(p, TRUE) = r BY <1>3, Zenon DEF ResolveReplacement
<1>5. IsConnection(c) /\ p.published \subseteq Dcids BY <1>1, <1>2, Zenon DEF IsEngine
<1>6. T \in SUBSET Dcids /\ U \in SUBSET Dcids /\ DcidsOf(c) = T
  BY <1>5, ConnectionIs, Zenon DEF DcidsOf
<1>7. /\ IsRecord(m) /\ m.role = p.role /\ m.connection = c /\ m.candidate = None
      /\ m.promotion = FALSE /\ m.published = p.published /\ m.events = p.events
  BY <1>2, Zenon DEF IsRecord, EngineFields
<1> HIDE DEF m
<1>8. RetiredTo(m, g, w2, U) BY <1>2, <1>6, <1>7, RetireEach, Zenon
<1> HIDE DEF g
<1>9. /\ IsRecord(h) /\ h.role = g.role /\ h.connection = g.connection /\ h.candidate = g.candidate
      /\ h.promotion = g.promotion /\ h.published = T /\ h.events = g.events
  BY <1>8, Zenon DEF RetiredTo, SameBut, IsRecord, EngineFields
<1> HIDE DEF h
<1>10. h.events \in Seq(Events) /\ QueueInv(h.events, w2.by, w2.st)
  BY <1>8, <1>9, Zenon DEF RetiredTo
<1>11. /\ "Authenticated" \in Kinds \ Single /\ {} \in SUBSET Dcids
       /\ "Authenticated" # "DcidStaged"
       /\ "Authenticated" # "Replaced" /\ "Replaced" # "Authenticated" /\ "Closed" # "Authenticated"
  BY Zenon DEF Kinds, Single
<1>12. /\ SameBut(h, r) /\ Added(h.events, r.events, "Authenticated", {})
       /\ Len(r.events) = Len(h.events) + 1
  BY <1>9, <1>10, <1>11, EmitAdds, SMT
<1> HIDE DEF r, U, T
<1>13. /\ ActiveAfter(r.events, w2.by) = ActiveAfter(h.events, w2.by)
       /\ StagedAfter(r.events, w2.st) = StagedAfter(h.events, w2.st)
  BY <1>12, AddedAuthenticated, SMT
<1>14. QueueInv(r.events, w2.by, w2.st) BY <1>10, <1>11, <1>12, AddedInv, SMT
<1>15. /\ Has(r.events, "Replaced") <=> Has(h.events, "Replaced")
       /\ Has(r.events, "Closed") <=> Has(h.events, "Closed")
       /\ Has(r.events, "Authenticated")
  BY <1>11, <1>12, AddedHas, Zenon
<1>16. /\ IsRecord(r) /\ r.role = p.role /\ r.connection = c /\ r.candidate = None
       /\ r.promotion = FALSE /\ r.published = T
       /\ ~Has(r.events, "Replaced") /\ ~Has(r.events, "Closed")
       /\ ActiveAfter(r.events, w2.by) = ActiveAfter(p.events, w2.by) \ U
       /\ StagedAfter(r.events, w2.st) = StagedAfter(p.events, w2.st) \ U
  BY <1>3, <1>7, <1>8, <1>9, <1>12, <1>13, <1>15 DEF RetiredTo, SameBut
<1>17. IsEngine(r, w2) BY <1>1, <1>2, <1>5, <1>6, <1>14, <1>16, Zenon DEF IsEngine
<1>18. Routes(r, w2, FALSE, FALSE)
  <2>1. Promised(e) = T /\ Promised(r) = {}
    BY <1>2, <1>3, <1>6, <1>16, Zenon DEF Promised
  <2>2. ActiveAfter(p.events, w2.by) = p.published \cup T
    BY <1>1, <1>2, <2>1, Zenon DEF Routes, Popped
  <2>3. ActiveAfter(r.events, w2.by) = r.published \cup Promised(r)
    BY <1>6, <1>16, <2>1, <2>2, Zenon DEF U
  <2>4. Unannounced(e.connection, FALSE) = {} /\ Unannounced(e.candidate, FALSE) = {}
    BY <1>1, <1>2, <1>3, Zenon DEF Unannounced, CandidateInv, IsEngine
  <2>5. StagedAfter(r.events, w2.st) = {} BY <1>1, <1>16, <2>4, Zenon DEF Routes, Popped
  <2>6. Generated(r.connection) = {} /\ Generated(r.candidate) = {}
    BY <1>3, <1>16, Zenon DEF Generated
  <2>7. r.connection.dcids \subseteq r.published BY <1>16, Zenon DEF T
  <2> QED BY <2>3, <2>5, <2>6, <2>7, Zenon DEF Routes
<1>19. CandidateInv(r, w2, FALSE) BY <1>3, <1>16, Zenon DEF CandidateInv
<1>20. AliveInv(r, w2, FALSE, FALSE)
  <2>1. ~c.dead BY <1>1, <1>2, Zenon DEF AliveInv
  <2>2. r.published \subseteq DcidsOf(r.connection) BY <1>6, <1>16, Zenon
  <2> QED BY <1>16, <2>1, <2>2, Zenon DEF AliveInv
<1>21. PendingInv(r, w2, FALSE) BY <1>15, Zenon DEF PendingInv
<1> QED BY <1>4, <1>17, <1>18, <1>19, <1>20, <1>21, Zenon DEF EngineInv, Mid

-----------------------------------------------------------------------------
(* What packets and timers make the transports report is fit. *)
OutcomeOf(o, auth, lost, dead) ==
  o.auth = auth /\ o.lost = lost /\ o.dead = dead /\ o.dcids = {}

LEMMA IsOutcome ==
  ASSUME NEW auth, NEW lost, NEW dead
  PROVE  OutcomeOf(Outcome(auth, lost, dead, {}), auth, lost, dead)
BY Zenon DEF Outcome, OutcomeOf

LEMMA TimersReport ==
  ASSUME NEW e, NEW c, NEW o \in Timers(c)
  PROVE  Reports(e, c, o) /\ o.dcids = {} /\ (o.dead => o.lost) /\ ~o.auth
<1> DEFINE A == IF c = None \/ c.dead THEN {} ELSE {Outcome(FALSE, TRUE, TRUE, {})}
           B == IF c = None \/ c.authenticated THEN {} ELSE {Outcome(FALSE, TRUE, FALSE, {})}
<1>1. o = Quiet \/ o \in A \/ o \in B BY Zenon DEF Timers
<1>2. /\ o \in A => c # None /\ o = Outcome(FALSE, TRUE, TRUE, {})
      /\ o \in B => c # None /\ o = Outcome(FALSE, TRUE, FALSE, {})
  BY Zenon
<1> HIDE DEF A, B
<1>3. /\ o = Quiet => OutcomeOf(o, FALSE, FALSE, FALSE)
      /\ o \in A => OutcomeOf(o, FALSE, TRUE, TRUE)
      /\ o \in B => OutcomeOf(o, FALSE, TRUE, FALSE)
  BY <1>2, IsOutcome, Zenon DEF Quiet
<1>4. o.auth = FALSE /\ o.lost \in BOOLEAN /\ o.dead \in BOOLEAN /\ o.dcids = {}
      /\ (o.dead => o.lost)
  BY <1>1, <1>3, Zenon DEF OutcomeOf
<1> QED BY <1>1, <1>2, <1>4, Zenon DEF Reports

LEMMA TimersFit ==
  ASSUME NEW e, NEW w, NEW oa \in Timers(e.connection), NEW oc \in Timers(e.candidate)
  PROVE  Fit(e, w, oa, oc)
BY TimersReport, Zenon DEF Fit, OneNew

LEMMA FreshIsNew ==
  ASSUME NEW e, NEW d \in Fresh(e), e.events \in Seq(Events)
  PROVE  New(e, World, d)
<1>1. /\ d \in Dcids /\ d \notin DcidsOf(e.connection) /\ d \notin DcidsOf(e.candidate)
      /\ d \notin e.published /\ d \notin DOMAIN index.by_dcid
      /\ d \notin DOMAIN index.staged_by_dcid
      /\ d \notin UNION {e.events[k].dcids : k \in DOMAIN e.events}
  <2> DEFINE M == UNION {e.events[k].dcids : k \in DOMAIN e.events}
  <2>1. InUse(e) = DcidsOf(e.connection) \cup DcidsOf(e.candidate) \cup e.published \cup M
                   \cup DOMAIN index.by_dcid \cup DOMAIN index.staged_by_dcid
    BY Zenon DEF InUse
  <2> HIDE DEF M
  <2>2. d \in Dcids /\ d \notin InUse(e) BY Zenon DEF Fresh
  <2>3. /\ d \in Dcids /\ d \notin DcidsOf(e.connection) /\ d \notin DcidsOf(e.candidate)
        /\ d \notin e.published /\ d \notin DOMAIN index.by_dcid
        /\ d \notin DOMAIN index.staged_by_dcid
        /\ d \notin M
    BY <2>1, <2>2, Zenon
  <2> QED BY <2>3, Zenon DEF M
<1>2. DOMAIN e.events = 1..Len(e.events) OBVIOUS
<1>3. d \notin Mentioned(e.events) BY <1>1, <1>2, Zenon DEF Mentioned
<1>4. World.by = DOMAIN index.by_dcid /\ World.st = DOMAIN index.staged_by_dcid BY Zenon DEF World
<1> QED BY <1>1, <1>3, <1>4, Zenon DEF New

LEMMA PacketsReport ==
  ASSUME NEW e, NEW c, c = None \/ c.authenticated \in BOOLEAN, NEW o \in Packets(e, c)
  PROVE  /\ Reports(e, c, o) /\ c # None /\ (o.dead => o.lost)
         /\ o.dcids = {} \/ \E d \in Fresh(e) : o.dcids = {d}
         /\ o.auth /\ o.dead => e.role = "client"
<1> DEFINE A == {Quiet, Outcome(FALSE, TRUE, TRUE, {}), Outcome(FALSE, TRUE, FALSE, {})}
           B == {Outcome(FALSE, FALSE, FALSE, {d}) : d \in Fresh(e)}
           D == {Outcome(TRUE, FALSE, FALSE, {}), Outcome(TRUE, TRUE, e.role = "client", {})}
           C == {Outcome(TRUE, FALSE, FALSE, {d}) : d \in Fresh(e)}
<1>1. Packets(e, c) = IF c = None \/ c.dead THEN {}
                      ELSE A \cup B \cup (IF c.authenticated THEN {} ELSE D \cup C)
  BY Zenon DEF Packets
<1>2. /\ c # None /\ ~c.dead
      /\ o \in A \/ o \in B \/ (~c.authenticated /\ o \in D) \/ (~c.authenticated /\ o \in C)
  <2> HIDE DEF A, B, C, D
  <2> QED BY <1>1, Zenon
<1>3. CASE o \in A
  <2>0. \/ OutcomeOf(o, FALSE, FALSE, FALSE)
        \/ OutcomeOf(o, FALSE, TRUE, TRUE)
        \/ OutcomeOf(o, FALSE, TRUE, FALSE)
    BY <1>3, IsOutcome, Zenon DEF Quiet
  <2>1. o.auth = FALSE /\ o.lost \in BOOLEAN /\ o.dead \in BOOLEAN /\ o.dcids = {}
        /\ (o.dead => o.lost)
    BY <2>0, Zenon DEF OutcomeOf
  <2> QED BY <1>2, <2>1, Zenon DEF Reports
<1>4. CASE o \in B
  <2>1. PICK d \in Fresh(e) : o = Outcome(FALSE, FALSE, FALSE, {d}) BY <1>4, Zenon
  <2>2. o.auth = FALSE /\ o.lost = FALSE /\ o.dead = FALSE /\ o.dcids = {d}
    BY <2>1, Zenon DEF Outcome
  <2> QED BY <1>2, <2>1, <2>2, Zenon DEF Reports
<1>5. CASE ~c.authenticated /\ o \in D
  <2>1. CASE o = Outcome(TRUE, FALSE, FALSE, {})
    <3>1. o.auth = TRUE /\ o.lost = FALSE /\ o.dead = FALSE /\ o.dcids = {}
      BY <2>1, Zenon DEF Outcome
    <3> QED BY <1>2, <1>5, <3>1, Zenon DEF Reports
  <2>2. CASE o = Outcome(TRUE, TRUE, e.role = "client", {})
    <3>1. o.auth = TRUE /\ o.lost = TRUE /\ o.dead = (e.role = "client") /\ o.dcids = {}
      BY <2>2, Zenon DEF Outcome
    <3> QED BY <1>2, <1>5, <3>1, Zenon DEF Reports
  <2> QED BY <1>5, <2>1, <2>2, Zenon
<1>6. CASE ~c.authenticated /\ o \in C
  <2>1. PICK d \in Fresh(e) : o = Outcome(TRUE, FALSE, FALSE, {d}) BY <1>6, Zenon
  <2>2. o.auth = TRUE /\ o.lost = FALSE /\ o.dead = FALSE /\ o.dcids = {d}
    BY <2>1, Zenon DEF Outcome
  <2> QED BY <1>2, <1>6, <2>1, <2>2, Zenon DEF Reports
<1> QED BY <1>2, <1>3, <1>4, <1>5, <1>6, Zenon

LEMMA EngineEvents ==
  ASSUME NEW e, NEW w, EngineInv(e, w)
  PROVE  /\ e.events \in Seq(Events) /\ QueueInv(e.events, w.by, w.st)
         /\ e.connection = None \/ e.connection.authenticated \in BOOLEAN
         /\ e.candidate = None \/ e.candidate.authenticated \in BOOLEAN
<1>1. /\ e.connection = None \/ IsConnection(e.connection)
      /\ e.candidate = None \/ IsConnection(e.candidate)
      /\ QueueInv(e.events, w.by, w.st)
  BY Zenon DEF EngineInv, Mid, IsEngine
<1>2. e.events \in Seq(Events) BY <1>1, Zenon DEF QueueInv
<1> QED BY <1>1, <1>2, ConnectionIs, Zenon

LEMMA ConnectionPacketFit ==
  ASSUME EngineInv(engine, World),
         NEW oa \in Packets(engine, engine.connection), NEW oc \in Timers(engine.candidate)
  PROVE  Fit(engine, World, oa, oc)
<1>1. /\ engine.events \in Seq(Events)
      /\ engine.connection = None \/ engine.connection.authenticated \in BOOLEAN
  BY EngineEvents, Zenon
<1>2. /\ Reports(engine, engine.connection, oa) /\ engine.connection # None /\ (oa.dead => oa.lost)
      /\ oa.dcids = {} \/ \E d \in Fresh(engine) : oa.dcids = {d}
  BY <1>1, PacketsReport, Zenon
<1>3. /\ Reports(engine, engine.candidate, oc) /\ oc.dcids = {}
      /\ oc.dead => oc.lost
      /\ ~oc.auth
  BY TimersReport, Zenon
<1>4. \A d \in Fresh(engine) : New(engine, World, d) BY <1>1, FreshIsNew, Zenon
<1>5. OneNew(engine, World, oa, oc) BY <1>2, <1>3, <1>4, Zenon DEF OneNew
<1> QED BY <1>2, <1>3, <1>5, Zenon DEF Fit

LEMMA CandidatePacketFit ==
  ASSUME EngineInv(engine, World), PhaseInv, Receiving,
         NEW oa \in Timers(engine.connection), NEW oc \in Packets(engine, engine.candidate)
  PROVE  Fit(engine, World, oa, oc)
<1>1. /\ engine.events \in Seq(Events)
      /\ engine.candidate = None \/ engine.candidate.authenticated \in BOOLEAN
  BY EngineEvents, Zenon
<1>2. /\ Reports(engine, engine.candidate, oc) /\ engine.candidate # None /\ (oc.dead => oc.lost)
      /\ oc.dcids = {} \/ \E d \in Fresh(engine) : oc.dcids = {d}
      /\ oc.auth /\ oc.dead => engine.role = "client"
  BY <1>1, PacketsReport, Zenon
<1>3. /\ Reports(engine, engine.connection, oa) /\ oa.dcids = {}
      /\ oa.dead => oa.lost
  BY TimersReport, Zenon
<1>4. \A d \in Fresh(engine) : New(engine, World, d) BY <1>1, FreshIsNew, Zenon
<1>5. OneNew(engine, World, oa, oc) BY <1>2, <1>3, <1>4, Zenon DEF OneNew
<1>6. engine.role # "client" BY <1>2, Zenon DEF EngineInv, Mid, CandidateInv
<1>7. ~Has(engine.events, "Closed") BY <1>2, Zenon DEF Receiving, PhaseInv
<1> QED BY <1>2, <1>3, <1>5, <1>6, <1>7, Zenon DEF Fit

(* A new connection becomes the candidate. *)
LEMMA AcceptKeeps ==
  ASSUME NEW e, NEW w, EngineInv(e, w), e.role = "server", ~e.promotion,
         NEW initial, NEW generated, New(e, w, initial), New(e, w, generated), generated # initial
  PROVE  EngineInv(Accept(e, initial, generated), w)
<1>1. CASE e.candidate # None
  <2>1. Accept(e, initial, generated) = e BY <1>1, Zenon DEF Accept
  <2> QED BY <2>1, Zenon
<1>2. CASE e.candidate = None
  <2> DEFINE c == Connection({initial}, {initial})
             f == [e EXCEPT !.candidate = c]
  <2>1. /\ IsEngine(e, w) /\ Routes(e, w, FALSE, FALSE) /\ CandidateInv(e, w, FALSE)
        /\ AliveInv(e, w, FALSE, FALSE) /\ PendingInv(e, w, FALSE)
    BY Zenon DEF EngineInv, Mid
  <2>2. Accept(e, initial, generated) = Stage(f, "candidate", {generated})
    BY <1>2, Zenon DEF Accept
  <2>3. /\ c \in Connections /\ c.initial = {initial} /\ c.dcids = {initial}
        /\ c.authenticated = FALSE /\ c.dead = FALSE /\ c.dcid_limit_exceeded = FALSE
    BY Zenon DEF New, Connection, Connections
  <2> HIDE DEF c
  <2>4. /\ IsRecord(f) /\ f.role = e.role /\ f.connection = e.connection /\ f.candidate = c
        /\ f.promotion = e.promotion /\ f.published = e.published /\ f.events = e.events
    BY <2>1, Zenon DEF IsEngine, IsRecord, EngineFields
  <2> HIDE DEF f
  <2>5. IsConnection(c) BY <2>3, Zenon DEF IsConnection
  <2>6. c # None BY <2>5, ConnectionIs, Zenon
  <2>7. IsEngine(f, w) BY <2>1, <2>4, <2>5, Zenon DEF IsEngine
  <2>8. Routes(f, w, FALSE, FALSE)
    <3>1. Promised(f) = {} /\ Promised(e) = {} BY <2>4, Zenon DEF Promised
    <3>2. Unannounced(None, FALSE) = {} /\ Generated(None) = {} /\ Generated(c) = {}
      BY <2>3, Zenon DEF Unannounced, Generated
    <3> QED BY <1>2, <2>1, <2>4, <3>1, <3>2, Zenon DEF Routes
  <2>9. CandidateInv(f, w, FALSE)
    <3>1. initial \notin w.by /\ initial \notin e.published /\ initial \notin Announced(e.events)
      BY NewIs, Zenon DEF New
    <3>2. c.dcids \cap (w.by \cup e.published \cup Announced(e.events)) = {}
      BY <2>3, <3>1, Zenon
    <3>3. "server" # "client" BY Zenon
    <3> QED BY <2>1, <2>3, <2>4, <3>2, <3>3, Zenon DEF CandidateInv
  <2>10. AliveInv(f, w, FALSE, FALSE)
    <3>1. DcidsOf(e.candidate) = {} BY <1>2, Zenon DEF DcidsOf
    <3>2. ~c.dead BY <2>3, Zenon
    <3> QED BY <2>1, <2>4, <3>1, <3>2, Zenon DEF AliveInv
  <2>11. PendingInv(f, w, FALSE) BY <2>1, <2>4, Zenon DEF PendingInv, IsAuthenticated
  <2>12. Mid(f, w, FALSE, FALSE, FALSE, FALSE)
    BY <2>7, <2>8, <2>9, <2>10, <2>11, Zenon DEF Mid
  <2>13. New(f, w, generated)
    <3>1. DcidsOf(c) = {initial} BY <2>3, <2>6, Zenon DEF DcidsOf
    <3> QED BY <2>4, <3>1, Zenon DEF New
  <2>14. Mid(Stage(f, "candidate", {generated}), w, FALSE, FALSE, FALSE, FALSE)
    BY <2>4, <2>6, <2>12, <2>13, StageCandidate, Zenon
  <2> QED BY <2>2, <2>14, Zenon DEF EngineInv
<1> QED BY <1>1, <1>2, Zenon

(* The engines a lane starts with. *)
LEMMA NewServer ==
  ASSUME NEW w, w.by = {}, w.st = {}
  PROVE  EngineInv(NewServerEngine, w)
<1> DEFINE e == NewServerEngine
<1>1. /\ IsRecord(e) /\ e.role = "server" /\ e.connection = None /\ e.candidate = None
      /\ e.published = {} /\ e.promotion = FALSE /\ e.events = <<>>
  BY Zenon DEF NewServerEngine, IsRecord, EngineFields
<1> HIDE DEF e
<1>2. <<>> \in Seq(Events) /\ Len(<<>>) = 0 /\ 1..0 = {} OBVIOUS
<1>3. QueueInv(<<>>, {}, {}) BY <1>2, Zenon DEF QueueInv
<1>4. ActiveAfter(<<>>, {}) = {} /\ StagedAfter(<<>>, {}) = {}
  BY <1>2, Zenon DEF ActiveAfter, StagedAfter
<1>5. \A x : ~Has(<<>>, x) BY <1>2, Zenon DEF Has
<1>6. IsEngine(e, w) BY <1>1, <1>3, Zenon DEF IsEngine
<1>7. Promised(e) = {} /\ Generated(None) = {} BY <1>1, Zenon DEF Promised, Generated
<1>8. Routes(e, w, FALSE, FALSE) BY <1>1, <1>4, <1>7, Zenon DEF Routes
<1>9. CandidateInv(e, w, FALSE) BY <1>1, <1>5, Zenon DEF CandidateInv
<1>10. AliveInv(e, w, FALSE, FALSE) BY <1>1, Zenon DEF AliveInv
<1>11. PendingInv(e, w, FALSE) BY <1>1, Zenon DEF PendingInv, IsAuthenticated
<1> QED BY <1>6, <1>8, <1>9, <1>10, <1>11, Zenon DEF EngineInv, Mid, e

LEMMA NewClient ==
  ASSUME NEW w, w.by = {}, w.st = {}, NEW d \in Dcids
  PROVE  EngineInv(NewClientEngine(d), w)
<1> DEFINE e == NewClientEngine(d)
           c == Connection({}, {d})
           q == <<[kind |-> "DcidStaged", dcids |-> {d}]>>
<1>1. /\ IsRecord(e) /\ e.role = "client" /\ e.connection = c /\ e.candidate = None
      /\ e.published = {} /\ e.promotion = FALSE /\ e.events = q
  BY Zenon DEF NewClientEngine, IsRecord, EngineFields
<1>2. /\ c \in Connections /\ c.initial = {} /\ c.dcids = {d}
      /\ c.authenticated = FALSE /\ c.dead = FALSE /\ c.dcid_limit_exceeded = FALSE
  BY Zenon DEF Connection, Connections
<1>3. IsConnection(c) BY <1>2, Zenon DEF IsConnection
<1>4. c # None BY <1>3, ConnectionIs, Zenon
<1> HIDE DEF c, e
<1>5. /\ q \in Seq(Events) /\ Len(q) = 1 /\ Len(<<>>) = 0 /\ <<>> \in Seq(Events) /\ 1..0 = {}
      /\ q[1].kind = "DcidStaged" /\ q[1].dcids = {d} /\ 0 + 1 = 1 /\ 1..1 = {1} /\ 0 <= 1
      /\ 1 <= 0 + 1
  BY DEF Events, Kinds
<1> HIDE DEF q
<1>6. Added(<<>>, q, "DcidStaged", {d}) BY <1>5, Zenon DEF Added
<1>7. QueueInv(<<>>, {}, {}) BY <1>5, Zenon DEF QueueInv
<1>8. ActiveAfter(<<>>, {}) = {} /\ StagedAfter(<<>>, {}) = {} /\ Mentioned(<<>>) = {}
  BY <1>5, Zenon DEF ActiveAfter, StagedAfter, Mentioned
<1>9. \A x : Has(q, x) => x = "DcidStaged" BY <1>5, Zenon DEF Has
<1>10. {d} \in SUBSET Dcids /\ "DcidStaged" # "Replaced" /\ "DcidStaged" # "Closed" BY Zenon
<1>11. QueueInv(q, {}, {}) BY <1>6, <1>7, <1>8, <1>10, AddedInv, SMT
<1>12. ActiveAfter(q, {}) = {} /\ StagedAfter(q, {}) = {d}
  <2>1. ActiveAfter(q, {}) = ActiveAfter(<<>>, {})
        /\ StagedAfter(q, {}) = StagedAfter(<<>>, {}) \cup {d}
    BY <1>6, <1>10, AddedStaged, SMT
  <2> QED BY <1>8, <2>1, Zenon
<1>13. IsEngine(e, w) BY <1>1, <1>3, <1>11, Zenon DEF IsEngine
<1>14. Routes(e, w, FALSE, FALSE)
  <2>1. Promised(e) = {} /\ Generated(None) = {} /\ Unannounced(None, FALSE) = {}
    BY <1>1, Zenon DEF Promised, Generated, Unannounced
  <2>2. Generated(c) = {d} /\ Unannounced(c, FALSE) = {d} /\ ~c.authenticated
    BY <1>2, <1>4, Zenon DEF Generated, Unannounced
  <2> QED BY <1>1, <1>12, <2>1, <2>2, Zenon DEF Routes
<1>15. CandidateInv(e, w, FALSE) BY <1>1, <1>9, <1>10, Zenon DEF CandidateInv
<1>16. AliveInv(e, w, FALSE, FALSE) BY <1>1, <1>2, Zenon DEF AliveInv
<1>17. PendingInv(e, w, FALSE) BY <1>1, <1>2, Zenon DEF PendingInv, IsAuthenticated
<1> QED BY <1>13, <1>14, <1>15, <1>16, <1>17, Zenon DEF EngineInv, Mid, e

-----------------------------------------------------------------------------
(* i2 is i with the active and the staged entries by and st. *)
IndexBecomes(i2, by, st, owner) ==
  IndexOf(i2, owner) /\ DOMAIN i2.by_dcid = by /\ DOMAIN i2.staged_by_dcid = st

Inserted(f, k, v, g) ==
  DOMAIN g = DOMAIN f \cup {k} /\ g[k] = v /\ \A x \in DOMAIN f : x # k => g[x] = f[x]
Restricted(f, S, g) ==
  DOMAIN g = DOMAIN f \ S /\ \A x \in DOMAIN g : g[x] = f[x]

LEMMA InsertIs ==
  ASSUME NEW f, NEW k, NEW v
  PROVE  Inserted(f, k, v, Insert(f, k, v))
BY Zenon DEF Insert, Inserted

LEMMA WithoutIs ==
  ASSUME NEW f, NEW S
  PROVE  Restricted(f, S, Without(f, S))
BY Zenon DEF Without, Restrict, Restricted

LEMMA IndexDcids ==
  ASSUME NEW i, NEW owner, IndexOf(i, owner)
  PROVE  FlowDcids(i, owner.quic_flow_id) = DOMAIN i.by_dcid
BY Zenon DEF FlowDcids, IndexOf

LEMMA AllAcceptable ==
  ASSUME NEW i, NEW owner, NEW dcids, IndexOf(i, owner)
  PROVE  Acceptable(i, dcids, owner)
BY Zenon DEF Acceptable, Known, Resolve, IndexOf

LEMMA StageIndex ==
  ASSUME NEW i, NEW owner, IndexOf(i, owner), NEW d \in Dcids,
         d \notin DOMAIN i.by_dcid, d \notin DOMAIN i.staged_by_dcid
  PROVE  IndexBecomes(StageForFlow(i, d, owner), DOMAIN i.by_dcid,
                      DOMAIN i.staged_by_dcid \cup {d}, owner)
<1> DEFINE s == Insert(i.staged_by_dcid, d, owner)
           i2 == [i EXCEPT !.staged_by_dcid = s]
<1>1. DOMAIN s = DOMAIN i.staged_by_dcid \cup {d} /\ \A x \in DOMAIN s : s[x] = owner
  <2>1. Inserted(i.staged_by_dcid, d, owner, s) BY InsertIs, Zenon
  <2>2. \A x \in DOMAIN i.staged_by_dcid : i.staged_by_dcid[x] = owner BY Zenon DEF IndexOf
  <2> HIDE DEF s
  <2> QED BY <2>1, <2>2 DEF Inserted
<1>2. StageForFlow(i, d, owner) = i2 BY Zenon DEF StageForFlow, Known
<1> HIDE DEF s
<1>3. /\ DOMAIN i2 = {"by_dcid", "staged_by_dcid", "by_flow"} /\ i2.by_dcid = i.by_dcid
      /\ i2.by_flow = i.by_flow /\ i2.staged_by_dcid = s
  BY Zenon DEF IndexOf
<1> HIDE DEF i2
<1> QED BY <1>1, <1>2, <1>3, Zenon DEF IndexBecomes, IndexOf

LEMMA PublishIndex ==
  ASSUME NEW i, NEW owner, IndexOf(i, owner), NEW T \in SUBSET Dcids
  PROVE  IndexBecomes(PublishForFlow(i, T, owner), DOMAIN i.by_dcid \cup T,
                      DOMAIN i.staged_by_dcid \ T, owner)
<1> DEFINE b == [d \in DOMAIN i.by_dcid \cup T |-> IF d \in T THEN owner ELSE i.by_dcid[d]]
           s == Without(i.staged_by_dcid, T)
           n == Insert(i.by_flow, owner.quic_flow_id, FlowDcids(i, owner.quic_flow_id) \cup T)
           f == IF T = {} THEN i.by_flow ELSE n
           i2 == PublishForFlow(i, T, owner)
<1>1. /\ DOMAIN i2 = {"by_dcid", "staged_by_dcid", "by_flow"} /\ i2.by_dcid = b
      /\ i2.staged_by_dcid = s /\ i2.by_flow = f
  BY Zenon DEF PublishForFlow
<1>2. DOMAIN b = DOMAIN i.by_dcid \cup T /\ \A d \in DOMAIN b : b[d] = owner BY Zenon DEF IndexOf
<1>3. DOMAIN s = DOMAIN i.staged_by_dcid \ T /\ \A d \in DOMAIN s : s[d] = owner
  <2>1. Restricted(i.staged_by_dcid, T, s) BY WithoutIs, Zenon
  <2>2. \A x \in DOMAIN i.staged_by_dcid : i.staged_by_dcid[x] = owner BY Zenon DEF IndexOf
  <2> HIDE DEF s
  <2> QED BY <2>1, <2>2, Zenon DEF Restricted
<1>4. /\ DOMAIN n = DOMAIN i.by_flow \cup {owner.quic_flow_id}
      /\ n[owner.quic_flow_id] = DOMAIN i.by_dcid \cup T
  <2>1. FlowDcids(i, owner.quic_flow_id) = DOMAIN i.by_dcid BY IndexDcids, Zenon
  <2>2. Inserted(i.by_flow, owner.quic_flow_id, FlowDcids(i, owner.quic_flow_id) \cup T, n)
    BY InsertIs, Zenon
  <2> HIDE DEF n
  <2> QED BY <2>1, <2>2 DEF Inserted
<1> HIDE DEF b, s, n, i2
<1>5. /\ \A x \in DOMAIN f : x = owner.quic_flow_id /\ f[x] = DOMAIN b
      /\ owner.quic_flow_id \in DOMAIN f <=> DOMAIN b # {}
  <2>1. CASE T = {}
    <3>1. f = i.by_flow /\ DOMAIN b = DOMAIN i.by_dcid BY <1>2, <2>1
    <3> QED BY <3>1, Zenon DEF IndexOf
  <2>2. CASE T # {}
    <3>1. f = n BY <2>2, Zenon
    <3>2. \A x \in DOMAIN i.by_flow : x = owner.quic_flow_id BY Zenon DEF IndexOf
    <3> QED BY <1>2, <1>4, <2>2, <3>1, <3>2, Zenon
  <2> QED BY <2>1, <2>2, Zenon
<1> HIDE DEF f
<1>6. /\ DOMAIN b \subseteq Dcids /\ DOMAIN s \subseteq Dcids /\ DOMAIN b \cap DOMAIN s = {}
  BY <1>2, <1>3, Zenon DEF IndexOf
<1> QED BY <1>1, <1>2, <1>3, <1>5, <1>6, Zenon DEF IndexBecomes, IndexOf, i2

LEMMA RetireIndex ==
  ASSUME NEW i, NEW owner, IndexOf(i, owner), NEW d \in Dcids
  PROVE  IndexBecomes(RetireForFlow(i, d, owner), DOMAIN i.by_dcid \ {d},
                      DOMAIN i.staged_by_dcid \ {d}, owner)
<1>1. CASE ~Known(i, d)
  <2>1. RetireForFlow(i, d, owner) = i BY <1>1, Zenon DEF RetireForFlow
  <2>2. d \notin DOMAIN i.by_dcid /\ d \notin DOMAIN i.staged_by_dcid BY <1>1, Zenon DEF Known
  <2>3. /\ DOMAIN i.by_dcid \ {d} = DOMAIN i.by_dcid
        /\ DOMAIN i.staged_by_dcid \ {d} = DOMAIN i.staged_by_dcid
    BY <2>2, Zenon
  <2> QED BY <2>1, <2>3, Zenon DEF IndexBecomes
<1>2. CASE Known(i, d)
  <2> DEFINE flow == owner.quic_flow_id
             left == DOMAIN i.by_dcid \ {d}
             b    == Without(i.by_dcid, {d})
             s    == IF d \in DOMAIN i.by_dcid THEN i.staged_by_dcid
                                               ELSE Without(i.staged_by_dcid, {d})
             n    == Insert(i.by_flow, flow, left)
             m    == Without(i.by_flow, {flow})
             f    == IF left = {} THEN m ELSE n
             i2   == RetireForFlow(i, d, owner)
  <2>1. Resolve(i, d) = owner BY <1>2, Zenon DEF Known, Resolve, IndexOf
  <2>2. FlowDcids(i, flow) = DOMAIN i.by_dcid BY IndexDcids, Zenon
  <2>3. i2 = [by_dcid |-> b, staged_by_dcid |-> s, by_flow |-> f]
    BY <1>2, <2>1, <2>2, Zenon DEF RetireForFlow, Retire
  <2>4. Restricted(i.by_dcid, {d}, b) BY WithoutIs, Zenon
  <2>5. Restricted(i.staged_by_dcid, {d}, Without(i.staged_by_dcid, {d})) BY WithoutIs, Zenon
  <2>6. Inserted(i.by_flow, flow, left, n) /\ Restricted(i.by_flow, {flow}, m)
    BY InsertIs, WithoutIs, Zenon
  <2>7. DOMAIN s = DOMAIN i.staged_by_dcid \ {d} /\ \A x \in DOMAIN s : s[x] = i.staged_by_dcid[x]
    <3>1. CASE d \in DOMAIN i.by_dcid
      <4>1. s = i.staged_by_dcid BY <3>1, Zenon
      <4>2. d \notin DOMAIN i.staged_by_dcid BY <3>1, Zenon DEF IndexOf
      <4> HIDE DEF s
      <4> QED BY <4>1, <4>2, Zenon
    <3>2. CASE d \notin DOMAIN i.by_dcid
      <4>1. s = Without(i.staged_by_dcid, {d}) BY <3>2, Zenon
      <4> HIDE DEF s
      <4> QED BY <2>5, <4>1, Zenon DEF Restricted
    <3> QED BY <3>1, <3>2, Zenon
  <2> HIDE DEF b, s, n, m
  <2>8. DOMAIN b = left /\ \A x \in DOMAIN b : b[x] = owner
    <3>1. \A x \in DOMAIN i.by_dcid : i.by_dcid[x] = owner BY Zenon DEF IndexOf
    <3> QED BY <2>4, <3>1, Zenon DEF Restricted
  <2>9. \A x \in DOMAIN s : s[x] = owner BY <2>7, Zenon DEF IndexOf
  <2>10. \A x \in DOMAIN i.by_flow : x = flow BY Zenon DEF IndexOf
  <2>11. /\ \A x \in DOMAIN f : x = flow /\ f[x] = left
         /\ flow \in DOMAIN f <=> left # {}
    <3> HIDE DEF left, flow
    <3>1. CASE left = {}
      <4>1. f = m BY <3>1, Zenon
      <4>2. DOMAIN m = {} BY <2>6, <2>10, Zenon DEF Restricted
      <4> HIDE DEF f
      <4> QED BY <3>1, <4>1, <4>2, Zenon
    <3>2. CASE left # {}
      <4>1. f = n BY <3>2, Zenon
      <4>2. DOMAIN n = {flow} /\ n[flow] = left BY <2>6, <2>10, Zenon DEF Inserted
      <4> HIDE DEF f
      <4> QED BY <3>2, <4>1, <4>2, Zenon
    <3> QED BY <3>1, <3>2, Zenon
  <2> HIDE DEF f, i2
  <2>12. /\ DOMAIN i2 = {"by_dcid", "staged_by_dcid", "by_flow"} /\ i2.by_dcid = b
         /\ i2.staged_by_dcid = s /\ i2.by_flow = f
    BY <2>3, Zenon
  <2>13. /\ DOMAIN b \subseteq Dcids /\ DOMAIN s \subseteq Dcids /\ DOMAIN b \cap DOMAIN s = {}
    BY <2>7, <2>8, Zenon DEF IndexOf
  <2> QED BY <2>7, <2>8, <2>9, <2>11, <2>12, <2>13, Zenon DEF IndexBecomes, IndexOf, i2
<1> QED BY <1>1, <1>2, Zenon

LEMMA CloseIndex ==
  ASSUME NEW i, NEW owner, IndexOf(i, owner), NEW next
  PROVE  IndexBecomes(CloseFlow(i, owner.quic_flow_id), {}, {}, next)
<1> DEFINE flow == owner.quic_flow_id
           S  == {d \in DOMAIN i.staged_by_dcid : i.staged_by_dcid[d].quic_flow_id = flow}
           b  == Without(i.by_dcid, FlowDcids(i, flow))
           s  == Without(i.staged_by_dcid, S)
           m  == Without(i.by_flow, {flow})
           i2 == CloseFlow(i, flow)
<1>1. /\ DOMAIN i2 = {"by_dcid", "staged_by_dcid", "by_flow"} /\ i2.by_dcid = b
      /\ i2.staged_by_dcid = s /\ i2.by_flow = m
  BY DEF CloseFlow
<1>2. /\ Restricted(i.by_dcid, FlowDcids(i, flow), b) /\ Restricted(i.staged_by_dcid, S, s)
      /\ Restricted(i.by_flow, {flow}, m)
  BY WithoutIs, Zenon
<1>3. FlowDcids(i, flow) = DOMAIN i.by_dcid BY IndexDcids, Zenon
<1>4. S = DOMAIN i.staged_by_dcid BY DEF IndexOf
<1>5. \A x \in DOMAIN i.by_flow : x = flow BY Zenon DEF IndexOf
<1> HIDE DEF b, s, m, i2, S
<1>6. DOMAIN b = {} /\ DOMAIN s = {} /\ DOMAIN m = {}
  BY <1>2, <1>3, <1>4, <1>5, Zenon DEF Restricted
<1> QED BY <1>1, <1>6, Zenon DEF IndexBecomes, IndexOf, i2

LEMMA EmptyIndex ==
  ASSUME NEW owner
  PROVE  IndexBecomes(NewIndex, {}, {}, owner)
BY DEF NewIndex, NoDcids, IndexBecomes, IndexOf

-----------------------------------------------------------------------------
(* The first event, and what applying it does to the index. *)
First(q, v, by, st) ==
  /\ v \in Events
  /\ v.kind \in Single => \E d \in Dcids : v.dcids = {d}
  /\ \A d \in Dcids : Stages(v, d) => d \notin by \cup st
  /\ Has(q, v.kind)

LEMMA FirstEvent ==
  ASSUME NEW q, NEW by, NEW st, QueueInv(q, by, st), q # <<>>
  PROVE  First(q, Head(q), by, st)
<1>1. Head(q) = q[1] /\ q[1] \in Events /\ 1 \in 1..Len(q)
  BY TailBehind, Zenon DEF QueueInv, Behind
<1> QED BY <1>1, Zenon DEF QueueInv, Has, First

LEMMA StagedApplied ==
  ASSUME NEW v \in Events, NEW by \in SUBSET Dcids, NEW st \in SUBSET Dcids,
         v.kind = "DcidStaged"
  PROVE  Applied(v, by, st, by, st \cup v.dcids)
BY Zenon DEF Applied, Ends, Publishes, Stages, Publishing, Events

LEMMA PublishedApplied ==
  ASSUME NEW v \in Events, NEW by \in SUBSET Dcids, NEW st \in SUBSET Dcids,
         v.kind \in Publishing
  PROVE  Applied(v, by, st, by \cup v.dcids, st \ v.dcids)
BY Zenon DEF Applied, Ends, Publishes, Stages, Publishing, Events

LEMMA RetiredApplied ==
  ASSUME NEW v \in Events, NEW by \in SUBSET Dcids, NEW st \in SUBSET Dcids,
         v.kind = "DcidRetired"
  PROVE  Applied(v, by, st, by \ v.dcids, st \ v.dcids)
BY Zenon DEF Applied, Ends, Publishes, Stages, Publishing, Events

LEMMA AuthenticatedApplied ==
  ASSUME NEW v \in Events, NEW by \in SUBSET Dcids, NEW st \in SUBSET Dcids,
         v.kind = "Authenticated"
  PROVE  Applied(v, by, st, by, st)
BY Zenon DEF Applied, Ends, Publishes, Stages, Publishing, Events

LEMMA ClosedApplied ==
  ASSUME NEW v \in Events, NEW by \in SUBSET Dcids, NEW st \in SUBSET Dcids,
         v.kind = "Closed"
  PROVE  Applied(v, by, st, {}, {})
BY DEF Applied, Ends, Publishes, Stages, Publishing, Events

(* The engine does not mind which packets wait, unless it is authenticated. *)
LEMMA OtherPending ==
  ASSUME NEW e, NEW w, NEW w2, EngineInv(e, w), w2.by = w.by, w2.st = w.st,
         w2.interrupted = w.interrupted, IsAuthenticated(e) => w2.pending = 0
  PROVE  EngineInv(e, w2)
<1>1. /\ IsEngine(e, w) /\ Routes(e, w, FALSE, FALSE) /\ CandidateInv(e, w, FALSE)
      /\ AliveInv(e, w, FALSE, FALSE)
  BY Zenon DEF EngineInv, Mid
<1>2. IsEngine(e, w2) BY <1>1, Zenon DEF IsEngine
<1>3. Routes(e, w2, FALSE, FALSE) BY <1>1, Zenon DEF Routes
<1>4. CandidateInv(e, w2, FALSE) BY <1>1, Zenon DEF CandidateInv
<1>5. AliveInv(e, w2, FALSE, FALSE) BY <1>1, Zenon DEF AliveInv
<1>6. PendingInv(e, w2, FALSE) BY Zenon DEF PendingInv
<1> QED BY <1>2, <1>3, <1>4, <1>5, <1>6, Zenon DEF EngineInv, Mid

LEMMA WorldIs ==
  /\ World.by = DOMAIN index.by_dcid /\ World.st = DOMAIN index.staged_by_dcid
  /\ World.pending = pending /\ World.interrupted = interrupted
  /\ Owner.quic_flow_id = quic_flow
BY Zenon DEF World, Owner

LEMMA NextWorldIs ==
  /\ World'.by = DOMAIN index'.by_dcid /\ World'.st = DOMAIN index'.staged_by_dcid
  /\ World'.pending = pending' /\ World'.interrupted = interrupted'
BY DEF World

-----------------------------------------------------------------------------
(* drain_engine applies one event. *)

(* What is left to show of a step that is not about the phase. *)
EventInv == EngineInv(engine, World) /\ IndexOf(index, Owner) /\ pending \in Nat

LEMMA StagedKeeps ==
  ASSUME EventInv, NEW e, EngineInv(e, World), e.events # <<>>,
         Head(e.events).kind = "DcidStaged", OnStaged(Pop(e), Head(e.events).dcids)
  PROVE  EventInv'
<1> DEFINE v == Head(e.events)
           w == World
           u == World'
<1>1. IsEngine(e, w) /\ QueueInv(e.events, w.by, w.st) BY Zenon DEF EngineInv, Mid, IsEngine
<1>2. v \in Events /\ (\A d \in Dcids : Stages(v, d) => d \notin w.by \cup w.st)
  BY <1>1, FirstEvent, SMT DEF First
<1>3. v.kind \in Single BY Zenon DEF Single
<1>4. PICK d \in Dcids : v.dcids = {d} BY <1>1, <1>3, FirstEvent, SMT DEF First
<1>5. d \notin w.by /\ d \notin w.st BY <1>2, <1>4, Zenon DEF Stages
<1>6. (CHOOSE x \in v.dcids : TRUE) = d BY <1>4, Zenon
<1>7. IndexOf(index, Owner) BY Zenon DEF EventInv
<1>8. Acceptable(index, v.dcids, Owner) BY <1>7, AllAcceptable, Zenon
<1>9. /\ index' = StageForFlow(index, d, Owner) /\ engine' = Pop(e)
      /\ quic_flow' = quic_flow /\ pending' = pending /\ interrupted' = interrupted
  BY <1>6, <1>8, Zenon DEF OnStaged
<1>10. w.by = DOMAIN index.by_dcid /\ w.st = DOMAIN index.staged_by_dcid
  BY WorldIs, Zenon
<1>11. IndexBecomes(StageForFlow(index, d, Owner), w.by, w.st \cup {d}, Owner)
  BY <1>5, <1>7, <1>10, StageIndex, Zenon
<1>12. Owner' = Owner BY <1>9, Zenon DEF Owner
<1>13. /\ u.by = w.by /\ u.st = w.st \cup {d} /\ u.pending = w.pending
       /\ u.interrupted = w.interrupted /\ IndexOf(index', Owner')
  BY <1>9, <1>11, <1>12, WorldIs, NextWorldIs, Zenon DEF IndexBecomes
<1>14. w.by \subseteq Dcids /\ w.st \subseteq Dcids BY <1>1, Zenon DEF QueueInv
<1>15. Applied(v, w.by, w.st, u.by, u.st) BY <1>2, <1>4, <1>13, <1>14, StagedApplied
<1> HIDE DEF u, w, v
<1>16. Popped(e, Pop(e), v.kind, w, u) BY <1>1, <1>15, PopIs, Zenon DEF v, w
<1>17. EngineInv(Pop(e), u) BY <1>13, <1>16, PoppedKeeps, Zenon DEF w, v
<1> QED BY <1>9, <1>13, <1>17, Zenon DEF EventInv, u

LEMMA PublishedKeeps ==
  ASSUME EventInv, NEW e, EngineInv(e, World), e.events # <<>>,
         Head(e.events).kind = "DcidPublished", OnPublished(Pop(e), Head(e.events).dcids)
  PROVE  EventInv'
<1> DEFINE v == Head(e.events)
           w == World
           u == World'
<1>1. IsEngine(e, w) /\ QueueInv(e.events, w.by, w.st) BY Zenon DEF EngineInv, Mid, IsEngine
<1>2. v \in Events BY <1>1, FirstEvent, SMT DEF First
<1>3. v.kind \in Publishing /\ v.dcids \subseteq Dcids BY <1>2, Zenon DEF Publishing, Events
<1>7. IndexOf(index, Owner) BY Zenon DEF EventInv
<1>8. Acceptable(index, v.dcids, Owner) BY <1>7, AllAcceptable, Zenon
<1>9. /\ index' = PublishForFlow(index, v.dcids, Owner) /\ engine' = Pop(e)
      /\ quic_flow' = quic_flow /\ pending' = pending /\ interrupted' = interrupted
  BY <1>8, Zenon DEF OnPublished
<1>10. w.by = DOMAIN index.by_dcid /\ w.st = DOMAIN index.staged_by_dcid
  BY WorldIs, Zenon
<1>11. IndexBecomes(PublishForFlow(index, v.dcids, Owner), w.by \cup v.dcids,
                    w.st \ v.dcids, Owner)
  BY <1>3, <1>7, <1>10, PublishIndex, Zenon
<1>12. Owner' = Owner BY <1>9, Zenon DEF Owner
<1>13. /\ u.by = w.by \cup v.dcids /\ u.st = w.st \ v.dcids /\ u.pending = w.pending
       /\ u.interrupted = w.interrupted /\ IndexOf(index', Owner')
  BY <1>9, <1>11, <1>12, WorldIs, NextWorldIs, Zenon DEF IndexBecomes
<1>14. w.by \subseteq Dcids /\ w.st \subseteq Dcids BY <1>1, Zenon DEF QueueInv
<1>15. Applied(v, w.by, w.st, u.by, u.st) BY <1>2, <1>3, <1>13, <1>14, PublishedApplied
<1> HIDE DEF u, w, v
<1>16. Popped(e, Pop(e), v.kind, w, u) BY <1>1, <1>15, PopIs, Zenon DEF v, w
<1>17. EngineInv(Pop(e), u) BY <1>13, <1>16, PoppedKeeps, Zenon DEF w, v
<1> QED BY <1>9, <1>13, <1>17, Zenon DEF EventInv, u

LEMMA RetiredKeeps ==
  ASSUME EventInv, NEW e, EngineInv(e, World), e.events # <<>>,
         Head(e.events).kind = "DcidRetired", OnRetired(Pop(e), Head(e.events).dcids)
  PROVE  EventInv'
<1> DEFINE v == Head(e.events)
           w == World
           u == World'
<1>1. IsEngine(e, w) /\ QueueInv(e.events, w.by, w.st) BY Zenon DEF EngineInv, Mid, IsEngine
<1>2. v \in Events BY <1>1, FirstEvent, SMT DEF First
<1>3. v.kind \in Single BY Zenon DEF Single
<1>4. PICK d \in Dcids : v.dcids = {d} BY <1>1, <1>3, FirstEvent, SMT DEF First
<1>6. (CHOOSE x \in v.dcids : TRUE) = d BY <1>4, Zenon
<1>7. IndexOf(index, Owner) BY Zenon DEF EventInv
<1>9. /\ index' = RetireForFlow(index, d, Owner) /\ engine' = Pop(e)
      /\ quic_flow' = quic_flow /\ pending' = pending /\ interrupted' = interrupted
  BY <1>6, Zenon DEF OnRetired
<1>10. w.by = DOMAIN index.by_dcid /\ w.st = DOMAIN index.staged_by_dcid
  BY WorldIs, Zenon
<1>11. IndexBecomes(RetireForFlow(index, d, Owner), w.by \ {d}, w.st \ {d}, Owner)
  BY <1>7, <1>10, RetireIndex, Zenon
<1>12. Owner' = Owner BY <1>9, Zenon DEF Owner
<1>13. /\ u.by = w.by \ {d} /\ u.st = w.st \ {d} /\ u.pending = w.pending
       /\ u.interrupted = w.interrupted /\ IndexOf(index', Owner')
  BY <1>9, <1>11, <1>12, WorldIs, NextWorldIs, Zenon DEF IndexBecomes
<1>14. w.by \subseteq Dcids /\ w.st \subseteq Dcids BY <1>1, Zenon DEF QueueInv
<1>15. Applied(v, w.by, w.st, u.by, u.st) BY <1>2, <1>4, <1>13, <1>14, RetiredApplied
<1> HIDE DEF u, w, v
<1>16. Popped(e, Pop(e), v.kind, w, u) BY <1>1, <1>15, PopIs, Zenon DEF v, w
<1>17. EngineInv(Pop(e), u) BY <1>13, <1>16, PoppedKeeps, Zenon DEF w, v
<1> QED BY <1>9, <1>13, <1>17, Zenon DEF EventInv, u

LEMMA ReplacedKeeps ==
  ASSUME EventInv, NEW e, EngineInv(e, World), e.events # <<>>,
         Head(e.events).kind = "Replaced", OnReplaced(Pop(e), Head(e.events).dcids)
  PROVE  EventInv'
<1> DEFINE v == Head(e.events)
           w == World
           u == World'
           p == Pop(e)
<1>1. IsEngine(e, w) /\ QueueInv(e.events, w.by, w.st) BY Zenon DEF EngineInv, Mid, IsEngine
<1>2. v \in Events /\ Has(e.events, "Replaced") BY <1>1, FirstEvent, SMT DEF First
<1>3. v.kind \in Publishing /\ v.dcids \subseteq Dcids BY <1>2, Zenon DEF Publishing, Events
<1>7. IndexOf(index, Owner) BY Zenon DEF EventInv
<1>8. Acceptable(index, v.dcids, Owner) = TRUE BY <1>7, AllAcceptable, Zenon
<1> HIDE DEF v
<1>9. /\ index' = PublishForFlow(index, v.dcids, Owner) /\ quic_flow' = quic_flow
      /\ engine' = ResolveReplacement(p, TRUE) /\ pending' = 0
      /\ interrupted' = (p.promotion /\ p.candidate = None)
  BY <1>8, Zenon DEF OnReplaced, v
<1>10. w.by = DOMAIN index.by_dcid /\ w.st = DOMAIN index.staged_by_dcid
  BY WorldIs, Zenon
<1>11. IndexBecomes(PublishForFlow(index, v.dcids, Owner), w.by \cup v.dcids,
                    w.st \ v.dcids, Owner)
  BY <1>3, <1>7, <1>10, PublishIndex, Zenon
<1>12. Owner' = Owner BY <1>9, Zenon DEF Owner
<1>13. /\ u.by = w.by \cup v.dcids /\ u.st = w.st \ v.dcids /\ u.pending = 0
       /\ u.interrupted = (p.promotion /\ p.candidate = None) /\ IndexOf(index', Owner')
  BY <1>9, <1>11, <1>12, WorldIs, NextWorldIs, Zenon DEF IndexBecomes
<1>14. w.by \subseteq Dcids /\ w.st \subseteq Dcids BY <1>1, Zenon DEF QueueInv
<1>15. Applied(v, w.by, w.st, u.by, u.st) BY <1>2, <1>3, <1>13, <1>14, PublishedApplied
<1>16. Popped(e, p, "Replaced", w, u) BY <1>1, <1>15, PopIs, Zenon DEF v
<1>17. e.promotion BY <1>2, Zenon DEF EngineInv, Mid, CandidateInv
<1>18. p.promotion BY <1>16, <1>17, Zenon DEF Popped
<1> HIDE DEF u, w, p
<1>19. EngineInv(ResolveReplacement(p, TRUE), u)
  <2>1. CASE p.candidate = None
    <3>1. u.interrupted BY <1>13, <1>18, <2>1, Zenon
    <3> QED BY <1>13, <1>16, <2>1, <3>1, ReplacementLost, Zenon DEF w
  <2>2. CASE p.candidate # None BY <1>16, <2>2, ReplacementCommitted, Zenon DEF w
  <2> QED BY <2>1, <2>2, Zenon
<1>20. pending' \in Nat BY <1>9, Zenon
<1> QED BY <1>9, <1>13, <1>19, <1>20, Zenon DEF EventInv, u

LEMMA AuthenticatedKeeps ==
  ASSUME EventInv, NEW e, EngineInv(e, World), e.events # <<>>,
         Head(e.events).kind = "Authenticated",
         NEW oa \in Timers(Pop(e).connection), NEW oc \in Timers(Pop(e).candidate),
         OnAuthenticated(Pop(e), oa, oc)
  PROVE  EventInv'
<1> DEFINE v == Head(e.events)
           w == World
           u == World'
           z == [by |-> w.by, st |-> w.st, pending |-> 0, interrupted |-> w.interrupted]
           p == Pop(e)
           f == IF pending > 0 /\ IsAuthenticated(p) THEN Drive(p, oa, oc) ELSE p
<1>1. IsEngine(e, w) /\ QueueInv(e.events, w.by, w.st) BY Zenon DEF EngineInv, Mid, IsEngine
<1>2. v \in Events BY <1>1, FirstEvent, SMT DEF First
<1>3. z.by = w.by /\ z.st = w.st /\ z.pending = 0 /\ z.interrupted = w.interrupted BY Zenon
<1>4. w.by \subseteq Dcids /\ w.st \subseteq Dcids BY <1>1, Zenon DEF QueueInv
<1> HIDE DEF z
<1>5. Applied(v, w.by, w.st, z.by, z.st) BY <1>2, <1>3, <1>4, AuthenticatedApplied, Zenon
<1>6. Popped(e, p, "Authenticated", w, z) BY <1>1, <1>5, PopIs, Zenon DEF v, w
<1> HIDE DEF p, w
<1>7. EngineInv(p, z) BY <1>3, <1>6, PoppedKeeps, Zenon DEF w
<1>8. Fit(p, z, oa, oc) BY TimersFit, Zenon DEF p
<1>9. EngineInv(f, z)
  <2>1. EngineInv(Drive(p, oa, oc), z) BY <1>7, <1>8, DriveKeeps, Zenon
  <2> QED BY <1>7, <2>1, Zenon
<1>10. /\ engine' = f /\ index' = index /\ quic_flow' = quic_flow /\ interrupted' = interrupted
       /\ pending' \in IF ~IsAuthenticated(p) THEN {pending}
                       ELSE IF IsAuthenticated(f) THEN {0} ELSE 0..(pending - 1)
  BY Zenon DEF OnAuthenticated, p
<1>11. ~IsAuthenticated(p) => f = p BY Zenon
<1> HIDE DEF f
<1>12. IsAuthenticated(f) => pending' = 0 BY <1>10, <1>11, Zenon
<1>13. pending \in Nat /\ IndexOf(index, Owner) BY Zenon DEF EventInv
<1>14. pending' \in Nat BY <1>10, <1>13
<1>15. u.by = z.by /\ u.st = z.st /\ u.pending = pending' /\ u.interrupted = z.interrupted
  BY <1>3, <1>10, WorldIs, NextWorldIs, Zenon DEF w
<1> HIDE DEF u
<1>16. EngineInv(f, u) BY <1>9, <1>12, <1>15, OtherPending, Zenon
<1>17. Owner' = Owner BY <1>10, Zenon DEF Owner
<1> QED BY <1>10, <1>13, <1>14, <1>16, <1>17, Zenon DEF EventInv, u

LEMMA ClosedKeeps ==
  ASSUME EventInv, NEW e, EngineInv(e, World), e.events # <<>>,
         Head(e.events).kind = "Closed", OnClosed(Pop(e))
  PROVE  EventInv'
<1> DEFINE v == Head(e.events)
           w == World
           u == World'
           p == Pop(e)
<1>1. IsEngine(e, w) /\ QueueInv(e.events, w.by, w.st) BY Zenon DEF EngineInv, Mid, IsEngine
<1>2. v \in Events BY <1>1, FirstEvent, SMT DEF First
<1>3. IndexOf(index, Owner) BY Zenon DEF EventInv
<1>4. /\ pending' = 0 /\ interrupted' = FALSE /\ index' = CloseFlow(index, Owner.quic_flow_id)
      /\ engine' = p \/ \E d \in Fresh(p) : engine' = NewClientEngine(d)
  BY WorldIs, Zenon DEF OnClosed
<1>5. IndexBecomes(CloseFlow(index, Owner.quic_flow_id), {}, {}, Owner')
  BY <1>3, CloseIndex, Zenon
<1>6. u.by = {} /\ u.st = {} /\ u.pending = 0 /\ IndexOf(index', Owner')
  BY <1>4, <1>5, NextWorldIs, Zenon DEF IndexBecomes
<1>7. w.by \subseteq Dcids /\ w.st \subseteq Dcids BY <1>1, Zenon DEF QueueInv
<1> HIDE DEF u
<1>8. Applied(v, w.by, w.st, u.by, u.st) BY <1>2, <1>6, <1>7, ClosedApplied, Zenon
<1>9. Popped(e, p, "Closed", w, u) BY <1>1, <1>8, PopIs, Zenon DEF v, w
<1> HIDE DEF p, w
<1>10. EngineInv(p, u) BY <1>6, <1>9, PoppedKeeps, Zenon DEF w
<1>11. ASSUME NEW d \in Fresh(p) PROVE EngineInv(NewClientEngine(d), u)
  <2>1. d \in Dcids BY Zenon DEF Fresh
  <2> QED BY <1>6, <2>1, NewClient, Zenon
<1>12. EngineInv(engine', u) BY <1>4, <1>10, <1>11, Zenon
<1>13. pending' \in Nat BY <1>4, Zenon
<1> QED BY <1>6, <1>12, <1>13, Zenon DEF EventInv, u

-----------------------------------------------------------------------------
(* The steps of flow_loop. *)

LEMMA LaneStarts ==
  ASSUME LaneInit
  PROVE  LaneInv
<1>1. IndexBecomes(index, {}, {}, Owner) BY EmptyIndex, Zenon DEF LaneInit
<1>2. World.by = {} /\ World.st = {} /\ IndexOf(index, Owner)
  BY <1>1, WorldIs, Zenon DEF IndexBecomes
<1>3. EngineInv(engine, World)
  <2>1. CASE \E d \in Dcids : engine = NewClientEngine(d) BY <1>2, <2>1, NewClient, Zenon
  <2>2. CASE engine = NewServerEngine BY <1>2, <2>2, NewServer, Zenon
  <2> QED BY <2>1, <2>2, Zenon DEF LaneInit
<1>4. PhaseInv
  <2>1. phase = "top" BY Zenon DEF LaneInit
  <2>2. ~engine.promotion /\ ~Has(engine.events, "Closed")
    <3>1. ASSUME NEW d \in Dcids, engine = NewClientEngine(d)
          PROVE  ~engine.promotion /\ ~Has(engine.events, "Closed")
      <4>1. ~engine.promotion /\ engine.events = <<[kind |-> "DcidStaged", dcids |-> {d}]>>
        BY <3>1, Zenon DEF NewClientEngine
      <4>2. Len(engine.events) = 1 /\ engine.events[1].kind = "DcidStaged" BY <4>1
      <4> QED BY <4>1, <4>2 DEF Has
    <3>2. CASE engine = NewServerEngine
      <4>1. ~engine.promotion /\ engine.events = <<>> BY <3>2, Zenon DEF NewServerEngine
      <4> QED BY <4>1 DEF Has
    <3> QED BY <3>1, <3>2, Zenon DEF LaneInit
  <2> QED BY <2>1, <2>2, Zenon DEF PhaseInv
<1>5. pending \in Nat BY DEF LaneInit
<1> QED BY <1>2, <1>3, <1>4, <1>5, Zenon DEF LaneInv

LEMMA SameWorld ==
  ASSUME index' = index, pending' = pending, interrupted' = interrupted
  PROVE  World' = World
BY Zenon DEF World

LEMMA SameOwner ==
  ASSUME quic_flow' = quic_flow
  PROVE  Owner' = Owner
BY Zenon DEF Owner

LEMMA LaneParts ==
  ASSUME LaneInv
  PROVE  /\ EngineInv(engine, World) /\ PhaseInv /\ IndexOf(index, Owner) /\ pending \in Nat
         /\ EventInv
         /\ IsEngine(engine, World) /\ (engine.promotion <=> Has(engine.events, "Replaced"))
         /\ engine.events \in Seq(Events)
BY Zenon DEF LaneInv, EventInv, EngineInv, Mid, CandidateInv, IsEngine, QueueInv

LEMMA ReconnectKeeps ==
  ASSUME LaneInv, Reconnect
  PROVE  LaneInv'
<1> DEFINE c == CloseBoth(engine)
<1>1. /\ engine' = c /\ pending' = 0 /\ phase = "top" /\ phase' = "handle"
      /\ index' = index /\ quic_flow' = quic_flow /\ interrupted' = interrupted
  BY Zenon DEF Reconnect, Close
<1>2. EngineInv(c, World) /\ c.connection = None /\ c.candidate = None
      /\ c.promotion = engine.promotion
  BY LaneParts, BothClosed, Zenon
<1>3. ~IsAuthenticated(c) BY <1>2, Zenon DEF IsAuthenticated
<1>4. World'.by = World.by /\ World'.st = World.st /\ World'.interrupted = World.interrupted
  BY <1>1, WorldIs, NextWorldIs, Zenon
<1> HIDE DEF c
<1>5. EngineInv(c, World') BY <1>2, <1>3, <1>4, OtherPending, Zenon
<1>6. ~engine.promotion BY <1>1, LaneParts, Zenon DEF PhaseInv
<1>7. PhaseInv' BY <1>1, <1>2, <1>6, Zenon DEF PhaseInv
<1>8. pending' \in Nat BY <1>1, Zenon
<1> QED BY <1>1, <1>5, <1>7, <1>8, LaneParts, SameOwner, Zenon DEF LaneInv

LEMMA LeaveKeeps ==
  ASSUME LaneInv, Leave
  PROVE  LaneInv'
<1>1. /\ engine' = CloseBoth(engine) /\ phase' = "last" /\ index' = index
      /\ quic_flow' = quic_flow /\ pending' = pending /\ interrupted' = interrupted
  BY Zenon DEF Leave, Close
<1>2. EngineInv(CloseBoth(engine), World) BY LaneParts, BothClosed, Zenon
<1>3. World' = World BY <1>1, SameWorld, Zenon
<1>4. PhaseInv' BY <1>1, Zenon DEF PhaseInv
<1> QED BY <1>1, <1>2, <1>3, <1>4, LaneParts, SameOwner, Zenon DEF LaneInv

(* A message is handled: the engine may be driven, and then comes the      *)
(* draining of its events.                                                 *)
LEMMA HandledKeeps ==
  ASSUME LaneInv, EngineInv(engine', World), phase' = "drain", index' = index,
         quic_flow' = quic_flow, pending' = pending, interrupted' = interrupted
  PROVE  LaneInv'
<1>1. World' = World BY SameWorld, Zenon
<1>2. PhaseInv' BY Zenon DEF PhaseInv
<1> QED BY <1>1, <1>2, LaneParts, SameOwner, Zenon DEF LaneInv

LEMMA OuterPacketKeeps ==
  ASSUME LaneInv, OuterPacket
  PROVE  LaneInv'
<1>1. /\ Receiving /\ phase' = "drain" /\ index' = index /\ quic_flow' = quic_flow
      /\ pending' = pending /\ interrupted' = interrupted
  BY Zenon DEF OuterPacket
<1>2. EngineInv(engine', World)
  <2>1. ASSUME NEW oa \in Packets(engine, engine.connection), NEW oc \in Timers(engine.candidate),
               engine' = Drive(engine, oa, oc)
        PROVE  EngineInv(engine', World)
    BY <2>1, LaneParts, ConnectionPacketFit, DriveKeeps, Zenon
  <2>2. ASSUME NEW oa \in Timers(engine.connection), NEW oc \in Packets(engine, engine.candidate),
               engine' = Drive(engine, oa, oc)
        PROVE  EngineInv(engine', World)
    BY <1>1, <2>2, LaneParts, CandidatePacketFit, DriveKeeps, Zenon
  <2> QED BY <2>1, <2>2, Zenon DEF OuterPacket
<1> QED BY <1>1, <1>2, HandledKeeps, Zenon

LEMMA OuterInitialKeeps ==
  ASSUME LaneInv, OuterInitial
  PROVE  LaneInv'
<1>1. /\ Receiving /\ phase' = "drain" /\ index' = index /\ quic_flow' = quic_flow
      /\ pending' = pending /\ interrupted' = interrupted /\ engine.role = "server"
  BY Zenon DEF OuterInitial
<1>2. ~engine.promotion BY <1>1, LaneParts, Zenon DEF PhaseInv, Receiving
<1>3. PICK initial \in Fresh(engine) : \E generated \in Fresh(engine) \ {initial} :
        \E oa \in Timers(Accept(engine, initial, generated).connection),
           oc \in Timers(Accept(engine, initial, generated).candidate) :
          engine' = Drive(Accept(engine, initial, generated), oa, oc)
  BY Zenon DEF OuterInitial
<1>4. PICK generated \in Fresh(engine) \ {initial} :
        \E oa \in Timers(Accept(engine, initial, generated).connection),
           oc \in Timers(Accept(engine, initial, generated).candidate) :
          engine' = Drive(Accept(engine, initial, generated), oa, oc)
  BY <1>3, Zenon
<1> DEFINE e == Accept(engine, initial, generated)
<1>5. New(engine, World, initial) /\ New(engine, World, generated) /\ generated # initial
  BY LaneParts, FreshIsNew, Zenon
<1>6. EngineInv(e, World) BY <1>1, <1>2, <1>5, LaneParts, AcceptKeeps, Zenon
<1>7. PICK oa \in Timers(e.connection), oc \in Timers(e.candidate) : engine' = Drive(e, oa, oc)
  BY <1>4, Zenon
<1> HIDE DEF e
<1>8. EngineInv(engine', World) BY <1>6, <1>7, TimersFit, DriveKeeps, Zenon
<1> QED BY <1>1, <1>8, HandledKeeps, Zenon

LEMMA SendInnerKeeps ==
  ASSUME LaneInv, SendInner
  PROVE  LaneInv'
<1>1. /\ phase' = "drain" /\ index' = index /\ quic_flow' = quic_flow
      /\ interrupted' = interrupted
  BY Zenon DEF SendInner
<1>2. CASE IsAuthenticated(engine)
  <2>1. pending' = pending BY <1>2, Zenon DEF SendInner
  <2>2. PICK oa \in Timers(engine.connection), oc \in Timers(engine.candidate) :
          engine' = Drive(engine, oa, oc)
    BY <1>2, Zenon DEF SendInner
  <2>3. EngineInv(engine', World) BY <2>2, LaneParts, TimersFit, DriveKeeps, Zenon
  <2> QED BY <1>1, <2>1, <2>3, HandledKeeps, Zenon
<1>3. CASE ~IsAuthenticated(engine)
  <2>1. engine' = engine /\ (pending' = pending + 1 \/ pending' = pending)
    BY <1>3, Zenon DEF SendInner
  <2>2. World'.by = World.by /\ World'.st = World.st /\ World'.interrupted = World.interrupted
    BY <1>1, WorldIs, NextWorldIs, Zenon
  <2>3. EngineInv(engine, World') BY <1>3, <2>2, LaneParts, OtherPending, Zenon
  <2>4. PhaseInv' BY <1>1, Zenon DEF PhaseInv
  <2>5. pending \in Nat BY LaneParts, Zenon
  <2>6. pending' \in Nat BY <2>1, <2>5
  <2> QED BY <1>1, <2>1, <2>3, <2>4, <2>6, LaneParts, SameOwner, Zenon DEF LaneInv
<1> QED BY <1>2, <1>3, Zenon

LEMMA NoMessageKeeps ==
  ASSUME LaneInv, NoMessage
  PROVE  LaneInv'
<1>1. /\ engine' = engine /\ phase' = "drain" /\ index' = index /\ quic_flow' = quic_flow
      /\ pending' = pending /\ interrupted' = interrupted
  BY Zenon DEF NoMessage
<1> QED BY <1>1, LaneParts, HandledKeeps, Zenon

LEMMA PollKeeps ==
  ASSUME LaneInv, PollStep
  PROVE  LaneInv'
<1>1. PICK oa \in Timers(engine.connection), oc \in Timers(engine.candidate) : Poll(oa, oc)
  BY Zenon DEF PollStep
<1> DEFINE e == Drive(engine, oa, oc)
           v == Head(e.events)
<1>2. EngineInv(e, World) BY LaneParts, TimersFit, DriveKeeps, Zenon
<1>3. Draining /\ phase' = phase /\ e.events # <<>> /\ OnEvent(Pop(e), v)
  BY <1>1, Zenon DEF Poll, Pop
<1> HIDE DEF e
<1>4. EventInv BY LaneParts, Zenon
<1>5. EventInv'
  <2>1. CASE v.kind = "DcidStaged" /\ OnStaged(Pop(e), v.dcids)
    BY <1>2, <1>3, <1>4, <2>1, StagedKeeps, Zenon
  <2>2. CASE v.kind = "DcidPublished" /\ OnPublished(Pop(e), v.dcids)
    BY <1>2, <1>3, <1>4, <2>2, PublishedKeeps, Zenon
  <2>3. CASE v.kind = "DcidRetired" /\ OnRetired(Pop(e), v.dcids)
    BY <1>2, <1>3, <1>4, <2>3, RetiredKeeps, Zenon
  <2>4. CASE v.kind = "Replaced" /\ OnReplaced(Pop(e), v.dcids)
    BY <1>2, <1>3, <1>4, <2>4, ReplacedKeeps, Zenon
  <2>5. CASE v.kind = "Closed" /\ OnClosed(Pop(e))
    BY <1>2, <1>3, <1>4, <2>5, ClosedKeeps, Zenon
  <2>6. CASE /\ v.kind = "Authenticated"
             /\ \E x \in Timers(Pop(e).connection), y \in Timers(Pop(e).candidate) :
                  OnAuthenticated(Pop(e), x, y)
    BY <1>2, <1>3, <1>4, <2>6, AuthenticatedKeeps, Zenon
  <2> QED BY <1>3, <2>1, <2>2, <2>3, <2>4, <2>5, <2>6, Zenon DEF OnEvent
<1>6. PhaseInv' BY <1>3, Zenon DEF PhaseInv, Draining
<1> QED BY <1>5, <1>6, Zenon DEF LaneInv, EventInv

LEMMA DrainedKeeps ==
  ASSUME LaneInv, Drained
  PROVE  LaneInv'
<1>1. PICK oa \in Timers(engine.connection), oc \in Timers(engine.candidate) :
        Drive(engine, oa, oc).events = <<>> /\ engine' = Drive(engine, oa, oc)
  BY Zenon DEF Drained
<1>2. /\ index' = index /\ quic_flow' = quic_flow /\ pending' = pending
      /\ interrupted' = interrupted /\ phase' \in {"top", "end"}
  BY Zenon DEF Drained
<1>3. World' = World BY <1>2, SameWorld, Zenon
<1>4. EngineInv(engine', World) BY <1>1, LaneParts, TimersFit, DriveKeeps, Zenon
<1>5. engine'.events = <<>> BY <1>1, Zenon
<1>6. \A x : ~Has(engine'.events, x) BY <1>5 DEF Has
<1>7. ~engine'.promotion BY <1>4, <1>6, Zenon DEF EngineInv, Mid, CandidateInv
<1>8. PhaseInv' BY <1>2, <1>6, <1>7, Zenon DEF PhaseInv
<1> QED BY <1>2, <1>3, <1>4, <1>8, LaneParts, SameOwner, Zenon DEF LaneInv

LEMMA UnchangedKeeps ==
  ASSUME LaneInv, UNCHANGED <<engine, index, quic_flow, pending, phase, interrupted>>
  PROVE  LaneInv'
<1>1. /\ engine' = engine /\ index' = index /\ quic_flow' = quic_flow /\ pending' = pending
      /\ phase' = phase /\ interrupted' = interrupted
  OBVIOUS
<1>2. PhaseInv' BY <1>1, LaneParts, Zenon DEF PhaseInv
<1> QED BY <1>1, <1>2, LaneParts, SameWorld, SameOwner, Zenon DEF LaneInv

(* The inductive invariant of a QUIC lane: what the queue of events will   *)
(* make of the index is what the engine believes it to be (Routes), for    *)
(* every set of connection IDs, in whatever order flow_loop receives,      *)
(* reconnects and drains.                                                  *)
THEOREM LaneInvariant == LaneSpec => []LaneInv
<1>1. LaneInit => LaneInv BY LaneStarts, Zenon
<1>2. LaneInv /\ [LaneNext]_lane_vars => LaneInv'
  <2> SUFFICES ASSUME LaneInv, [LaneNext]_lane_vars PROVE LaneInv' BY Zenon
  <2>1. CASE Reconnect BY <2>1, ReconnectKeeps, Zenon
  <2>2. CASE OuterPacket BY <2>2, OuterPacketKeeps, Zenon
  <2>3. CASE OuterInitial BY <2>3, OuterInitialKeeps, Zenon
  <2>4. CASE SendInner BY <2>4, SendInnerKeeps, Zenon
  <2>5. CASE NoMessage BY <2>5, NoMessageKeeps, Zenon
  <2>6. CASE Leave BY <2>6, LeaveKeeps, Zenon
  <2>7. CASE PollStep BY <2>7, PollKeeps, Zenon
  <2>8. CASE Drained BY <2>8, DrainedKeeps, Zenon
  <2>9. CASE RequestExit BY <2>9, UnchangedKeeps, Zenon DEF RequestExit
  <2>10. CASE UNCHANGED lane_vars BY <2>10, UnchangedKeeps, Zenon DEF lane_vars
  <2> QED
    BY <2>1, <2>2, <2>3, <2>4, <2>5, <2>6, <2>7, <2>8, <2>9, <2>10, Zenon
    DEF LaneNext, LaneStep, Handle, LaneEnds
<1> QED BY <1>1, <1>2, PTL DEF LaneSpec

(* When no event is left, the index is what the engine believes. *)
LEMMA NothingLeft ==
  ASSUME LaneInv, engine.events = <<>>
  PROVE  /\ DOMAIN index.by_dcid = engine.published /\ ~engine.promotion
         /\ DOMAIN index.staged_by_dcid \subseteq
              Unannounced(engine.connection, FALSE) \cup Unannounced(engine.candidate, FALSE)
         /\ Generated(engine.connection) \cup Generated(engine.candidate)
              \subseteq DOMAIN index.staged_by_dcid
         /\ ~Has(engine.events, "Authenticated")
<1>1. \A x : ~Has(engine.events, x) BY DEF Has
<1>2. World.by \subseteq Dcids /\ World.st \subseteq Dcids
  BY LaneParts, Zenon DEF IsEngine, QueueInv
<1>3. ActiveAfter(engine.events, World.by) = World.by
  BY <1>2 DEF ActiveAfter, EndsFrom
<1>4. StagedAfter(engine.events, World.st) = World.st
  BY <1>2 DEF StagedAfter, LeavesFrom
<1>5. ~engine.promotion BY <1>1, LaneParts, Zenon
<1>6. Promised(engine) = {} BY <1>5, Zenon DEF Promised
<1>7. Routes(engine, World, FALSE, FALSE) BY LaneParts, Zenon DEF EngineInv, Mid
<1> QED BY <1>1, <1>3, <1>4, <1>5, <1>6, <1>7, WorldIs, Zenon DEF Routes

(* The lane's entries in the index are of its current flow, and the three  *)
(* maps agree: stage_for_flow and publish_batch_for_flow never refuse the  *)
(* lane an entry, so drain_engine never closes a connection over one.      *)
THEOREM IndexAlwaysOfCurrentFlow == LaneSpec => []IndexOfCurrentFlow
<1>1. ASSUME LaneInv PROVE IndexOfCurrentFlow
  <2>1. IndexOf(index, Owner) BY <1>1, LaneParts, Zenon
  <2>2. IndexConsistent(index) BY <2>1, Zenon DEF IndexOf, IndexConsistent
  <2>3. \A d \in DOMAIN index.by_dcid \cup DOMAIN index.staged_by_dcid : Resolve(index, d) = Owner
    BY <2>1, Zenon DEF IndexOf, Resolve
  <2> QED BY <2>2, <2>3, Zenon DEF IndexOfCurrentFlow
<1> QED BY <1>1, LaneInvariant, PTL

(* Once drain_engine has emptied the queue, the index holds exactly what   *)
(* the engine believes published and staged, every live connection can be  *)
(* reached through it, and no packet waits behind an authenticated         *)
(* connection.                                                             *)
THEOREM LaneAlwaysSettled == LaneSpec => []LaneSettled
<1>1. ASSUME LaneInv PROVE LaneSettled
  <2> SUFFICES ASSUME engine.events = <<>>
               PROVE  IndexMatchesEngine /\ LiveConnectionsRoutable
                      /\ (IsAuthenticated(engine) => pending = 0)
    BY Zenon DEF LaneSettled
  <2> DEFINE a == engine.connection
             c == engine.candidate
  <2>1. /\ DOMAIN index.by_dcid = engine.published /\ ~engine.promotion
        /\ DOMAIN index.staged_by_dcid \subseteq Unannounced(a, FALSE) \cup Unannounced(c, FALSE)
        /\ Generated(a) \cup Generated(c) \subseteq DOMAIN index.staged_by_dcid
        /\ ~Has(engine.events, "Authenticated")
    BY <1>1, NothingLeft, Zenon
  <2>2. /\ Routes(engine, World, FALSE, FALSE) /\ CandidateInv(engine, World, FALSE)
        /\ PendingInv(engine, World, FALSE)
    BY <1>1, LaneParts, Zenon DEF EngineInv, Mid
  <2>3. IndexMatchesEngine BY <2>1, Zenon DEF IndexMatchesEngine, Unannounced
  <2>4. LiveConnectionsRoutable
    <3>1. a # None /\ a.authenticated => a.dcids \subseteq DOMAIN index.by_dcid
      BY <2>1, <2>2, Zenon DEF Routes
    <3>2. ~(c # None /\ c.authenticated) BY <2>1, <2>2, Zenon DEF CandidateInv
    <3>3. /\ a # None /\ ~a.authenticated =>
               a.dcids \ a.initial \subseteq DOMAIN index.staged_by_dcid
          /\ c # None /\ ~c.authenticated =>
               c.dcids \ c.initial \subseteq DOMAIN index.staged_by_dcid
      BY <2>1, Zenon DEF Generated
    <3>4. SUFFICES ASSUME NEW x \in {a, c} \ {None}
                   PROVE  IF x.authenticated
                          THEN x.dcids \subseteq DOMAIN index.by_dcid
                          ELSE x.dcids \ x.initial \subseteq DOMAIN index.staged_by_dcid
      BY Zenon DEF LiveConnectionsRoutable
    <3> HIDE DEF a, c
    <3>5. CASE x = a BY <3>1, <3>3, <3>5, Zenon
    <3>6. CASE x = c BY <3>2, <3>3, <3>6, Zenon
    <3> QED BY <3>5, <3>6, Zenon
  <2>5. IsAuthenticated(engine) => pending = 0
    BY <2>1, <2>2, WorldIs, Zenon DEF PendingInv
  <2> QED BY <2>3, <2>4, <2>5, Zenon
<1> QED BY <1>1, LaneInvariant, PTL

(* A candidate that has not authenticated is neither the active connection *)
(* of a server nor reachable by an active connection ID.                   *)
THEOREM CandidateAlwaysHarmless == LaneSpec => []CandidateHarmless
<1>1. ASSUME LaneInv PROVE CandidateHarmless
  <2>1. CandidateInv(engine, World, FALSE) BY <1>1, LaneParts, Zenon DEF EngineInv, Mid
  <2> QED BY <2>1, WorldIs, Zenon DEF CandidateInv, CandidateHarmless
<1> QED BY <1>1, LaneInvariant, PTL

(* With the queue empty, no dead transport is the active connection, and   *)
(* active entries lead to connections that exist, except after a promotion *)
(* that lost its candidate.                                                *)
THEOREM NothingDeadStaysActive == LaneSpec => []NothingDeadIsActive
<1>1. ASSUME LaneInv PROVE NothingDeadIsActive
  <2> SUFFICES ASSUME engine.events = <<>>, ~interrupted
               PROVE  /\ engine.connection # None => ~engine.connection.dead
                      /\ DOMAIN index.by_dcid \subseteq
                           DcidsOf(engine.connection) \cup DcidsOf(engine.candidate)
    BY Zenon DEF NothingDeadIsActive
  <2>1. DOMAIN index.by_dcid = engine.published /\ ~engine.promotion
    BY <1>1, NothingLeft, Zenon
  <2>2. AliveInv(engine, World, FALSE, FALSE) BY <1>1, LaneParts, Zenon DEF EngineInv, Mid
  <2> QED BY <2>1, <2>2, WorldIs, Zenon DEF AliveInv
<1> QED BY <1>1, LaneInvariant, PTL
=============================================================================
