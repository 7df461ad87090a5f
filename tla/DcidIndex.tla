----------------------------- MODULE DcidIndex -----------------------------
(***************************************************************************)
(* ActiveDcidIndex (src/src/flow_plane/quic_flow.rs): the shared index by  *)
(* which IO workers find the Flow worker of a QUIC packet.  An index is a  *)
(* record; an owner is [flow_worker_id, quic_flow_id].                     *)
(***************************************************************************)
EXTENDS Integers, Functions

NoDcids == [d \in {} |-> d]
NewIndex == [by_dcid |-> NoDcids, staged_by_dcid |-> NoDcids, by_flow |-> NoDcids]

Insert(f, k, v) == [x \in DOMAIN f \cup {k} |-> IF x = k THEN v ELSE f[x]]
Without(f, S) == Restrict(f, DOMAIN f \ S)

Known(i, dcid) == dcid \in DOMAIN i.by_dcid \cup DOMAIN i.staged_by_dcid

(* resolve: an active entry comes before a staged one. *)
Resolve(i, dcid) ==
  IF dcid \in DOMAIN i.by_dcid THEN i.by_dcid[dcid] ELSE i.staged_by_dcid[dcid]

(* stage_for_flow and publish_batch_for_flow accept a DCID that is unknown *)
(* or already the owner's; nothing is changed if one is another owner's.   *)
Acceptable(i, dcids, owner) == \A d \in dcids : Known(i, d) => Resolve(i, d) = owner

StageForFlow(i, dcid, owner) ==
  IF Known(i, dcid) THEN i
  ELSE [i EXCEPT !.staged_by_dcid = Insert(@, dcid, owner)]

FlowDcids(i, flow) == IF flow \in DOMAIN i.by_flow THEN i.by_flow[flow] ELSE {}

(* publish_batch_for_flow; publish_for_flow is the case of one DCID. *)
PublishForFlow(i, dcids, owner) ==
  [by_dcid        |-> [d \in DOMAIN i.by_dcid \cup dcids |->
                         IF d \in dcids THEN owner ELSE i.by_dcid[d]],
   staged_by_dcid |-> Without(i.staged_by_dcid, dcids),
   by_flow        |-> IF dcids = {} THEN i.by_flow
                      ELSE Insert(i.by_flow, owner.quic_flow_id,
                                  FlowDcids(i, owner.quic_flow_id) \cup dcids)]

(* retire: by_flow drops a flow with no DCIDs. *)
Retire(i, dcid) ==
  LET active == dcid \in DOMAIN i.by_dcid
      flow   == Resolve(i, dcid).quic_flow_id
      left   == FlowDcids(i, flow) \ {dcid}
  IN  [by_dcid        |-> Without(i.by_dcid, {dcid}),
       staged_by_dcid |-> IF active THEN i.staged_by_dcid
                                    ELSE Without(i.staged_by_dcid, {dcid}),
       by_flow        |-> IF left = {} THEN Without(i.by_flow, {flow})
                                       ELSE Insert(i.by_flow, flow, left)]

(* retire_for_flow: only the owner's own entry. *)
RetireForFlow(i, dcid, owner) ==
  IF Known(i, dcid) /\ Resolve(i, dcid) = owner THEN Retire(i, dcid) ELSE i

(* Variant: staged entries of the flow are forgotten. *)
CloseFlowKeepsStaged(i, flow) ==
  [i EXCEPT !.by_dcid = Without(@, FlowDcids(i, flow)), !.by_flow = Without(@, {flow})]

(* close_flow: everything the flow has, active or staged. *)
CloseFlow(i, flow) ==
  [by_dcid        |-> Without(i.by_dcid, FlowDcids(i, flow)),
   by_flow        |-> Without(i.by_flow, {flow}),
   staged_by_dcid |-> Without(i.staged_by_dcid,
                              {d \in DOMAIN i.staged_by_dcid :
                                 i.staged_by_dcid[d].quic_flow_id = flow})]

-----------------------------------------------------------------------------
(* by_flow is the inverse of by_dcid, without empty sets, and no DCID is   *)
(* both active and staged.                                                 *)
IndexConsistent(i) ==
  /\ \A d \in DOMAIN i.by_dcid :
       /\ i.by_dcid[d].quic_flow_id \in DOMAIN i.by_flow
       /\ d \in i.by_flow[i.by_dcid[d].quic_flow_id]
  /\ \A f \in DOMAIN i.by_flow :
       /\ i.by_flow[f] # {}
       /\ \A d \in i.by_flow[f] : d \in DOMAIN i.by_dcid /\ i.by_dcid[d].quic_flow_id = f
  /\ DOMAIN i.by_dcid \cap DOMAIN i.staged_by_dcid = {}
=============================================================================
