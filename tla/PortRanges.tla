----------------------------- MODULE PortRanges -----------------------------
(***************************************************************************)
(* The division of the configured SNAT ports among the Flow workers        *)
(* (worker_port_range, src/src/xdp_datapath/runtime.rs).  A range is the   *)
(* record of its two ends, both included.                                  *)
(***************************************************************************)
EXTENDS Integers

PortsIn(r) == r.start..r.end
Length(r) == r.end - r.start + 1
Least(a, b) == IF a <= b THEN a ELSE b

(* PortRange::new, and the check of NAT.PortStart and NAT.PortEnd. *)
Valid(r) == r.start # 0 /\ r.start <= r.end

(* worker_port_range answers None otherwise. *)
HasPortRange(r, worker_id, worker_count) ==
  worker_id < worker_count /\ r.start <= r.end /\ Length(r) >= worker_count

(* worker_port_range: equal shares, the remainder to the first workers. *)
WorkerPortRange(r, worker_id, worker_count) ==
  LET base   == Length(r) \div worker_count
      extra  == Length(r) % worker_count
      offset == worker_id * base + Least(worker_id, extra)
      length == base + (IF worker_id < extra THEN 1 ELSE 0)
  IN  [start |-> r.start + offset, end |-> r.start + offset + length - 1]
=============================================================================
