-------------------------- MODULE PortReservation --------------------------
(***************************************************************************)
(* The check at startup that the kernel keeps the SNAT ports out of its    *)
(* own ephemeral range (src/src/xdp_datapath/port_reservation.rs): the     *)
(* terms of ip_local_reserved_ports are read one by one, merged, and the   *)
(* configured range must lie in one of the merged ranges.  The text of a   *)
(* term is left out; a term is the pair of numbers it denotes.             *)
(***************************************************************************)
EXTENDS PortRanges, SequencesExt

CONSTANTS
  MaxPort,    \* u16::MAX
  MaxTerms    \* bound: terms in the file

ASSUME ReservationAssumption == MaxPort \in Nat /\ MaxTerms \in Nat

Terms == [start : 0..MaxPort, end : 0..MaxPort]

VARIABLES
  ranges,   \* parse_reserved_ranges: the ranges pushed so far
  error     \* a term was refused

ReservationInit == ranges = <<>> /\ error = FALSE

(* parse_reserved_ranges, one term. *)
Parse(term) ==
  /\ ~error /\ Len(ranges) < MaxTerms
  /\ IF Valid(term) THEN ranges' = Append(ranges, term) /\ UNCHANGED error
                    ELSE error' = TRUE /\ UNCHANGED ranges

(* Variant: ranges that only touch are not joined. *)
MergeOverlapping(merged, r) ==
  IF merged # <<>> /\ r.start <= Last(merged).end
  THEN [merged EXCEPT ![Len(merged)].end = IF @ >= r.end THEN @ ELSE r.end]
  ELSE Append(merged, r)

(* normalize_ranges: a range that overlaps or touches the last one joins it. *)
Merge(merged, r) ==
  IF merged # <<>> /\ r.start <= Last(merged).end + 1
  THEN [merged EXCEPT ![Len(merged)].end = IF @ >= r.end THEN @ ELSE r.end]
  ELSE Append(merged, r)

NormalizeRanges(rs) ==
  FoldLeft(Merge, <<>>, SortSeq(rs, LAMBDA a, b : a.start < b.start))

RangeContains(rs, required) ==
  \E k \in DOMAIN rs : rs[k].start <= required.start /\ rs[k].end >= required.end

(* ensure_nat_ports_reserved_at. *)
Accepts(required) ==
  ~error /\ Valid(required) /\ RangeContains(NormalizeRanges(ranges), required)

-----------------------------------------------------------------------------
Reserved == UNION {PortsIn(ranges[k]) : k \in DOMAIN ranges}

(* The check of ensure_nat_ports_reserved accepts a configured range       *)
(* exactly if the kernel reserves each of its ports, in whatever order,    *)
(* overlapping or touching, the terms of the file list them.               *)
AcceptsExactly ==
  ~error => \A r \in {t \in Terms : Valid(t)} : Accepts(r) <=> PortsIn(r) \subseteq Reserved

(* The shares that worker_port_range gives out of an accepted range are    *)
(* reserved, not empty and disjoint, and leave no port over.               *)
SharesReserved ==
  \A r \in Terms : Accepts(r) =>
    \A count \in 1..Length(r) :
      LET share(w) == PortsIn(WorkerPortRange(r, w, count))
          ids      == 0..(count - 1)
      IN  /\ \A w \in ids : HasPortRange(r, w, count) /\ share(w) # {}
          /\ \A v, w \in ids : v # w => share(v) \cap share(w) = {}
          /\ UNION {share(w) : w \in ids} = PortsIn(r)
          /\ PortsIn(r) \subseteq Reserved
=============================================================================
