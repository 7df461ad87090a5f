------------------------------ MODULE BpfLink ------------------------------
(***************************************************************************)
(* BpfLinkManager (src/src/xdp_datapath/loader.rs) for one interface: the  *)
(* lock, the owner record, the pins and the attached XDP program, over     *)
(* processes that start, stop, fail and crash, next to an administrator    *)
(* who attaches and detaches programs of their own.                        *)
(*                                                                         *)
(* What is on disk and in the kernel outlives a process; the lock does     *)
(* not.  Each bpftool command and each file operation is a step.  An id is *)
(* drawn from those not in use, as the kernel never gives one twice.       *)
(***************************************************************************)
EXTENDS Naturals, FiniteSets

CONSTANTS
  Pids, Ids, Modes,
  Nothing,
  Faults,       \* whether commands and file operations may fail: the cases to check
  Admin,        \* the administrator acts
  MaxCrashes    \* bound

(* Programs on the interface, with their history, and owner records. *)
Programs == [id : Ids, mode : Modes, by : {"new_proxy", "admin", "killed"}]
Records == [program_id : Ids, mode : Modes]

ASSUME BpfLinkAssumption ==
  /\ Faults \subseteq BOOLEAN /\ Admin \in BOOLEAN /\ MaxCrashes \in Nat
  /\ Nothing \notin Pids \cup Ids \cup Programs \cup Records

VARIABLES
  attached,   \* program on the interface: [id, mode, by] or Nothing; by is history:
              \* "new_proxy", "admin", or "killed" if its process was killed before it was recorded
  record,     \* owner record: [program_id, mode] or Nothing
  temps,      \* processes whose temporary record file exists
  pins,       \* program pinned in pin_dir, or Nothing
  lock,       \* holder of the flock, or Nothing
  proc,       \* per process: [pc, mode, program, owned], and history:
              \* started (attach has returned), robbed (of its program by the administrator)
  mayfail,    \* whether commands and file operations may fail
  crashes,
  raced,      \* history: the administrator acted between a check and its detach
  foreign     \* history: a program of the administrator was detached

disk == <<record, temps, pins>>
history == <<mayfail, crashes, raced, foreign>>
link_vars == <<attached, disk, lock, proc, history>>

Off == [pc |-> "off", mode |-> Nothing, program |-> Nothing, owned |-> FALSE,
        started |-> FALSE, robbed |-> FALSE]

LinkInit ==
  /\ attached = Nothing /\ record = Nothing /\ temps = {} /\ pins = Nothing
  /\ lock = Nothing /\ proc = [p \in Pids |-> Off]
  /\ mayfail \in Faults /\ crashes = 0 /\ raced = FALSE /\ foreign = FALSE

AttachedId == IF attached = Nothing THEN Nothing ELSE attached.id
InUse == {AttachedId, pins} \cup {proc[p].program : p \in Pids}
         \cup (IF record = Nothing THEN {} ELSE {record.program_id})
Fresh == Ids \ InUse

At(p, pc) == proc[p].pc = pc
Goto(p, pc) == proc' = [proc EXCEPT ![p].pc = pc]
Exit(p) == proc' = [proc EXCEPT ![p] = Off] /\ lock' = Nothing

(* attach returns an error, and the manager is dropped. *)
Fail(p) == Goto(p, "drop")

-----------------------------------------------------------------------------
(* attach. *)

(* claim_interface_lock. *)
Claim(p, mode) ==
  /\ At(p, "off") /\ lock = Nothing
  /\ lock' = p /\ proc' = [proc EXCEPT ![p] = [Off EXCEPT !.pc = "stale", !.mode = mode]]
  /\ UNCHANGED <<attached, disk, history>>

(* detach_owned_stale_attachment, up to the comparison of the record with  *)
(* the attached program.                                                   *)
ReadOwner(p) ==
  /\ At(p, "stale")
  /\ \/ mayfail /\ Fail(p) /\ UNCHANGED record
     \/ record = Nothing /\ Goto(p, "inspect") /\ UNCHANGED record
     \/ /\ record # Nothing /\ AttachedId \notin {Nothing, record.program_id}
        /\ record' = Nothing /\ Fail(p)
     \/ /\ record # Nothing /\ AttachedId = record.program_id
        /\ Goto(p, "detach_stale") /\ UNCHANGED record
     \/ record # Nothing /\ attached = Nothing /\ Goto(p, "forget") /\ UNCHANGED record
  /\ UNCHANGED <<attached, temps, pins, lock, history>>

(* bpftool net detach: whatever is attached in this mode goes. *)
Detaches(mode) ==
  LET hit == attached # Nothing /\ attached.mode = mode
  IN  /\ attached' = IF hit THEN Nothing ELSE attached
      /\ foreign' = (foreign \/ (hit /\ attached.by = "admin"))

(* Variant: the mode of this process, not of the one that attached. *)
DetachStaleOwnMode(p) ==
  /\ At(p, "detach_stale")
  /\ Detaches(proc[p].mode) /\ Goto(p, "forget")
  /\ UNCHANGED <<disk, lock, mayfail, crashes, raced>>

(* Variant: the program is expected to go with the process that attached it. *)
DetachStaleWaits(p) ==
  /\ At(p, "detach_stale") /\ attached = Nothing /\ Goto(p, "forget")
  /\ UNCHANGED <<attached, foreign>>
  /\ UNCHANGED <<disk, lock, mayfail, crashes, raced>>

(* The recorded program is detached, in the mode it was attached in. *)
DetachStale(p) ==
  /\ At(p, "detach_stale")
  /\ \/ mayfail /\ Fail(p) /\ UNCHANGED <<attached, foreign>>
     \/ Detaches(record.mode) /\ Goto(p, "forget")
  /\ UNCHANGED <<disk, lock, mayfail, crashes, raced>>

Forget(p) ==
  /\ At(p, "forget")
  /\ \/ mayfail /\ Fail(p) /\ UNCHANGED record
     \/ record' = Nothing /\ Goto(p, "inspect")
  /\ UNCHANGED <<attached, temps, pins, lock, history>>

(* A program that is attached now is not ours. *)
Inspect(p) ==
  /\ At(p, "inspect")
  /\ \/ (mayfail \/ attached # Nothing) /\ Fail(p)
     \/ attached = Nothing /\ Goto(p, "load")
  /\ UNCHANGED <<attached, disk, lock, history>>

(* Old pins are removed, the program is loaded and pinned anew; the pins   *)
(* of a load that fails are removed by the drop.                           *)
Load(p) ==
  /\ At(p, "load")
  /\ \/ mayfail /\ Fail(p) /\ UNCHANGED pins
     \/ \E id \in Fresh :
          /\ pins' = id
          /\ proc' = [proc EXCEPT ![p].program = id, ![p].pc = "recheck"]
  /\ UNCHANGED <<attached, record, temps, lock, history>>

(* A query that fails is taken for an interface without a program. *)
Recheck(p) ==
  /\ At(p, "recheck")
  /\ \/ attached # Nothing /\ pins' = Nothing /\ Fail(p)
     \/ (mayfail \/ attached = Nothing) /\ Goto(p, "attach") /\ UNCHANGED pins
  /\ UNCHANGED <<attached, record, temps, lock, history>>

(* bpftool net attach fails where a program is attached. *)
Attach(p) ==
  /\ At(p, "attach")
  /\ \/ /\ attached = Nothing
        /\ attached' = [id |-> proc[p].program, mode |-> proc[p].mode, by |-> "new_proxy"]
        /\ proc' = [proc EXCEPT ![p].owned = TRUE, ![p].pc = "verify"]
        /\ UNCHANGED pins
     \/ /\ mayfail \/ attached # Nothing
        /\ pins' = Nothing /\ Fail(p) /\ UNCHANGED attached
  /\ UNCHANGED <<record, temps, lock, history>>

Verify(p) ==
  /\ At(p, "verify")
  /\ \/ (mayfail \/ AttachedId # proc[p].program) /\ Fail(p)
     \/ AttachedId = proc[p].program /\ Goto(p, "record")
  /\ UNCHANGED <<attached, disk, lock, history>>

(* write_owner_record: a new temporary file, named for the process, which  *)
(* must not exist yet, is renamed to the record.                           *)
WriteTemp(p) ==
  /\ At(p, "record")
  /\ \/ (mayfail \/ p \in temps) /\ Fail(p) /\ UNCHANGED temps
     \/ p \notin temps /\ temps' = temps \cup {p} /\ Goto(p, "rename")
  /\ UNCHANGED <<attached, record, pins, lock, history>>

(* Variant: the lock is held only during the start. *)
RenameUnlocks(p) ==
  /\ At(p, "rename")
  /\ temps' = temps \ {p} /\ lock' = Nothing
  /\ record' = [program_id |-> proc[p].program, mode |-> proc[p].mode]
  /\ proc' = [proc EXCEPT ![p].pc = "up", ![p].started = TRUE]
  /\ UNCHANGED <<attached, pins, history>>

Rename(p) ==
  /\ At(p, "rename")
  /\ temps' = temps \ {p}
  /\ \/ mayfail /\ Fail(p) /\ UNCHANGED record
     \/ /\ record' = [program_id |-> proc[p].program, mode |-> proc[p].mode]
        /\ proc' = [proc EXCEPT ![p].pc = "up", ![p].started = TRUE]
  /\ UNCHANGED <<attached, pins, lock, history>>

-----------------------------------------------------------------------------
(* The process ends, and drop runs. *)

StopLink(p) == At(p, "up") /\ Goto(p, "drop") /\ UNCHANGED <<attached, disk, lock, history>>

(* Variant: the attached program is not compared with the owned one. *)
DropUnchecked(p) ==
  /\ At(p, "drop")
  /\ Goto(p, IF proc[p].owned THEN "detach" ELSE "clean") /\ UNCHANGED lock
  /\ UNCHANGED <<attached, disk, history>>

(* drop, up to the comparison; where that is impossible, everything stays. *)
Drop(p) ==
  /\ At(p, "drop")
  /\ \/ /\ Goto(p, IF proc[p].owned /\ AttachedId = proc[p].program THEN "detach" ELSE "clean")
        /\ UNCHANGED lock
     \/ mayfail /\ proc[p].owned /\ Exit(p)
  /\ UNCHANGED <<attached, disk, history>>

Detach(p) ==
  /\ At(p, "detach")
  /\ \/ Detaches(proc[p].mode) /\ Goto(p, "confirm") /\ UNCHANGED lock
     \/ mayfail /\ Exit(p) /\ UNCHANGED <<attached, foreign>>
  /\ UNCHANGED <<disk, mayfail, crashes, raced>>

Confirm(p) ==
  /\ At(p, "confirm")
  /\ \/ AttachedId # proc[p].program /\ Goto(p, "clean") /\ UNCHANGED lock
     \/ (mayfail \/ AttachedId = proc[p].program) /\ Exit(p)
  /\ UNCHANGED <<attached, disk, history>>

(* Record and pins go, as far as they can be removed. *)
Clean(p) ==
  /\ At(p, "clean") /\ Exit(p)
  /\ record' \in {Nothing} \cup IF mayfail THEN {record} ELSE {}
  /\ pins' \in {Nothing} \cup IF mayfail THEN {pins} ELSE {}
  /\ UNCHANGED <<attached, temps, history>>

(* A process is killed: files, pins and program stay, the lock goes. *)
Crash(p) ==
  /\ ~At(p, "off") /\ crashes < MaxCrashes /\ crashes' = crashes + 1
  /\ Exit(p)
  /\ attached' = IF proc[p].owned /\ AttachedId = proc[p].program
                    /\ ~proc[p].started
                 THEN [attached EXCEPT !.by = "killed"] ELSE attached
  /\ UNCHANGED <<disk, mayfail, raced, foreign>>

(* The administrator attaches, replaces or removes a program. *)
Administer ==
  /\ Admin
  /\ attached' \in {Nothing} \cup [id : Fresh, mode : Modes, by : {"admin"}]
  /\ attached' # attached
  /\ proc' = [p \in Pids |->
                [proc[p] EXCEPT !.robbed = @ \/ (proc[p].owned /\ AttachedId = proc[p].program)]]
  /\ raced' = (raced \/ \E p \in Pids : proc[p].pc \in {"detach_stale", "detach"})
  /\ UNCHANGED <<disk, lock, mayfail, crashes, foreign>>

Start == \E p \in Pids, mode \in Modes : Claim(p, mode)
Continue(p) ==
  \/ ReadOwner(p) \/ DetachStale(p) \/ Forget(p) \/ Inspect(p) \/ Load(p) \/ Recheck(p)
  \/ Attach(p) \/ Verify(p) \/ WriteTemp(p) \/ Rename(p)
  \/ Drop(p) \/ Detach(p) \/ Confirm(p) \/ Clean(p)
LinkNext == Start \/ (\E p \in Pids : Continue(p) \/ StopLink(p) \/ Crash(p)) \/ Administer

LinkSpec == LinkInit /\ [][LinkNext]_link_vars

(* A process that started goes on, and systemd starts the next one. *)
FairLinkSpec == LinkSpec /\ WF_link_vars(Start) /\ \A p \in Pids : WF_link_vars(Continue(p))

-----------------------------------------------------------------------------
(* While a process is up, the record names its program, the pins are its   *)
(* own, and its program is on the interface unless the administrator took  *)
(* it off: no start of another process, whatever it fails at, and no drop  *)
(* of an earlier one touches them.                                         *)
RunningUndisturbed ==
  \A p \in Pids : At(p, "up") =>
    /\ record = [program_id |-> proc[p].program, mode |-> proc[p].mode]
    /\ pins = proc[p].program
    /\ AttachedId = proc[p].program \/ proc[p].robbed

(* A program of the administrator is detached only if it came between the  *)
(* comparison and the command that follows it.                             *)
ForeignOnlyRaced == foreign => raced

(* While commands and file operations succeed, and whoever is killed when: *)
(* between processes, a program of new_proxy on the interface is the       *)
(* recorded one, so that the next start can take it over; or its process   *)
(* was killed after attaching it and before its record was in place.       *)
LeftoverRecorded ==
  ~mayfail /\ attached # Nothing /\ attached.by = "new_proxy" /\ lock = Nothing =>
    record = [program_id |-> attached.id, mode |-> attached.mode]

(* While commands succeed, a program left behind with its record goes, as  *)
(* processes are started again, in whatever mode.                          *)
Leftover(id) == lock = Nothing /\ record # Nothing /\ record.program_id = id /\ AttachedId = id
LeftoverGoes == \A id \in Ids : ~mayfail /\ Leftover(id) ~> AttachedId # id

(* What doc/ARCHITECTURE.md says of a restart that fails: the owner record *)
(* is kept until the program it names is detached.                         *)
RecordKept ==
  [][record # Nothing /\ record' # record => AttachedId' # record.program_id]_link_vars
=============================================================================
