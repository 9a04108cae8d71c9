----------------------------- MODULE MCScheduler -----------------------------
(***************************************************************************)
(* Small instances of Scheduler for TLC.                                   *)
(***************************************************************************)
EXTENDS Scheduler, TLC

CONSTANTS Others     \* the PCB addresses that forks can use

\* PCBs other than the two made at boot are interchangeable.
PcbSymmetry == Permutations(Others)

(***************************************************************************)
(* What a later step or a property may depend on: not the result a wait    *)
(* would return, which no step reads and ExitNotifies looks at only as the *)
(* step leaves it; and of a PCB that is not allocated only its pid, which  *)
(* an exit may read through a stale parent pointer.  The other fields are  *)
(* written when it is allocated.                                           *)
(***************************************************************************)
Restricted(field) == [t \in allocated |-> field[t]]
ProcessView ==
  <<queues, noproc, pid_array, rlimit_nproc, allocated, faults, pid, sleep_time_rem,
    Restricted(parent), Restricted(children), Restricted(wait_desc), Restricted(frame)>>

ASSUME OthersAssumption == Task = Others \cup {Daemon, Shell}

(***************************************************************************)
(* Keep, which the proofs expand, is the standard SelectSeq.               *)
(***************************************************************************)
ASSUME KeepIsSelectSeq ==
  \A n \in 0..3 : \A q \in [1..n -> Task] : \A S \in SUBSET Task :
    Keep(q, S) = SelectSeq(q, LAMBDA x : x \in S)
=============================================================================
