---------------------------- MODULE PrivateMemory ----------------------------
(***************************************************************************)
(* What the memory of processes promises: every process has its own, and a *)
(* fork copies it.  CowMemory, which shares pages and copies them late,    *)
(* implements this.                                                        *)
(***************************************************************************)
CONSTANTS Task, First, Page, Value, None

VARIABLES
  live,     \* the processes
  memory    \* the value in each page of each process, None when not mapped

vars == <<live, memory>>

Unmapped == [p \in Page |-> None]

Init == live = {First} /\ memory = [t \in Task |-> Unmapped]

(***************************************************************************)
(* A page is written, or appears with whatever its frame held before.      *)
(***************************************************************************)
Set(t, p) ==
  /\ memory'[t][p] \in Value
  /\ memory' = [memory EXCEPT ![t][p] = memory'[t][p]]

(***************************************************************************)
(* Pages are given back, by munmap or by exec.                             *)
(***************************************************************************)
Drop(t) ==
  /\ \A p \in Page : memory'[t][p] \in {memory[t][p], None}
  /\ memory' = [memory EXCEPT ![t] = memory'[t]]

Fork(t, c) ==
  /\ c \notin live
  /\ live' = live \cup {c}
  /\ memory' = [memory EXCEPT ![c] = memory[t]]

Exit(t) ==
  /\ live' = live \ {t}
  /\ memory' = [memory EXCEPT ![t] = Unmapped]

Next ==
  \E t \in live :
    \/ live' = live /\ (Drop(t) \/ \E p \in Page : Set(t, p))
    \/ \E c \in Task : Fork(t, c)
    \/ Exit(t)

Spec == Init /\ [][Next]_vars
=============================================================================
