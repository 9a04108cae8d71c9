----------------------------- MODULE KernelList -----------------------------
(***************************************************************************)
(* The intrusive doubly linked lists of include/sys/list.h, as the kernel  *)
(* uses them: a list is the sequence of the entries met by following       *)
(* "next" from the list head, so head->next is Head(q) and head->prev is   *)
(* its last element.                                                       *)
(*                                                                         *)
(* Nothing here is recursive, so that proofs can expand it: Keep(q, S) is  *)
(* the standard SelectSeq for "is in S", written with the rank of every    *)
(* index that is kept.                                                     *)
(***************************************************************************)
EXTENDS Integers, Sequences, FiniteSets

Entries(q) == {q[i] : i \in 1..Len(q)}

(***************************************************************************)
(* The indices of q whose entry is in S, and how many of them are <= i.    *)
(***************************************************************************)
KeptIndices(q, S) == {i \in 1..Len(q) : q[i] \in S}
Rank(I, i) == Cardinality({j \in I : j <= i})

(***************************************************************************)
(* The entries of q that are in S, in their order.                         *)
(***************************************************************************)
Keep(q, S) ==
  LET I == KeptIndices(q, S)
  IN  [k \in 1..Cardinality(I) |-> q[CHOOSE i \in I : Rank(I, i) = k]]

list_add(x, q) == <<x>> \o q
list_add_tail(x, q) == Append(q, x)
list_del(x, q) == Keep(q, Entries(q) \ {x})

LastEntry(q) == q[Len(q)]

NoRepeats(q) == \A i, j \in 1..Len(q) : q[i] = q[j] => i = j
=============================================================================
