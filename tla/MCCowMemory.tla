----------------------------- MODULE MCCowMemory -----------------------------
(***************************************************************************)
(* Small instances of CowMemory: page and frame numbers, and a symmetry    *)
(* that exchanges values, and tasks other than the first.                  *)
(***************************************************************************)
EXTENDS CowMemory, TLC

Pages1 == 1..1
Pages2 == 1..2
Frames2 == 1..2
Frames3 == 1..3

SymmetricTasksAndValues ==
  {a @@ b : a \in Permutations(Task \ {First}), b \in Permutations(Value)}
=============================================================================
