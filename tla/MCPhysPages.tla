----------------------------- MODULE MCPhysPages -----------------------------
(***************************************************************************)
(* BIOS maps for PhysPages, with pages of two bytes: two entries that      *)
(* touch, a reserved and an empty entry, entries that do not begin or end  *)
(* at a page, entries in the wrong order, a map without page 0, and an     *)
(* entry without a whole page.                                             *)
(***************************************************************************)
EXTENDS PhysPages

Entry(b, l) == [base |-> b, length |-> l, type |-> 1]

SomeMaps ==
  { <<Entry(0, 3), [base |-> 3, length |-> 1, type |-> 2], Entry(4, 7), Entry(12, 6)>>,
    <<Entry(0, 2), Entry(2, 0), Entry(3, 7), Entry(10, 4)>>,
    <<Entry(0, 2), Entry(10, 6), Entry(4, 4)>>,
    <<Entry(2, 8)>>,
    <<Entry(0, 4), Entry(5, 2)>> }

SomeKernels == {<<4, 6>>, <<4, 7>>, <<0, 1>>}
=============================================================================
