------------------------------ MODULE MCVmAreas ------------------------------
(***************************************************************************)
(* A small address space for VmAreas, with pages of two bytes: arguments   *)
(* from 1 up, programs at 5, the stack at 14, the kernel from 18 to 29.    *)
(* The second program's segments overlap; the first layout has the video   *)
(* page inside the kernel, the second so much memory that the area for it  *)
(* would end at a wrapped address and is refused.                          *)
(***************************************************************************)
EXTENDS VmAreas

Segment(a, n) == [addr |-> a, size |-> n]
SomePrograms ==
  { [text |-> Segment(5, 2), data |-> Segment(7, 1)],
    [text |-> Segment(6, 2), data |-> Segment(7, 1)] }

Layout(k, v, p) == [kern_end |-> k, vdo |-> v, phys_end |-> p]
SomeLayouts == {Layout(20, 1, 4), Layout(20, 4, 12)}

SomeArgs == <<1, 1, 1, 1>>
SomeFlags == {{}, {"up"}}
=============================================================================
