---------------------------- MODULE VmAreasProofs ----------------------------
(***************************************************************************)
(* The lists of areas stay in order, stacks keep to their limit and a      *)
(* growing area reaches the address it grows for: proofs about VmAreas for *)
(* every address space, every layout and every sequence of calls.          *)
(***************************************************************************)
EXTENDS VmAreas, WellFoundedInduction, TLAPS

Area == [vm_start : Nat, vm_end : Nat, vm_flags : SUBSET {"up", "down"}, max_size : Int]

(***************************************************************************)
(* What is known of an area that grows down: it is a stack, it ends above  *)
(* the page it began with, and it has a whole number of pages.             *)
(***************************************************************************)
Pages(a) ==
  \E k \in Nat : /\ a.vm_end - a.vm_start = k * SIZEOF_PAGE
                 /\ k <= 1 \/ k <= a.max_size

StackArea(a) ==
  /\ a.vm_flags = {"down"}
  /\ a.vm_end >= StackBase + SIZEOF_PAGE
  /\ a.max_size \in Nat /\ a.max_size * SIZEOF_PAGE <= StackBase
  /\ Pages(a)

Good(L) ==
  /\ L \in Seq(Area)
  /\ InOrder(L)
  /\ \A i \in DOMAIN L : "down" \in L[i].vm_flags => StackArea(L[i])

Plain(L) == \A i \in DOMAIN L : L[i].vm_flags = {}

(***************************************************************************)
(* The inductive invariant.                                                *)
(***************************************************************************)
Inv ==
  /\ mmap \in [Task \cup {Kernel} -> Seq(Area)]
  /\ \A s \in Task \cup {Kernel} : Good(mmap[s])
  /\ Plain(mmap[Kernel])
-----------------------------------------------------------------------------
(***************************************************************************)
(* A set of numbers that is not empty has a least member, and Least is it. *)
(***************************************************************************)
LEMMA LeastIn ==
  ASSUME NEW S \in SUBSET Nat, S # {}
  PROVE  Least(S) \in S /\ \A j \in S : Least(S) <= j
<1>. DEFINE R == OpToRel(<, Nat)
<1>1. IsWellFoundedOn(R, Nat)
  BY NatLessThanWellFounded
<1>2. \A x, y \in Nat : y < x => <<y, x>> \in R
  BY DEF OpToRel
<1>. HIDE DEF R
<1>3. PICK x \in S : \A y \in S : ~(<<y, x>> \in R)
  BY <1>1, WFMin
<1>4. \A y \in S : x <= y
  <2>. TAKE y \in S
  <2>1. x \in Nat /\ y \in Nat
    OBVIOUS
  <2>2. ~(y < x)
    BY <2>1, <1>2, <1>3, Zenon
  <2>. QED
    BY <2>1, <2>2
<1>. QED
  BY <1>4 DEF Least

-----------------------------------------------------------------------------
(***************************************************************************)
(* Numbers of pages and of bytes.                                          *)
(***************************************************************************)
LEMMA PagesInBytes ==
  ASSUME NEW a \in Nat, NEW b \in Nat
  PROVE  /\ a <= b => a * SIZEOF_PAGE <= b * SIZEOF_PAGE
         /\ a * SIZEOF_PAGE < b * SIZEOF_PAGE => a < b
         /\ (a + 1) * SIZEOF_PAGE = a * SIZEOF_PAGE + SIZEOF_PAGE
         /\ 1 * SIZEOF_PAGE = SIZEOF_PAGE /\ a * SIZEOF_PAGE \in Nat
  BY VmAssumption

(***************************************************************************)
(* The parts of a list of areas.                                           *)
(***************************************************************************)
LEMMA AreaFields ==
  ASSUME NEW L \in Seq(Area)
  PROVE  /\ Len(L) \in Nat /\ DOMAIN L = 1..Len(L)
         /\ \A j \in 1..Len(L) : /\ L[j] \in Area
                                  /\ L[j].vm_start \in Nat /\ L[j].vm_end \in Nat
                                  /\ L[j].vm_flags \in SUBSET {"up", "down"}
                                  /\ L[j].max_size \in Int
<1>1. Len(L) \in Nat /\ DOMAIN L = 1..Len(L) /\ \A j \in 1..Len(L) : L[j] \in Area
  OBVIOUS
<1>2. \A a \in Area : /\ a.vm_start \in Nat /\ a.vm_end \in Nat
                      /\ a.vm_flags \in SUBSET {"up", "down"} /\ a.max_size \in Int
  BY DEF Area
<1>. QED
  BY <1>1, <1>2

(***************************************************************************)
(* find_vma returns the first area that ends behind the address.           *)
(***************************************************************************)
LEMMA FindVma ==
  ASSUME NEW L \in Seq(Area), NEW addr \in Nat
  PROVE  LET k == find_vma(L, addr)
         IN  /\ k \in 1..Len(L) + 1
             /\ k <= Len(L) => addr < L[k].vm_end
             /\ \A j \in 1..Len(L) : j < k => L[j].vm_end <= addr
<1>. DEFINE S == {i \in 1..Len(L) + 1 : i <= Len(L) => addr < L[i].vm_end}
<1>1. Len(L) \in Nat /\ \A j \in 1..Len(L) : L[j].vm_end \in Nat
  BY AreaFields
<1>2. Len(L) + 1 \in S /\ S \in SUBSET Nat
  BY <1>1
<1>3. find_vma(L, addr) = Least(S)
  BY DEF find_vma
<1>4. Least(S) \in S /\ \A j \in S : Least(S) <= j
  BY <1>2, LeastIn
<1>5. \A j \in 1..Len(L) : j \notin S => L[j].vm_end <= addr
  BY <1>1
<1>6. Least(S) \in 1..Len(L) + 1 /\ (Least(S) <= Len(L) => addr < L[Least(S)].vm_end)
  BY <1>4
<1>. HIDE DEF S
<1>7. \A j \in 1..Len(L) : j < Least(S) => j \notin S
  BY <1>1, <1>4, <1>6
<1>. QED
  BY <1>3, <1>5, <1>6, <1>7

(***************************************************************************)
(* get_unmapped_area returns an address not below the one asked for.       *)
(***************************************************************************)
LEMMA UnmappedAbove ==
  ASSUME NEW L \in Seq(Area), InOrder(L), NEW start \in Nat, NEW len \in Nat
  PROVE  /\ get_unmapped_area(L, start, len) \in Nat
         /\ get_unmapped_area(L, start, len) >= start
<1>. DEFINE i0 == find_vma(L, start)
            addr(i) == IF i = i0 THEN start ELSE L[i - 1].vm_end
            S == {i \in i0..Len(L) + 1 :
                    i <= Len(L) => Plus(addr(i), len) < L[i].vm_start}
<1>1. Len(L) \in Nat /\ \A j \in 1..Len(L) : L[j].vm_end \in Nat
  BY AreaFields
<1>2. i0 \in 1..Len(L) + 1 /\ (i0 <= Len(L) => start < L[i0].vm_end)
  BY FindVma
<1>3. get_unmapped_area(L, start, len) = addr(Least(S))
  BY Zenon DEF get_unmapped_area
<1>. HIDE DEF i0
<1>4. Len(L) + 1 \in S /\ S \in SUBSET Nat
  BY <1>1, <1>2
<1>5. Least(S) \in S
  BY <1>4, LeastIn
<1>6. Least(S) \in i0..Len(L) + 1
  BY <1>5
<1>7. \A i \in i0..Len(L) + 1 : addr(i) \in Nat /\ addr(i) >= start
  <2>. SUFFICES ASSUME NEW i \in i0..Len(L) + 1, i # i0
                PROVE  L[i - 1].vm_end \in Nat /\ L[i - 1].vm_end >= start
    OBVIOUS
  <2>1. i0 \in 1..Len(L) /\ i - 1 \in 1..Len(L) /\ i0 <= i - 1
    BY <1>1, <1>2
  <2>2. L[i0].vm_end <= L[i - 1].vm_end
    <3>1. CASE i0 = i - 1
      BY <1>1, <2>1, <3>1
    <3>2. CASE i0 # i - 1
      <4>1. L[i0].vm_end <= L[i - 1].vm_start /\ L[i - 1].vm_start < L[i - 1].vm_end
        BY <2>1, <3>2, AreaFields DEF InOrder
      <4>. QED
        BY <2>1, <4>1, AreaFields
    <3>. QED
      BY <3>1, <3>2
  <2>. QED
    BY <1>1, <1>2, <2>1, <2>2
<1>. QED
  BY <1>3, <1>6, <1>7

(***************************************************************************)
(* In a list in order both ends of the areas go up.                        *)
(***************************************************************************)
LEMMA EndsGoUp ==
  ASSUME NEW L \in Seq(Area), InOrder(L),
         NEW j \in 1..Len(L), NEW m \in 1..Len(L), j <= m
  PROVE  L[j].vm_end <= L[m].vm_end /\ L[j].vm_start <= L[m].vm_start
<1>1. CASE j = m
  BY <1>1, AreaFields
<1>2. CASE j # m
  <2>1. /\ L[j].vm_end <= L[m].vm_start
        /\ L[j].vm_start < L[j].vm_end /\ L[m].vm_start < L[m].vm_end
    BY <1>2, AreaFields DEF InOrder
  <2>. QED
    BY <2>1, AreaFields
<1>. QED
  BY <1>1, <1>2

(***************************************************************************)
(* An area put into one of its Places leaves the list in order.            *)
(***************************************************************************)
LEMMA InsertedInOrder ==
  ASSUME NEW L \in Seq(Area), InOrder(L), NEW area \in Area,
         NEW i \in Places(L, area.vm_start, area.vm_end)
  PROVE  LET R == InsertBefore(L, i, area)
         IN  /\ R \in Seq(Area) /\ InOrder(R)
             /\ \A j \in DOMAIN R : R[j] = area \/ \E k \in DOMAIN L : R[j] = L[k]
<1>. DEFINE R == InsertBefore(L, i, area)
            n == Len(L)
<1>1. /\ n \in Nat /\ DOMAIN L = 1..n
      /\ \A j \in 1..n : L[j] \in Area /\ L[j].vm_start \in Nat /\ L[j].vm_end \in Nat
      /\ area.vm_start \in Nat /\ area.vm_end \in Nat
  <2>1. area.vm_start \in Nat /\ area.vm_end \in Nat
    BY DEF Area
  <2>. QED
    BY <2>1, AreaFields
<1>2. /\ i \in 1..n + 1 /\ area.vm_start < area.vm_end
      /\ i > 1 => area.vm_start >= L[i - 1].vm_end
      /\ i <= n => area.vm_end <= L[i].vm_start
  BY DEF Places
<1>3. /\ \A j \in 1..n + 1 : R[j] = IF j < i THEN L[j] ELSE IF j = i THEN area ELSE L[j - 1]
      /\ DOMAIN R = 1..n + 1
  BY DEF InsertBefore
<1>4. R \in Seq(Area)
  <2>1. \A j \in 1..n + 1 :
          (IF j < i THEN L[j] ELSE IF j = i THEN area ELSE L[j - 1]) \in Area
    BY <1>1, <1>2
  <2>2. [j \in 1..n + 1 |-> IF j < i THEN L[j] ELSE IF j = i THEN area ELSE L[j - 1]]
          \in Seq(Area)
    BY <1>1, <2>1
  <2>. QED
    BY <2>2 DEF InsertBefore
<1>5. \A j \in 1..n + 1 :
        /\ j < i => j \in 1..n /\ R[j] = L[j]
        /\ j = i => R[j] = area
        /\ j > i => j - 1 \in 1..n /\ R[j] = L[j - 1]
  BY <1>1, <1>2, <1>3
<1>. HIDE DEF R
<1>6. ASSUME NEW j \in 1..n + 1
      PROVE  R[j].vm_start < R[j].vm_end
  <2>1. CASE j < i
    BY <1>1, <1>2, <1>5, <2>1 DEF InOrder
  <2>2. CASE j = i
    BY <1>2, <1>5, <2>2
  <2>3. CASE j > i
    <3>1. j - 1 \in 1..n /\ R[j] = L[j - 1]
      BY <1>5, <2>3
    <3>. QED
      BY <1>1, <3>1 DEF InOrder
  <2>. QED
    BY <1>2, <2>1, <2>2, <2>3
<1>7. ASSUME NEW j \in 1..n + 1, NEW k \in 1..n + 1, j < k
      PROVE  R[j].vm_end <= R[k].vm_start
  <2>1. CASE k < i
    <3>1. R[j] = L[j] /\ R[k] = L[k] /\ j \in 1..n /\ k \in 1..n
      BY <1>1, <1>2, <1>5, <1>7, <2>1
    <3>. QED
      BY <1>1, <1>7, <3>1 DEF InOrder
  <2>2. CASE k = i
    <3>1. R[j] = L[j] /\ R[k] = area /\ j \in 1..n /\ i - 1 \in 1..n /\ j <= i - 1 /\ i > 1
      BY <1>1, <1>2, <1>5, <1>7, <2>2
    <3>2. L[j].vm_end <= L[i - 1].vm_end
      BY <3>1, EndsGoUp
    <3>. QED
      BY <1>1, <1>2, <3>1, <3>2
  <2>3. CASE j < i /\ i < k
    <3>1. R[j] = L[j] /\ R[k] = L[k - 1] /\ j \in 1..n /\ k - 1 \in 1..n /\ j < k - 1
      BY <1>1, <1>2, <1>5, <1>7, <2>3
    <3>. QED
      BY <1>1, <3>1 DEF InOrder
  <2>4. CASE j = i
    <3>1. R[j] = area /\ R[k] = L[k - 1] /\ i \in 1..n /\ k - 1 \in 1..n /\ i <= k - 1
      BY <1>1, <1>2, <1>5, <1>7, <2>4
    <3>2. L[i].vm_start <= L[k - 1].vm_start
      BY <3>1, EndsGoUp
    <3>. QED
      BY <1>1, <1>2, <3>1, <3>2
  <2>5. CASE i < j
    <3>1. /\ R[j] = L[j - 1] /\ R[k] = L[k - 1]
          /\ j - 1 \in 1..n /\ k - 1 \in 1..n /\ j - 1 < k - 1
      BY <1>1, <1>2, <1>5, <1>7, <2>5
    <3>. QED
      BY <1>1, <3>1 DEF InOrder
  <2>. QED
    BY <1>1, <1>2, <1>7, <2>1, <2>2, <2>3, <2>4, <2>5
<1>8. InOrder(R)
  BY <1>3, <1>6, <1>7 DEF InOrder
<1>9. \A j \in DOMAIN R : R[j] = area \/ \E k \in DOMAIN L : R[j] = L[k]
  <2>. SUFFICES ASSUME NEW j \in 1..n + 1
                PROVE  R[j] = area \/ \E k \in 1..n : R[j] = L[k]
    BY <1>1, <1>3
  <2>1. j < i \/ j = i \/ j > i
    BY <1>1, <1>2
  <2>. QED
    BY <1>5, <2>1
<1>. QED
  BY <1>4, <1>8, <1>9 DEF R

(***************************************************************************)
(* add_vma_growable keeps a list good, whatever it is asked to add, and a  *)
(* list of areas that cannot grow stays one.                               *)
(***************************************************************************)
LEMMA AddedGood ==
  ASSUME NEW L, Good(L), NEW start \in Nat, NEW end \in Nat,
         NEW flags \in SUBSET {"up", "down"}, NEW max \in Int,
         start < end /\ "down" \in flags =>
           StackArea([vm_start |-> start, vm_end |-> end,
                      vm_flags |-> flags, max_size |-> max])
  PROVE  /\ Good(add_vma_growable(L, start, end, flags, max))
         /\ Plain(L) /\ flags = {} => Plain(add_vma_growable(L, start, end, flags, max))
<1>. DEFINE area == [vm_start |-> start, vm_end |-> end,
                     vm_flags |-> flags, max_size |-> max]
            i == Least(Places(L, start, end))
            R == InsertBefore(L, i, area)
<1>1. CASE Places(L, start, end) = {}
  BY <1>1 DEF add_vma_growable
<1>2. CASE Places(L, start, end) # {}
  <2>1. add_vma_growable(L, start, end, flags, max) = R
    BY <1>2 DEF add_vma_growable
  <2>2. L \in Seq(Area) /\ InOrder(L)
    BY DEF Good
  <2>3. Places(L, start, end) \in SUBSET Nat
    BY <2>2, AreaFields DEF Places
  <2>4. i \in Places(L, start, end)
    BY <1>2, <2>3, LeastIn
  <2>5. area \in Area /\ area.vm_start = start /\ area.vm_end = end /\ area.vm_flags = flags
    BY DEF Area
  <2>6. start < end
    BY <2>4 DEF Places
  <2>7. "down" \in area.vm_flags => StackArea(area)
    BY <2>5, <2>6
  <2>. HIDE DEF area, i
  <2>8. /\ R \in Seq(Area) /\ InOrder(R)
        /\ \A j \in DOMAIN R : R[j] = area \/ \E k \in DOMAIN L : R[j] = L[k]
    BY <2>2, <2>4, <2>5, InsertedInOrder
  <2>. HIDE DEF R
  <2>9. Good(R)
    BY <2>7, <2>8 DEF Good
  <2>10. Plain(L) /\ flags = {} => Plain(R)
    BY <2>5, <2>8 DEF Plain
  <2>. QED
    BY <2>1, <2>9, <2>10
<1>. QED
  BY <1>1, <1>2

(***************************************************************************)
(* So does mmap, for areas that do not grow down, and so does the mapping  *)
(* of a stack.                                                             *)
(***************************************************************************)
LEMMA SumInNat ==
  ASSUME NEW a \in Nat, NEW b \in Nat
  PROVE  Plus(a, b) \in Nat
  BY VmAssumption DEF Plus

LEMMA MmapGood ==
  ASSUME NEW L, Good(L), NEW addr \in Nat, NEW len \in Nat, NEW flags \in {{}, {"up"}}
  PROVE  /\ Good(Mmap(L, addr, len, flags))
         /\ Plain(L) /\ flags = {} => Plain(Mmap(L, addr, len, flags))
<1>. DEFINE start == get_unmapped_area(L, addr, len)
<1>1. start \in Nat
  BY UnmappedAbove DEF Good
<1>2. Plus(start, len) \in Nat
  BY <1>1, SumInNat
<1>3. Mmap(L, addr, len, flags) = add_vma_growable(L, start, Plus(start, len), flags, Unlimited)
  BY DEF Mmap, mmap_growable
<1>4. flags \in SUBSET {"up", "down"} /\ "down" \notin flags /\ Unlimited \in Int
  BY DEF Unlimited
<1>5. Good(L) /\ flags \in SUBSET {"up", "down"}
  BY <1>4
<1>. DEFINE end == Plus(start, len)
<1>. HIDE DEF start, end
<1>6. start < end /\ "down" \in flags =>
        StackArea([vm_start |-> start, vm_end |-> end,
                   vm_flags |-> flags, max_size |-> Unlimited])
  BY <1>4
<1>7. end \in Nat /\ Mmap(L, addr, len, flags) = add_vma_growable(L, start, end, flags, Unlimited)
  BY <1>2, <1>3 DEF end
<1>8. /\ Good(add_vma_growable(L, start, end, flags, Unlimited))
      /\ Plain(L) /\ flags = {} => Plain(add_vma_growable(L, start, end, flags, Unlimited))
  BY <1>1, <1>4, <1>5, <1>6, <1>7, AddedGood
<1>. QED
  BY <1>7, <1>8

LEMMA StackGood ==
  ASSUME NEW L, Good(L), NEW limit \in Limits
  PROVE  Good(WithStack(L, limit))
<1>. DEFINE start == get_unmapped_area(L, StackBase, SIZEOF_PAGE)
            end == Plus(start, SIZEOF_PAGE)
            area == [vm_start |-> start, vm_end |-> end,
                     vm_flags |-> {"down"}, max_size |-> limit]
<1>1. /\ StackBase \in Nat /\ SIZEOF_PAGE \in Nat /\ SIZEOF_PAGE < ADDRESSES
      /\ limit \in Nat /\ limit * SIZEOF_PAGE <= StackBase
  BY VmAssumption
<1>2. start \in Nat /\ start >= StackBase
  BY <1>1, UnmappedAbove DEF Good
<1>3. WithStack(L, limit) = add_vma_growable(L, start, end, {"down"}, limit)
  BY DEF WithStack, mmap_growable
<1>4. end \in Nat
  BY <1>1, <1>2, SumInNat
<1>5. ASSUME start < end
      PROVE  StackArea(area)
  <2>1. end = start + SIZEOF_PAGE
    BY <1>1, <1>2, <1>5, VmAssumption DEF Plus
  <2>2. end - start = 1 * SIZEOF_PAGE /\ end >= StackBase + SIZEOF_PAGE
    BY <1>1, <1>2, <2>1
  <2>3. Pages(area)
    BY <2>2 DEF Pages
  <2>. QED
    BY <1>1, <2>2, <2>3 DEF StackArea
<1>. HIDE DEF start, end
<1>6. {"down"} \in SUBSET {"up", "down"} /\ limit \in Int
  BY <1>1
<1>. QED
  BY <1>2, <1>3, <1>4, <1>5, <1>6, AddedGood

(***************************************************************************)
(* The lists that boot, load_elf and exec lay out, and a list that an area *)
(* was taken from.                                                         *)
(***************************************************************************)
LEMMA EmptyGood == Good(<<>>) /\ Plain(<<>>)
  BY DEF Good, Plain, InOrder

LEMMA KernelAreasGood ==
  ASSUME NEW l \in Layouts
  PROVE  Good(KernelAreas(l)) /\ Plain(KernelAreas(l))
<1>. DEFINE add(L, s, e) == add_vma_growable(L, s, e, {}, Unlimited)
            free(L, a, n) == get_unmapped_area(L, a, n)
<1>1. /\ start_kernel \in Nat /\ SIZEOF_PAGE \in Nat
      /\ l.kern_end \in Nat /\ l.vdo \in Nat /\ l.phys_end \in Nat
  BY VmAssumption
<1>2. ASSUME NEW L, Good(L), Plain(L), NEW s \in Nat, NEW e \in Nat
      PROVE  Good(add(L, s, e)) /\ Plain(add(L, s, e))
  <2>1. {} \in SUBSET {"up", "down"} /\ Unlimited \in Int /\ "down" \notin {}
    BY DEF Unlimited
  <2>. QED
    BY <1>2, <2>1, AddedGood
<1>3. ASSUME NEW L, Good(L), NEW a \in Nat, NEW n \in Nat
      PROVE  free(L, a, n) \in Nat
  BY <1>3, UnmappedAbove DEF Good
<1>. DEFINE kernel == add(<<>>, start_kernel, l.kern_end)
            vdo == free(kernel, Plus(start_kernel, l.vdo), SIZEOF_PAGE)
            video == add(kernel, vdo, Plus(vdo, SIZEOF_PAGE))
            ahci == free(video, start_kernel, SIZEOF_PAGE)
            device == add(video, ahci, Plus(ahci, SIZEOF_PAGE))
            phys == free(device, start_kernel, l.phys_end)
<1>4. KernelAreas(l) = add(device, phys, Plus(phys, l.phys_end))
  BY DEF KernelAreas
<1>. HIDE DEF add, free
<1>5. Good(kernel) /\ Plain(kernel)
  BY <1>1, <1>2, EmptyGood
<1>. HIDE DEF kernel
<1>6. vdo \in Nat
  BY <1>1, <1>3, <1>5, SumInNat
<1>. HIDE DEF vdo
<1>7. Good(video) /\ Plain(video)
  BY <1>1, <1>2, <1>5, <1>6, SumInNat
<1>. HIDE DEF video
<1>8. ahci \in Nat
  BY <1>1, <1>3, <1>7
<1>. HIDE DEF ahci
<1>9. Good(device) /\ Plain(device)
  BY <1>1, <1>2, <1>7, <1>8, SumInNat
<1>. HIDE DEF device
<1>10. phys \in Nat
  BY <1>1, <1>3, <1>9
<1>. HIDE DEF phys
<1>11. Plus(phys, l.phys_end) \in Nat
  BY <1>1, <1>10, SumInNat
<1>12. /\ Good(add(device, phys, Plus(phys, l.phys_end)))
       /\ Plain(add(device, phys, Plus(phys, l.phys_end)))
  BY <1>2, <1>9, <1>10, <1>11
<1>. QED
  BY <1>4, <1>12

LEMMA LoadedGood ==
  ASSUME NEW prog \in Programs, NEW limit \in Limits
  PROVE  Good(WithStack(Loaded(prog), limit))
<1>1. /\ prog.text.addr \in Nat /\ prog.text.size \in Nat
      /\ prog.data.addr \in Nat /\ prog.data.size \in Nat
  BY VmAssumption
<1>2. Good(Mmap(<<>>, prog.text.addr, prog.text.size, {}))
  BY <1>1, EmptyGood, MmapGood
<1>3. Good(Loaded(prog))
  BY <1>1, <1>2, MmapGood DEF Loaded
<1>. QED
  BY <1>3, StackGood

LEMMA MallocGood ==
  ASSUME NEW L, Good(L), NEW n \in Nat
  PROVE  Good(Malloc(L, n))
  BY MmapGood, VmAssumption DEF Malloc

LEMMA ArgsGood ==
  ASSUME NEW L, Good(L)
  PROVE  Good(WithArgs(L))
<1>1. /\ ArgSizes[1] \in Nat /\ ArgSizes[2] \in Nat
      /\ ArgSizes[3] \in Nat /\ ArgSizes[4] \in Nat
  BY VmAssumption
<1>2. Good(Malloc(Malloc(L, ArgSizes[1]), ArgSizes[2]))
  BY <1>1, MallocGood
<1>. QED
  BY <1>1, <1>2, MallocGood DEF WithArgs

LEMMA KernelStackGood ==
  ASSUME NEW L, Good(L), Plain(L)
  PROVE  Good(KernelStack(L)) /\ Plain(KernelStack(L))
<1>1. start_kernel \in Nat /\ SIZEOF_PAGE \in Nat
  BY VmAssumption
<1>. QED
  BY <1>1, MmapGood DEF KernelStack

LEMMA RemovedGood ==
  ASSUME NEW L, Good(L), NEW i \in DOMAIN L
  PROVE  Good([j \in 1..Len(L) - 1 |-> IF j < i THEN L[j] ELSE L[j + 1]])
<1>. DEFINE n == Len(L)
            R == [j \in 1..n - 1 |-> IF j < i THEN L[j] ELSE L[j + 1]]
            p(j) == IF j < i THEN j ELSE j + 1
<1>1. L \in Seq(Area) /\ InOrder(L)
  BY DEF Good
<1>2. n \in Nat /\ DOMAIN L = 1..n /\ \A j \in 1..n : L[j] \in Area
  BY <1>1, AreaFields
<1>3. n - 1 \in Nat /\ i \in 1..n
  BY <1>2
<1>4. \A j \in 1..n - 1 : p(j) \in 1..n /\ R[j] = L[p(j)]
  BY <1>2, <1>3
<1>5. \A j, k \in 1..n - 1 : j < k => p(j) < p(k)
  BY <1>2, <1>3
<1>6. R \in Seq(Area)
  <2>1. \A j \in 1..n - 1 : (IF j < i THEN L[j] ELSE L[j + 1]) \in Area
    BY <1>2, <1>3
  <2>. QED
    BY <1>3, <2>1
<1>7. DOMAIN R = 1..n - 1
  OBVIOUS
<1>. HIDE DEF R, p
<1>8. InOrder(R)
  BY <1>1, <1>2, <1>4, <1>5, <1>7 DEF InOrder
<1>9. \A j \in DOMAIN R : "down" \in R[j].vm_flags => StackArea(R[j])
  BY <1>2, <1>4, <1>7 DEF Good
<1>10. Good(R)
  BY <1>6, <1>8, <1>9 DEF Good
<1>. QED
  BY <1>10 DEF R

(***************************************************************************)
(* An area may be replaced by one that stays clear of its neighbours.      *)
(***************************************************************************)
LEMMA ReplacedGood ==
  ASSUME NEW L, Good(L), NEW i \in DOMAIN L, NEW b \in Area,
         b.vm_start < b.vm_end,
         \A j \in DOMAIN L : j < i => L[j].vm_end <= b.vm_start,
         \A j \in DOMAIN L : i < j => b.vm_end <= L[j].vm_start,
         "down" \in b.vm_flags => StackArea(b)
  PROVE  Good([L EXCEPT ![i] = b])
<1>. DEFINE R == [L EXCEPT ![i] = b]
<1>1. L \in Seq(Area) /\ InOrder(L) /\ i \in 1..Len(L) /\ DOMAIN L = 1..Len(L) /\ Len(L) \in Nat
  BY AreaFields DEF Good
<1>2. R \in Seq(Area)
  BY <1>1
<1>3. /\ DOMAIN R = DOMAIN L
      /\ R[i] = b /\ \A j \in DOMAIN L : j # i => R[j] = L[j]
  BY <1>1
<1>. HIDE DEF R
<1>4. InOrder(R)
  <2>1. \A j \in DOMAIN R : R[j].vm_start < R[j].vm_end
    BY <1>1, <1>3 DEF InOrder
  <2>2. ASSUME NEW j \in DOMAIN R, NEW k \in DOMAIN R, j < k
        PROVE  R[j].vm_end <= R[k].vm_start
    <3>1. CASE j = i
      BY <1>1, <1>3, <2>2, <3>1
    <3>2. CASE k = i
      BY <1>1, <1>3, <2>2, <3>2
    <3>3. CASE j # i /\ k # i
      BY <1>1, <1>3, <2>2, <3>3 DEF InOrder
    <3>. QED
      BY <3>1, <3>2, <3>3
  <2>. QED
    BY <2>1, <2>2 DEF InOrder
<1>5. \A j \in DOMAIN R : "down" \in R[j].vm_flags => StackArea(R[j])
  BY <1>3 DEF Good
<1>. QED
  BY <1>2, <1>4, <1>5 DEF Good, R

LEMMA NewEnds ==
  ASSUME NEW r \in Area, NEW x \in Nat
  PROVE  /\ [r EXCEPT !.vm_end = x] \in Area
         /\ [r EXCEPT !.vm_end = x].vm_start = r.vm_start
         /\ [r EXCEPT !.vm_end = x].vm_end = x
         /\ [r EXCEPT !.vm_end = x].vm_flags = r.vm_flags
         /\ [r EXCEPT !.vm_start = x] \in Area
         /\ [r EXCEPT !.vm_start = x].vm_start = x
         /\ [r EXCEPT !.vm_start = x].vm_end = r.vm_end
         /\ [r EXCEPT !.vm_start = x].vm_flags = r.vm_flags
         /\ [r EXCEPT !.vm_start = x].max_size = r.max_size
  BY DEF Area

(***************************************************************************)
(* grow_vma_up: the look-up from the area's end finds the next area, or    *)
(* there is none.                                                          *)
(***************************************************************************)
LEMMA GrownUp ==
  ASSUME NEW L, Good(L), NEW i \in DOMAIN L, NEW a \in Nat, a < start_kernel,
         IsPrev(L, i, a), NEW hit \in UpHit(L, i), grow_vma_up(L, i, a, hit)
  PROVE  LET R == [L EXCEPT ![i].vm_end = Plus(@, SIZEOF_PAGE)]
         IN  Good(R) /\ i \in DOMAIN R /\ Contains(R[i], a)
<1>. DEFINE n == Len(L)
            e == L[i].vm_end
            k == find_vma(L, e)
            b == [L[i] EXCEPT !.vm_end = e + SIZEOF_PAGE]
<1>1. L \in Seq(Area) /\ InOrder(L) /\ i \in 1..n /\ DOMAIN L = 1..n /\ n \in Nat
  BY AreaFields DEF Good
<1>2. \A j \in 1..n : L[j] \in Area /\ L[j].vm_start \in Nat /\ L[j].vm_end \in Nat
  BY <1>1, AreaFields
<1>3. SIZEOF_PAGE \in Nat \ {0} /\ start_kernel \in Nat /\ start_kernel + SIZEOF_PAGE < ADDRESSES
  BY VmAssumption
<1>4. e <= a /\ e \in Nat /\ L[i].vm_start < e
  BY <1>1, <1>2 DEF IsPrev, InOrder
<1>5. Plus(e, SIZEOF_PAGE) = e + SIZEOF_PAGE
  BY <1>3, <1>4, VmAssumption DEF Plus
<1>6. "up" \in L[i].vm_flags /\ a - e < SIZEOF_PAGE /\ ~hit
  BY DEF grow_vma_up
<1>7. k \in 1..n + 1 /\ (k <= n => e < L[k].vm_end) /\ \A j \in 1..n : j < k => L[j].vm_end <= e
  BY <1>1, <1>4, FindVma
<1>8. \A j \in 1..n : i < j => e + SIZEOF_PAGE <= L[j].vm_start
  <2>. SUFFICES ASSUME NEW j \in 1..n, i < j
                PROVE  e + SIZEOF_PAGE <= L[j].vm_start
    OBVIOUS
  <2>. HIDE DEF k
  <2>1. e <= L[j].vm_start /\ L[j].vm_start < L[j].vm_end
    BY <1>1 DEF InOrder
  <2>2. ~(j < k)
    BY <1>2, <1>4, <1>7, <2>1
  <2>3. k <= j /\ k \in 1..n /\ e < L[k].vm_end
    BY <1>1, <1>7, <2>2
  <2>4. ~(e + SIZEOF_PAGE > L[k].vm_start)
    <3>1. UpHit(L, i) = {e + SIZEOF_PAGE > L[k].vm_start}
      BY <1>1, <1>5, <2>3 DEF UpHit, find_vma_intersection, k
    <3>. QED
      BY <1>6, <3>1
  <2>5. L[k].vm_start <= L[j].vm_start
    BY <1>1, <2>3, EndsGoUp
  <2>6. e + SIZEOF_PAGE \in Nat /\ L[k].vm_start \in Nat /\ L[j].vm_start \in Nat
    BY <1>2, <1>3, <1>4, <2>3
  <2>. HIDE DEF e, n, b
  <2>. QED
    BY <2>4, <2>5, <2>6
<1>9. b \in Area /\ b.vm_start = L[i].vm_start /\ b.vm_end = e + SIZEOF_PAGE
      /\ b.vm_flags = L[i].vm_flags
  <2>1. L[i] \in Area /\ e + SIZEOF_PAGE \in Nat
    BY <1>1, <1>2, <1>3, <1>4
  <2>. QED
    BY <2>1, NewEnds
<1>10. "down" \notin L[i].vm_flags
  BY <1>1, <1>6 DEF Good, StackArea
<1>11. [L EXCEPT ![i].vm_end = Plus(@, SIZEOF_PAGE)] = [L EXCEPT ![i] = b]
  BY <1>5
<1>. HIDE DEF b
<1>12. \A j \in 1..n : j < i => L[j].vm_end <= b.vm_start
  BY <1>1, <1>9 DEF InOrder
<1>13. b.vm_start < b.vm_end /\ Contains(b, a)
  BY <1>1, <1>2, <1>3, <1>4, <1>6, <1>9 DEF Contains
<1>14. Good([L EXCEPT ![i] = b])
  BY <1>1, <1>8, <1>9, <1>10, <1>12, <1>13, ReplacedGood
<1>15. i \in DOMAIN [L EXCEPT ![i] = b] /\ [L EXCEPT ![i] = b][i] = b
  BY <1>1
<1>. QED
  BY <1>11, <1>13, <1>14, <1>15

(***************************************************************************)
(* grow_vma_down: a stack is never so low that its start could wrap, the   *)
(* look-up from a page below it finds the stack itself or an area in the   *)
(* way, and the page it grows by is within the limit.                      *)
(***************************************************************************)
LEMMA GrownDown ==
  ASSUME NEW L, Good(L), NEW i \in DOMAIN L, NEW a \in Nat,
         IsNext(L, i, a), NEW hit \in DownHit(L, i), grow_vma_down(L, i, a, hit)
  PROVE  LET R == [L EXCEPT ![i].vm_start = Minus(@, SIZEOF_PAGE)]
         IN  Good(R) /\ i \in DOMAIN R /\ Contains(R[i], a)
<1>. DEFINE n == Len(L)
            s == L[i].vm_start
            e == L[i].vm_end
            m == L[i].max_size
            k == find_vma(L, s - SIZEOF_PAGE)
            b == [L[i] EXCEPT !.vm_start = s - SIZEOF_PAGE]
<1>1. L \in Seq(Area) /\ InOrder(L) /\ i \in 1..n /\ DOMAIN L = 1..n /\ n \in Nat
  BY AreaFields DEF Good
<1>2. \A j \in 1..n : L[j] \in Area /\ L[j].vm_start \in Nat /\ L[j].vm_end \in Nat
  BY <1>1, AreaFields
<1>3. SIZEOF_PAGE \in Nat \ {0} /\ StackBase \in Nat
  BY VmAssumption
<1>4. a < s /\ s \in Nat /\ e \in Nat /\ s < e
  BY <1>1, <1>2 DEF IsNext, InOrder
<1>5. /\ "down" \in L[i].vm_flags /\ s - a <= SIZEOF_PAGE /\ ~hit
      /\ m # Unlimited => e - a < m * SIZEOF_PAGE
  BY DEF grow_vma_down
<1>6. /\ L[i].vm_flags = {"down"} /\ e >= StackBase + SIZEOF_PAGE
      /\ m \in Nat /\ m * SIZEOF_PAGE <= StackBase /\ Pages(L[i])
  BY <1>1, <1>5 DEF Good, StackArea
<1>7. m * SIZEOF_PAGE \in Nat /\ e - a < m * SIZEOF_PAGE
  <2>1. m * SIZEOF_PAGE \in Nat
    BY <1>6, PagesInBytes
  <2>2. m # Unlimited
    BY <1>6 DEF Unlimited
  <2>. QED
    BY <1>5, <2>1, <2>2, Zenon
<1>8. s - SIZEOF_PAGE \in Nat /\ Minus(s, SIZEOF_PAGE) = s - SIZEOF_PAGE
  <2>1. s > SIZEOF_PAGE
    <3>. DEFINE x == m * SIZEOF_PAGE
    <3>1. x \in Nat /\ e - a < x /\ x <= StackBase
      BY <1>6, <1>7
    <3>. HIDE DEF x
    <3>. QED
      BY <1>3, <1>4, <1>6, <3>1
  <2>. QED
    BY <1>3, <1>4, <2>1 DEF Minus
<1>9. k \in 1..n + 1 /\ (k <= n => s - SIZEOF_PAGE < L[k].vm_end)
      /\ \A j \in 1..n : j < k => L[j].vm_end <= s - SIZEOF_PAGE
  BY <1>1, <1>8, FindVma
<1>10. \A j \in 1..n : j < i => L[j].vm_end <= s - SIZEOF_PAGE
  <2>. HIDE DEF k
  <2>1. k <= i
    <3>1. ~(i < k)
      BY <1>1, <1>3, <1>4, <1>9
    <3>. QED
      BY <1>1, <1>9, <3>1
  <2>2. k \in 1..n
    BY <1>1, <1>9, <2>1
  <2>3. ~(s > L[k].vm_start)
    <3>1. DownHit(L, i) = {s > L[k].vm_start}
      <4>1. ~(k > n)
        BY <1>1, <2>2
      <4>2. find_vma(L, Minus(s, SIZEOF_PAGE)) = k
        BY <1>8, Zenon DEF k
      <4>. QED
        BY <4>1, <4>2, Zenon DEF DownHit, find_vma_intersection
    <3>. QED
      BY <1>5, <3>1
  <2>4. k = i
    <3>. SUFFICES ASSUME k < i PROVE FALSE
      BY <1>1, <2>1, <2>2
    <3>1. L[k].vm_end <= s /\ L[k].vm_start < L[k].vm_end
      BY <1>1, <2>2 DEF InOrder
    <3>. QED
      BY <1>2, <1>4, <2>2, <2>3, <3>1
  <2>. QED
    BY <1>9, <2>4
<1>11. /\ b \in Area /\ b.vm_start = s - SIZEOF_PAGE /\ b.vm_end = e
       /\ b.vm_flags = L[i].vm_flags /\ b.max_size = m
  <2>1. L[i] \in Area /\ s - SIZEOF_PAGE \in Nat
    BY <1>1, <1>2, <1>8
  <2>. HIDE DEF k
  <2>. QED
    BY <2>1, NewEnds
<1>12. [L EXCEPT ![i].vm_start = Minus(@, SIZEOF_PAGE)] = [L EXCEPT ![i] = b]
  BY <1>8
<1>. HIDE DEF b
<1>13. StackArea(b)
  <2>1. PICK q \in Nat : e - s = q * SIZEOF_PAGE
    BY <1>6 DEF Pages
  <2>2. q * SIZEOF_PAGE < m * SIZEOF_PAGE
    <3>. DEFINE x == m * SIZEOF_PAGE
                y == q * SIZEOF_PAGE
    <3>1. x \in Nat /\ e - a < x /\ y = e - s
      BY <1>7, <2>1
    <3>. HIDE DEF x, y
    <3>2. y < x
      BY <1>4, <3>1
    <3>. QED
      BY <3>2 DEF x, y
  <2>3. q < m /\ (q + 1) * SIZEOF_PAGE = q * SIZEOF_PAGE + SIZEOF_PAGE
    BY <1>6, <2>2, PagesInBytes
  <2>4. e - (s - SIZEOF_PAGE) = (q + 1) * SIZEOF_PAGE
    <3>. DEFINE y == q * SIZEOF_PAGE
                z == (q + 1) * SIZEOF_PAGE
    <3>1. y = e - s /\ z = y + SIZEOF_PAGE
      BY <2>1, <2>3
    <3>. HIDE DEF y, z
    <3>2. e - (s - SIZEOF_PAGE) = z
      BY <1>3, <1>4, <3>1
    <3>. QED
      BY <3>2 DEF z
  <2>5. q + 1 \in Nat /\ q + 1 <= m
    BY <1>6, <2>3
  <2>6. Pages(b)
    BY <1>11, <2>4, <2>5 DEF Pages
  <2>. QED
    BY <1>6, <1>11, <2>6 DEF StackArea
<1>14. \A j \in 1..n : i < j => b.vm_end <= L[j].vm_start
  BY <1>1, <1>11 DEF InOrder
<1>15. b.vm_start < b.vm_end /\ Contains(b, a)
  BY <1>3, <1>4, <1>5, <1>8, <1>11 DEF Contains
<1>16. Good([L EXCEPT ![i] = b])
  BY <1>1, <1>10, <1>11, <1>13, <1>14, <1>15, ReplacedGood
<1>17. i \in DOMAIN [L EXCEPT ![i] = b] /\ [L EXCEPT ![i] = b][i] = b
  BY <1>1
<1>. QED
  BY <1>12, <1>15, <1>16, <1>17
-----------------------------------------------------------------------------
(***************************************************************************)
(* A step that gives good lists to a process, to the kernel or to both     *)
(* keeps the invariant.                                                    *)
(***************************************************************************)
LEMMA NewLists ==
  ASSUME Inv, NEW t \in Task, NEW A, NEW K, Good(A), Good(K), Plain(K),
         \/ mmap' = [mmap EXCEPT ![t] = A]
         \/ mmap' = [mmap EXCEPT ![Kernel] = K]
         \/ mmap' = [mmap EXCEPT ![t] = A, ![Kernel] = K]
  PROVE  Inv'
<1>1. t # Kernel /\ t \in Task \cup {Kernel} /\ Kernel \in Task \cup {Kernel}
  BY VmAssumption
<1>2. A \in Seq(Area) /\ K \in Seq(Area)
  BY DEF Good
<1>3. mmap \in [Task \cup {Kernel} -> Seq(Area)]
  BY DEF Inv
<1>4. mmap' \in [Task \cup {Kernel} -> Seq(Area)]
  BY <1>1, <1>2, <1>3
<1>5. \A s \in Task \cup {Kernel} :
        mmap'[s] = mmap[s] \/ (s = t /\ mmap'[s] = A) \/ (s = Kernel /\ mmap'[s] = K)
  BY <1>1, <1>3
<1>6. \A s \in Task \cup {Kernel} : Good(mmap'[s])
  BY <1>5 DEF Inv
<1>7. Plain(mmap'[Kernel])
  BY <1>1, <1>5 DEF Inv
<1>8. /\ \A s \in Task \cup {Kernel} : Good(mmap[s])'
      /\ Plain(mmap[Kernel])'
  BY <1>6, <1>7 DEF Good, Plain, InOrder, StackArea, Pages
<1>. QED
  BY <1>4, <1>8 DEF Inv

(***************************************************************************)
(* The kernel's areas never grow.                                          *)
(***************************************************************************)
LEMMA OnlyTasksGrow ==
  ASSUME Inv, NEW t \in Task, NEW a \in Nat, NEW i \in DOMAIN mmap[ListOf(t, a)],
         mmap[ListOf(t, a)][i].vm_flags # {}
  PROVE  ListOf(t, a) = t /\ a < start_kernel
<1>1. ListOf(t, a) # Kernel
  BY DEF Inv, Plain
<1>2. ListOf(t, a) = t /\ ~(a >= start_kernel)
  BY <1>1 DEF ListOf
<1>. QED
  BY <1>2, VmAssumption

LEMMA InitInv == Init => Inv /\ GrownCovers
<1>. SUFFICES ASSUME Init PROVE Inv /\ GrownCovers
  OBVIOUS
<1>1. mmap \in [Task \cup {Kernel} -> Seq(Area)] /\ \A s \in Task \cup {Kernel} : mmap[s] = <<>>
  BY DEF Init
<1>2. Inv
  BY <1>1, EmptyGood DEF Inv
<1>. QED
  BY <1>2 DEF Init, GrownCovers

LEMMA StepInv == Inv /\ GrownCovers /\ [Next]_vars => Inv' /\ GrownCovers'
<1>. SUFFICES ASSUME Inv, GrownCovers, [Next]_vars PROVE Inv' /\ GrownCovers'
  OBVIOUS
<1>a. /\ \A s \in Task \cup {Kernel} : Good(mmap[s])
      /\ Plain(mmap[Kernel]) /\ Kernel \in Task \cup {Kernel}
      /\ Good(mmap[Kernel])
  BY DEF Inv
<1>b. First \in Task
  BY VmAssumption
<1>c. Good(KernelStack(mmap[Kernel])) /\ Plain(KernelStack(mmap[Kernel]))
  BY <1>a, KernelStackGood
<1>d. grown' = None => GrownCovers'
  BY DEF GrownCovers
<1>1. ASSUME NEW l \in Layouts, Boot(l) PROVE Inv' /\ GrownCovers'
  BY <1>1, <1>b, <1>d, EmptyGood, KernelAreasGood, NewLists DEF Boot
<1>2. ASSUME NEW p \in Programs, NEW n \in Limits, Create(p, n) PROVE Inv' /\ GrownCovers'
  BY <1>2, <1>b, <1>c, <1>d, LoadedGood, NewLists DEF Create
<1>3. ASSUME NEW t \in Task, NEW p \in Programs, NEW n \in Limits, Exec(t, p, n)
      PROVE  Inv' /\ GrownCovers'
  <2>1. Good(WithArgs(WithStack(Loaded(p), n)))
    BY LoadedGood, ArgsGood
  <2>. QED
    BY <1>3, <1>a, <1>d, <2>1, NewLists DEF Exec
<1>4. ASSUME NEW t \in Task, NEW c \in Task, Fork(t, c) PROVE Inv' /\ GrownCovers'
  BY <1>4, <1>a, <1>c, <1>d, NewLists DEF Fork
<1>5. ASSUME NEW t \in Task, ForkFails(t) PROVE Inv' /\ GrownCovers'
  BY <1>5, <1>a, <1>c, <1>d, NewLists DEF ForkFails
<1>6. ASSUME NEW t \in Task, NEW a \in Hints, NEW n \in Lengths, NEW f \in Flags,
             SysMmap(t, a, n, f)
      PROVE  Inv' /\ GrownCovers'
  <2>1. a \in Nat /\ n \in Nat /\ f \in {{}, {"up"}}
    BY VmAssumption
  <2>2. Good(Mmap(mmap[t], a, n, f))
    BY <1>a, <2>1, MmapGood
  <2>. QED
    BY <1>6, <1>a, <1>d, <2>2, NewLists DEF SysMmap
<1>7. ASSUME NEW t \in Task, NEW n \in Lengths, SysMalloc(t, n) PROVE Inv' /\ GrownCovers'
  <2>1. Good(Malloc(mmap[t], n))
    BY <1>a, MallocGood, VmAssumption
  <2>. QED
    BY <1>7, <1>a, <1>d, <2>1, NewLists DEF SysMalloc
<1>8. ASSUME NEW t \in Task, NEW i \in DOMAIN mmap[t], Munmap(t, i) PROVE Inv' /\ GrownCovers'
  <2>1. Good([j \in 1..Len(mmap[t]) - 1 |-> IF j < i THEN mmap[t][j] ELSE mmap[t][j + 1]])
    BY <1>a, RemovedGood
  <2>. QED
    BY <1>8, <1>a, <1>d, <2>1, NewLists DEF Munmap
<1>9. ASSUME NEW t \in Task, NEW a \in 0..ADDRESSES - 1,
             NEW i \in DOMAIN mmap[ListOf(t, a)],
             FaultGrowsUp(t, a, i) \/ FaultGrowsDown(t, a, i)
      PROVE  Inv' /\ GrownCovers'
  <2>. DEFINE L == mmap[ListOf(t, a)]
  <2>1. a \in Nat
    BY VmAssumption
  <2>2. L[i].vm_flags # {}
    BY <1>9 DEF FaultGrowsUp, FaultGrowsDown, grow_vma_up, grow_vma_down
  <2>3. ListOf(t, a) = t /\ a < start_kernel
    BY <2>1, <2>2, OnlyTasksGrow
  <2>4. Good(L) /\ i \in DOMAIN L
    BY <1>a, <2>3
  <2>5. \E R : Good(R) /\ i \in DOMAIN R /\ Contains(R[i], a) /\ mmap' = [mmap EXCEPT ![t] = R]
    <3>1. CASE FaultGrowsUp(t, a, i)
      BY <2>1, <2>3, <2>4, <3>1, GrownUp DEF FaultGrowsUp
    <3>2. CASE FaultGrowsDown(t, a, i)
      BY <2>1, <2>3, <2>4, <3>2, GrownDown DEF FaultGrowsDown
    <3>. QED
      BY <1>9, <3>1, <3>2
  <2>6. PICK R : Good(R) /\ i \in DOMAIN R /\ Contains(R[i], a) /\ mmap' = [mmap EXCEPT ![t] = R]
    BY <2>5
  <2>7. mmap'[t] = R
    BY <2>6 DEF Inv
  <2>8. grown' = <<t, a>>
    BY <1>9, <2>3 DEF FaultGrowsUp, FaultGrowsDown
  <2>9. GrownCovers'
    BY <2>6, <2>7, <2>8 DEF GrownCovers, Contains
  <2>. QED
    BY <1>a, <2>6, <2>9, NewLists
<1>10. ASSUME NEW t \in Task, Ended(t) PROVE Inv' /\ GrownCovers'
  BY <1>10, <1>a, <1>d, EmptyGood, NewLists DEF Ended
<1>11. CASE UNCHANGED vars
  BY <1>11 DEF vars, Inv, GrownCovers, Good, Plain, InOrder, StackArea, Pages, Contains
<1>12. ASSUME NEW t \in Task, NEW a \in 0..ADDRESSES - 1, Segfault(t, a)
       PROVE  Inv' /\ GrownCovers'
  BY <1>10, <1>12 DEF Segfault
<1>13. ASSUME NEW t \in Task, Exit(t) PROVE Inv' /\ GrownCovers'
  BY <1>10, <1>13 DEF Exit
<1>. QED
  BY <1>1, <1>2, <1>3, <1>4, <1>5, <1>6, <1>7, <1>8, <1>9, <1>11, <1>12, <1>13 DEF Next

LEMMA InvKept == Spec => [](Inv /\ GrownCovers)
  BY InitInv, StepInv, PTL DEF Spec

(***************************************************************************)
(* The areas of mm_struct.c are in order and apart, for every address      *)
(* space, in which sums of addresses may wrap.                             *)
(***************************************************************************)
THEOREM AreasStayInOrder == Spec => []AreasInOrder
<1>1. Inv => AreasInOrder
  BY DEF Inv, Good, AreasInOrder
<1>. QED
  BY <1>1, InvKept, PTL

(***************************************************************************)
(* A stack that grow_vma_down grows never passes its limit.                *)
(***************************************************************************)
THEOREM StacksBounded == Spec => []StackBounded
<1>1. Inv => StackBounded
  <2>. SUFFICES ASSUME Inv, NEW t \in Task, NEW i \in DOMAIN mmap[t],
                       "down" \in mmap[t][i].vm_flags
                PROVE  LET a == mmap[t][i]
                       IN  \/ a.vm_end - a.vm_start <= SIZEOF_PAGE
                           \/ a.vm_end - a.vm_start <= a.max_size * SIZEOF_PAGE
    BY DEF StackBounded
  <2>. DEFINE a == mmap[t][i]
  <2>1. StackArea(a)
    BY DEF Inv, Good
  <2>2. PICK k \in Nat : a.vm_end - a.vm_start = k * SIZEOF_PAGE /\ (k <= 1 \/ k <= a.max_size)
    BY <2>1 DEF StackArea, Pages
  <2>3. a.max_size \in Nat
    BY <2>1 DEF StackArea
  <2>4. /\ k <= 1 => k * SIZEOF_PAGE <= SIZEOF_PAGE
        /\ k <= a.max_size => k * SIZEOF_PAGE <= a.max_size * SIZEOF_PAGE
    <3>. HIDE DEF a
    <3>1. 1 * SIZEOF_PAGE = SIZEOF_PAGE /\ 1 \in Nat
      BY VmAssumption
    <3>2. k <= 1 => k * SIZEOF_PAGE <= 1 * SIZEOF_PAGE
      BY <3>1, PagesInBytes, Zenon
    <3>3. k <= a.max_size => k * SIZEOF_PAGE <= a.max_size * SIZEOF_PAGE
      BY <2>3, PagesInBytes, Zenon
    <3>. QED
      BY <3>1, <3>2, <3>3, Zenon
  <2>. DEFINE x == a.vm_end - a.vm_start
              y == k * SIZEOF_PAGE
              z == a.max_size * SIZEOF_PAGE
  <2>5. /\ x = y /\ (k <= 1 \/ k <= a.max_size)
        /\ k <= 1 => y <= SIZEOF_PAGE
        /\ k <= a.max_size => y <= z
    BY <2>2, <2>4
  <2>6. x <= SIZEOF_PAGE \/ x <= z
    <3>. HIDE DEF a, x, y, z
    <3>. QED
      BY <2>5
  <2>. QED
    BY <2>6
<1>. QED
  BY <1>1, InvKept, PTL

(***************************************************************************)
(* The page that page_fault_handler maps after growing an area belongs to  *)
(* that area.                                                              *)
(***************************************************************************)
THEOREM GrowthReachesFault == Spec => []GrownCovers
  BY InvKept, PTL
=============================================================================
